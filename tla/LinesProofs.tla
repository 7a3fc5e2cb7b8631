------------------------------ MODULE LinesProofs ------------------------------
(* What joining and leaving does to the number of times a record stands in    *)
(* finitely many lines, for any records, and to a finite number of hands.     *)
EXTENDS Lines, Integers, TLAPS, FiniteSetTheorems, FunctionTheorems,
        WellFoundedInduction

\* A record stands at a place or it does not.
LEMMA PlaceIs ==
  ASSUME NEW I, NEW V, NEW lines \in [I -> Seq(V)], NEW m, NEW place
  PROVE  place \in Places(lines, m) <=>
           \E i \in I, k \in Nat : k \in 1..Len(lines[i]) /\ place = <<i, k>> /\ lines[i][k] = m
<1>1. \A i \in I : DOMAIN lines[i] = 1..Len(lines[i]) OBVIOUS
<1>2. DOMAIN lines = I OBVIOUS
<1>3. ASSUME NEW i \in I, NEW k \in 1..Len(lines[i]), place = <<i, k>>, lines[i][k] = m
      PROVE  place \in Places(lines, m)
  <2>1. place \in {i} \X DOMAIN lines[i] BY <1>1, <1>3
  <2>2. lines[place[1]][place[2]] = m BY <1>3
  <2> QED BY <1>2, <2>1, <2>2 DEF Places
<1>4. ASSUME place \in Places(lines, m)
      PROVE  \E i \in I, k \in Nat : k \in 1..Len(lines[i]) /\ place = <<i, k>> /\ lines[i][k] = m
  <2>1. PICK i \in I : place \in {i} \X DOMAIN lines[i] BY <1>2, <1>4 DEF Places
  <2>2. lines[place[1]][place[2]] = m BY <1>4 DEF Places
  <2>3. PICK k \in DOMAIN lines[i] : place = <<i, k>> BY <2>1
  <2> QED BY <1>1, <2>2, <2>3
<1> QED BY <1>3, <1>4

AreLines(lines, I, V)     == lines \in [I -> Seq(V)]
Joins(lines, next, i, x)  == next = [lines EXCEPT ![i] = Append(lines[i], x)]
Leaves(lines, next, i)    == lines[i] # <<>> /\ next = [lines EXCEPT ![i] = Tail(lines[i])]

\* The same, one direction at a time, for lines whose type is not expanded.
LEMMA StandsAt ==
  ASSUME NEW I, NEW V, NEW lines, AreLines(lines, I, V), NEW m, NEW i \in I, NEW k \in Nat,
         k \in 1..Len(lines[i]), lines[i][k] = m
  PROVE  <<i, k>> \in Places(lines, m)
BY PlaceIs DEF AreLines

\* A place names a line and a position in it.
LEMMA PlaceMeans ==
  ASSUME NEW I, NEW V, NEW lines, AreLines(lines, I, V), NEW m, NEW place \in Places(lines, m)
  PROVE  \E i \in I, k \in Nat :
           k \in 1..Len(lines[i]) /\ place = <<i, k>> /\ lines[i][k] = m
BY PlaceIs DEF AreLines

\* The places of finitely many lines are finitely many.
LEMMA TimesType ==
  ASSUME NEW I, IsFiniteSet(I), NEW V, NEW lines \in [I -> Seq(V)], NEW m
  PROVE  IsFiniteSet(Places(lines, m)) /\ Times(lines, m) \in Nat
<1> DEFINE rows == {{i} \X DOMAIN lines[i] : i \in I}
<1>1. \A i \in I : IsFiniteSet({i} \X DOMAIN lines[i])
  <2> TAKE i \in I
  <2>1. DOMAIN lines[i] = 1..Len(lines[i]) /\ Len(lines[i]) \in Int OBVIOUS
  <2>2. IsFiniteSet(DOMAIN lines[i]) BY <2>1, FS_Interval
  <2>3. IsFiniteSet({i}) BY FS_Singleton
  <2> QED BY <2>2, <2>3, FS_Product
<1>2. IsFiniteSet(rows)
  <2> DEFINE f == [i \in I |-> {i} \X DOMAIN lines[i]]
  <2>1. f \in Surjection(I, rows)
    <3>1. f \in [I -> rows] OBVIOUS
    <3>2. \A r \in rows : \E i \in I : f[i] = r OBVIOUS
    <3> QED BY <3>1, <3>2 DEF Surjection
  <2> QED BY <2>1, FS_Surjection
<1>3. IsFiniteSet(UNION rows) BY <1>1, <1>2, FS_UNION
<1>4. Places(lines, m) \subseteq UNION rows BY DEF Places
<1>5. IsFiniteSet(Places(lines, m)) BY <1>3, <1>4, FS_Subset
<1> QED BY <1>5, FS_CardinalityType DEF Times

\* Who stands in a line stands there at least once.
LEMMA TimesPositive ==
  ASSUME NEW I, IsFiniteSet(I), NEW V, NEW lines \in [I -> Seq(V)], NEW m
  PROVE  Times(lines, m) > 0 <=> \E i \in I, k \in Nat : k \in 1..Len(lines[i]) /\ lines[i][k] = m
<1>l. AreLines(lines, I, V) BY DEF AreLines
<1>1. IsFiniteSet(Places(lines, m)) /\ Times(lines, m) \in Nat BY TimesType
<1>2. Times(lines, m) = 0 <=> Places(lines, m) = {} BY <1>1, FS_EmptySet DEF Times
<1>3. ASSUME Places(lines, m) # {}
      PROVE  \E i \in I, k \in Nat : k \in 1..Len(lines[i]) /\ lines[i][k] = m
  <2>1. PICK place : place \in Places(lines, m) BY <1>3
  <2> QED BY <1>l, <2>1, PlaceMeans
<1>4. ASSUME NEW i \in I, NEW k \in Nat, k \in 1..Len(lines[i]), lines[i][k] = m
      PROVE  Places(lines, m) # {}
  BY <1>l, <1>4, StandsAt
<1> QED BY <1>1, <1>2, <1>3, <1>4

\* How often a record stands in the lines is a number, positive when it stands in one.
LEMMA TimesOf ==
  ASSUME NEW I, IsFiniteSet(I), NEW V, NEW lines, AreLines(lines, I, V), NEW m
  PROVE  /\ IsFiniteSet(Places(lines, m)) /\ Times(lines, m) \in Nat
         /\ Times(lines, m) > 0 <=> \E i \in I, k \in Nat : k \in 1..Len(lines[i]) /\ lines[i][k] = m
BY TimesType, TimesPositive DEF AreLines

\* Who joins a line stands in the lines once more, and nobody else does.
LEMMA TimesJoin ==
  ASSUME NEW I, IsFiniteSet(I), NEW V, NEW lines, AreLines(lines, I, V), NEW i \in I,
         NEW x \in V, NEW m, NEW next, Joins(lines, next, i, x)
  PROVE  /\ AreLines(next, I, V)
         /\ Times(next, m) = IF m = x THEN Times(lines, m) + 1 ELSE Times(lines, m)
<1> DEFINE last == <<i, Len(lines[i]) + 1>>
<1> USE DEF AreLines, Joins
<1>1. Append(lines[i], x) \in Seq(V) /\ Len(lines[i]) \in Nat OBVIOUS
<1>2. next \in [I -> Seq(V)] BY <1>1
<1>l. AreLines(lines, I, V) /\ AreLines(next, I, V) BY <1>2 DEF AreLines
<1>3. /\ next[i] = Append(lines[i], x) /\ Len(next[i]) = Len(lines[i]) + 1
      /\ \A k \in 1..Len(lines[i]) : next[i][k] = lines[i][k]
      /\ next[i][Len(lines[i]) + 1] = x
  BY <1>1
<1>4. \A j \in I : j # i => next[j] = lines[j] OBVIOUS
<1> HIDE DEF AreLines, Joins
<1>p. ASSUME NEW place \in Places(next, m)
      PROVE  \E j \in I, k \in Nat :
               k \in 1..Len(next[j]) /\ place = <<j, k>> /\ next[j][k] = m
  BY ONLY <1>l, PlaceMeans
<1>5. last \notin Places(lines, m)
  <2> SUFFICES ASSUME last \in Places(lines, m) PROVE FALSE OBVIOUS
  <2>1. PICK j \in I, k \in Nat : k \in 1..Len(lines[j]) /\ last = <<j, k>>
    BY <1>l, PlaceMeans
  <2> QED BY <1>1, <2>1
<1>6. Places(next, m) = IF m = x THEN Places(lines, m) \cup {last} ELSE Places(lines, m)
  <2>1. ASSUME NEW place \in Places(lines, m) PROVE place \in Places(next, m)
    <3>1. PICK j \in I, k \in Nat : k \in 1..Len(lines[j]) /\ place = <<j, k>> /\ lines[j][k] = m
      BY <1>l, PlaceMeans
    <3>2. k \in 1..Len(next[j]) /\ next[j][k] = m
      <4>1. CASE j = i BY <1>1, <1>3, <3>1, <4>1
      <4>2. CASE j # i BY <1>4, <3>1, <4>2
      <4> QED BY <4>1, <4>2
    <3> QED BY <1>l, <3>1, <3>2, StandsAt
  <2>2. ASSUME NEW place \in Places(next, m)
        PROVE  place \in Places(lines, m) \/ (place = last /\ m = x)
    <3>1. PICK j \in I, k \in Nat : k \in 1..Len(next[j]) /\ place = <<j, k>> /\ next[j][k] = m
      BY <1>p
    <3>2. CASE j # i BY <1>4, <1>l, <3>1, <3>2, StandsAt
    <3>3. CASE j = i /\ k = Len(lines[i]) + 1 BY <1>3, <3>1, <3>3
    <3>4. CASE j = i /\ k # Len(lines[i]) + 1
      <4>0. k \in 1..(Len(lines[i]) + 1) BY <1>3, <3>1, <3>4
      <4>1. k \in 1..Len(lines[i]) BY ONLY <1>1, <3>4, <4>0
      <4>2. lines[i][k] = m BY <1>3, <3>1, <3>4, <4>1
      <4> QED BY <3>1, <3>4, <4>1, <4>2, <1>l, StandsAt
    <3> QED BY <3>2, <3>3, <3>4
  <2>3. ASSUME m = x PROVE last \in Places(next, m)
    <3>1. Len(lines[i]) + 1 \in 1..Len(next[i]) BY <1>1, <1>3
    <3>2. Len(lines[i]) + 1 \in Nat BY <1>1
    <3> QED BY <1>2, <1>3, <2>3, <3>1, <3>2, <1>l, StandsAt
  <2> QED BY <2>1, <2>2, <2>3
<1>7. IsFiniteSet(Places(lines, m)) BY <1>l, TimesOf
<1>8. Times(next, m) = IF m = x THEN Times(lines, m) + 1 ELSE Times(lines, m)
  BY <1>5, <1>6, <1>7, FS_AddElement DEF Times
<1> QED BY <1>l, <1>8

\* Who leaves a line, at its head, stands in the lines once less, and nobody else does.
LEMMA TimesLeave ==
  ASSUME NEW I, IsFiniteSet(I), NEW V, NEW lines, AreLines(lines, I, V), NEW i \in I,
         NEW m, NEW next, Leaves(lines, next, i)
  PROVE  /\ AreLines(next, I, V)
         /\ Times(lines, m) = IF m = Head(lines[i]) THEN Times(next, m) + 1 ELSE Times(next, m)
<1> DEFINE n == Len(lines[i])
           shift == [place \in Places(next, m) |->
                       IF place[1] = i THEN <<i, place[2] + 1>> ELSE place]
           rest == Places(lines, m) \ {<<i, 1>>}
<1> USE DEF AreLines, Leaves
<1>1. lines[i] \in Seq(V) /\ n \in Nat /\ n > 0 /\ Tail(lines[i]) \in Seq(V) OBVIOUS
<1>2. next \in [I -> Seq(V)] BY <1>1
<1>l. AreLines(lines, I, V) /\ AreLines(next, I, V) BY <1>2 DEF AreLines
<1>3. /\ Len(next[i]) = n - 1
      /\ \A k \in 1..(n - 1) : next[i][k] = lines[i][k + 1]
      /\ Head(lines[i]) = lines[i][1]
  BY <1>1
<1>4. \A j \in I : j # i => next[j] = lines[j] OBVIOUS
<1> HIDE DEF n, AreLines, Leaves
<1>p. ASSUME NEW place \in Places(next, m)
      PROVE  \E j \in I, k \in Nat :
               k \in 1..Len(next[j]) /\ place = <<j, k>> /\ next[j][k] = m
  BY ONLY <1>l, PlaceMeans
<1>5. \A place \in Places(next, m) : shift[place] \in rest
  <2> TAKE place \in Places(next, m)
  <2>1. PICK j \in I, k \in Nat : k \in 1..Len(next[j]) /\ place = <<j, k>> /\ next[j][k] = m
    BY <1>p
  <2>2. CASE j # i
    <3>1. shift[place] = place BY <2>1, <2>2
    <3>2. place \in Places(lines, m) BY <1>4, <2>1, <2>2, <1>l, StandsAt
    <3> QED BY <2>1, <2>2, <3>1, <3>2
  <2>3. CASE j = i
    <3>1. shift[place] = <<i, k + 1>> BY <2>1, <2>3
    <3>2. k \in 1..(n - 1) /\ k + 1 \in 1..n /\ k + 1 # 1 BY <1>1, <1>3, <2>1, <2>3
    <3>3. lines[i][k + 1] = m BY <1>3, <2>1, <2>3, <3>2
    <3>4. <<i, k + 1>> \in Places(lines, m) BY <3>2, <3>3, <1>l, StandsAt DEF n
    <3>5. <<i, k + 1>> # <<i, 1>> BY ONLY <3>2
    <3> QED BY <3>1, <3>4, <3>5
  <2> QED BY <2>2, <2>3
<1>6. \A a, b \in Places(next, m) : shift[a] = shift[b] => a = b
  <2> TAKE a, b \in Places(next, m)
  <2>1. PICK j \in I, k \in Nat : k \in 1..Len(next[j]) /\ a = <<j, k>>
    BY <1>p
  <2>2. PICK l \in I, h \in Nat : h \in 1..Len(next[l]) /\ b = <<l, h>>
    BY <1>p
  <2>3. shift[a] = IF j = i THEN <<i, k + 1>> ELSE <<j, k>> BY <2>1
  <2>4. shift[b] = IF l = i THEN <<i, h + 1>> ELSE <<l, h>> BY <2>2
  <2> QED BY <2>1, <2>2, <2>3, <2>4
<1>7. ASSUME NEW place \in rest PROVE \E a \in Places(next, m) : shift[a] = place
  <2>1. PICK j \in I, k \in Nat : k \in 1..Len(lines[j]) /\ place = <<j, k>> /\ lines[j][k] = m
    BY <1>l, PlaceMeans
  <2>2. CASE j # i
    <3>1. place \in Places(next, m) BY <1>2, <1>4, <2>1, <2>2, <1>l, StandsAt
    <3>2. shift[place] = place BY <2>1, <2>2, <3>1
    <3> QED BY <3>1, <3>2
  <2>3. CASE j = i
    <3>1. k \in 1..n /\ k # 1 BY <1>7, <2>1, <2>3 DEF n
    <3>2. k - 1 \in 1..(n - 1) /\ (k - 1) + 1 = k BY <1>1, <3>1
    <3>3. next[i][k - 1] = m BY <1>3, <2>1, <2>3, <3>2
    <3>n. k - 1 \in Nat BY ONLY <3>2
    <3>4. <<i, k - 1>> \in Places(next, m) BY <1>2, <1>3, <3>2, <3>3, <3>n, <1>l, StandsAt
    <3>5. shift[<<i, k - 1>>] = <<i, (k - 1) + 1>> BY <3>4
    <3> QED BY <2>1, <2>3, <3>2, <3>4, <3>5
  <2> QED BY <2>2, <2>3
<1>8. IsFiniteSet(Places(lines, m)) /\ IsFiniteSet(Places(next, m))
  BY <1>l, TimesOf
<1>9. Cardinality(rest) = Cardinality(Places(next, m))
  <2>1. shift \in [Places(next, m) -> rest] BY <1>5
  <2>i. shift \in Injection(Places(next, m), rest) BY ONLY <1>6, <2>1 DEF Injection, IsInjective
  <2>s. shift \in Surjection(Places(next, m), rest) BY ONLY <1>7, <2>1 DEF Surjection
  <2>2. shift \in Bijection(Places(next, m), rest) BY ONLY <2>i, <2>s DEF Bijection
  <2> HIDE DEF shift, rest
  <2> QED BY <1>8, <2>2, FS_Bijection DEF ExistsBijection
<1>10. <<i, 1>> \in Places(lines, m) <=> m = Head(lines[i])
  <2>1. 1 \in 1..Len(lines[i]) BY <1>1 DEF n
  <2>2. ASSUME <<i, 1>> \in Places(lines, m) PROVE m = Head(lines[i])
    <3>1. PICK j \in I, k \in Nat : k \in 1..Len(lines[j]) /\ <<i, 1>> = <<j, k>> /\ lines[j][k] = m
      BY <2>2, <1>l, PlaceMeans
    <3> QED BY <1>3, <3>1
  <2> QED BY <1>3, <2>1, <2>2, <1>l, StandsAt
<1>11. Cardinality(rest) = IF <<i, 1>> \in Places(lines, m)
                             THEN Times(lines, m) - 1 ELSE Times(lines, m)
  BY <1>8, FS_RemoveElement DEF Times
<1>12. Times(lines, m) \in Nat /\ Times(next, m) \in Nat BY <1>l, TimesOf
<1>13. Times(next, m) = Cardinality(rest) BY <1>9 DEF Times
<1> HIDE DEF rest
<1>14. Times(lines, m) = IF m = Head(lines[i]) THEN Times(next, m) + 1 ELSE Times(next, m)
  BY <1>10, <1>11, <1>12, <1>13
<1> QED BY <1>l, <1>14

\* One place more, one less, or the same, when all other places stay as they are.
LEMMA OnePlaceChanges ==
  ASSUME NEW I, IsFiniteSet(I), NEW A \in SUBSET I, NEW B \in SUBSET I, NEW x \in I,
         \A y \in I : y # x => (y \in A <=> y \in B)
  PROVE  /\ Cardinality(A) \in Nat /\ Cardinality(B) \in Nat
         /\ x \in A /\ x \notin B => Cardinality(A) = Cardinality(B) + 1
         /\ x \notin A /\ x \in B => Cardinality(B) = Cardinality(A) + 1
         /\ (x \in A <=> x \in B) => Cardinality(A) = Cardinality(B)
<1>1. IsFiniteSet(A) /\ IsFiniteSet(B) BY FS_Subset
<1>2. Cardinality(A) \in Nat /\ Cardinality(B) \in Nat BY <1>1, FS_CardinalityType
<1>3. ASSUME x \in A, x \notin B PROVE Cardinality(A) = Cardinality(B) + 1
  <2>1. A = B \cup {x} BY <1>3
  <2> QED BY <1>1, <1>3, <2>1, FS_AddElement
<1>4. ASSUME x \notin A, x \in B PROVE Cardinality(B) = Cardinality(A) + 1
  <2>1. B = A \cup {x} BY <1>4
  <2> QED BY <1>1, <1>4, <2>1, FS_AddElement
<1>5. ASSUME x \in A <=> x \in B PROVE Cardinality(A) = Cardinality(B)
  <2>1. A = B BY <1>5
  <2> QED BY <2>1
<1> QED BY <1>2, <1>3, <1>4, <1>5

Extends(lines, next, i, x, n) ==
  next = [lines EXCEPT ![i] = lines[i] \o [k \in 1..n |-> x]]
Clears(lines, next, D)        == next = [i \in DOMAIN lines |-> IF i \in D THEN <<>> ELSE lines[i]]
NoneIn(lines, D, m)           == \A i \in D : m \notin Range(lines[i])
Empties(lines, next, i)       == next = [lines EXCEPT ![i] = <<>>]

\* Who joins a line n times stands in the lines n times more, and nobody else does.
LEMMA TimesExtend ==
  ASSUME NEW I, IsFiniteSet(I), NEW V, NEW lines, AreLines(lines, I, V), NEW i \in I,
         NEW x \in V, NEW n \in Nat, NEW m, NEW next, Extends(lines, next, i, x, n)
  PROVE  /\ AreLines(next, I, V)
         /\ Times(next, m) = IF m = x THEN Times(lines, m) + n ELSE Times(lines, m)
<1> DEFINE len   == Len(lines[i])
           added == {i} \X (len + 1 .. len + n)
           tail  == [k \in 1..n |-> x]
<1>1. lines[i] \in Seq(V) /\ len \in Nat  BY DEF AreLines
<1>2. tail \in Seq(V) /\ Len(tail) = n /\ \A k \in 1..n : tail[k] = x  OBVIOUS
<1>3. next = [lines EXCEPT ![i] = lines[i] \o tail]  BY DEF Extends
<1> HIDE DEF tail
<1>4. next \in [I -> Seq(V)] /\ next[i] = lines[i] \o tail
      /\ \A j \in I : j # i => next[j] = lines[j]
  BY <1>1, <1>2, <1>3 DEF AreLines
<1>5. /\ Len(next[i]) = len + n
      /\ \A k \in 1..len : next[i][k] = lines[i][k]
      /\ \A k \in len + 1 .. len + n : next[i][k] = x
  <2>1. Len(next[i]) = len + n
    <3>1. Len(lines[i] \o tail) = Len(lines[i]) + Len(tail)  BY ONLY <1>1, <1>2
    <3> QED BY <1>2, <1>4, <3>1
  <2>2. \A k \in 1..len : next[i][k] = lines[i][k]  BY <1>1, <1>2, <1>4
  <2>3. ASSUME NEW k \in len + 1 .. len + n PROVE next[i][k] = x
    <3>1. k \in 1..(len + n) /\ k > len /\ k - len \in 1..n  BY <1>1, <2>3
    <3>2. (lines[i] \o tail)[k] = tail[k - len]  BY <1>1, <1>2, <3>1
    <3> QED BY <1>2, <1>4, <3>1, <3>2
  <2> QED BY <2>1, <2>2, <2>3
<1>l. AreLines(next, I, V)  BY <1>4 DEF AreLines
<1> HIDE DEF len
<1>6. ASSUME NEW place \in Places(next, m)
      PROVE  place \in Places(lines, m) \/ (m = x /\ place \in added)
  <2>1. PICK j \in I, k \in Nat : k \in 1..Len(next[j]) /\ place = <<j, k>> /\ next[j][k] = m
    BY ONLY <1>6, <1>l, PlaceMeans
  <2>2. CASE j # i  BY <1>4, <2>1, <2>2, StandsAt
  <2>3. CASE j = i /\ k \in 1..len  BY <1>5, <2>1, <2>3, StandsAt DEF len
  <2>4. CASE j = i /\ k \notin 1..len
    <3>1. k \in len + 1 .. len + n  BY <1>1, <1>5, <2>1, <2>4
    <3> QED BY <1>5, <2>1, <2>4, <3>1
  <2> QED BY <2>2, <2>3, <2>4
<1>7. ASSUME NEW place \in Places(lines, m) PROVE place \in Places(next, m) /\ place \notin added
  <2>1. PICK j \in I, k \in Nat : k \in 1..Len(lines[j]) /\ place = <<j, k>> /\ lines[j][k] = m
    BY ONLY <1>7, AreLines(lines, I, V), PlaceMeans
  <2>2. CASE j # i  BY <1>4, <1>l, <2>1, <2>2, StandsAt
  <2>3. CASE j = i
    <3>1. k \in 1..len  BY <2>1, <2>3 DEF len
    <3>2. k \in 1..Len(next[i]) /\ next[i][k] = m /\ k \notin len + 1 .. len + n
      BY <1>1, <1>5, <2>1, <2>3, <3>1
    <3> QED BY <1>l, <2>1, <2>3, <3>2, StandsAt
  <2> QED BY <2>2, <2>3
<1>8. ASSUME m = x, NEW place \in added PROVE place \in Places(next, m)
  <2>1. PICK k \in len + 1 .. len + n : place = <<i, k>>  BY <1>8
  <2>2. k \in Nat /\ k \in 1..Len(next[i])  BY <1>1, <1>5
  <2> QED BY <1>5, <1>8, <1>l, <2>1, <2>2, StandsAt
<1>9. IsFiniteSet(Places(lines, m)) /\ Times(lines, m) \in Nat  BY TimesOf
<1>10. IsFiniteSet(added) /\ Cardinality(added) = n
  <2>1. IsFiniteSet(len + 1 .. len + n) /\ Cardinality(len + 1 .. len + n) = n
    <3>1. len + 1 \in Int /\ len + n \in Int  BY <1>1
    <3>2. IsFiniteSet(len + 1 .. len + n)
          /\ Cardinality(len + 1 .. len + n)
               = IF len + 1 > len + n THEN 0 ELSE (len + n) - (len + 1) + 1
      BY ONLY <3>1, FS_Interval
    <3> QED BY <1>1, <3>2
  <2>2. IsFiniteSet({i}) /\ Cardinality({i}) = 1  BY FS_Singleton
  <2>3. IsFiniteSet(added) /\ Cardinality(added) = 1 * n  BY <2>1, <2>2, FS_Product
  <2> QED BY <2>3
<1> HIDE DEF added
<1>11. CASE m = x
  <2>1. Places(next, m) = Places(lines, m) \cup added  BY <1>6, <1>7, <1>8, <1>11
  <2>2. Places(lines, m) \cap added = {}  BY <1>7
  <2>3. Cardinality(Places(lines, m) \cup added) = Times(lines, m) + n - Cardinality({})
    BY <1>9, <1>10, <2>2, FS_Union DEF Times
  <2> QED BY <1>l, <1>9, <1>11, <2>1, <2>3, FS_EmptySet DEF Times
<1>12. CASE m # x
  <2>1. Places(next, m) = Places(lines, m)  BY <1>6, <1>7, <1>12
  <2> QED BY <1>l, <1>12, <2>1 DEF Times
<1> QED BY <1>11, <1>12

\* When lines are emptied, nobody stands in the lines more often, and one who stood
\* in none of them as often as before.
LEMMA TimesCleared ==
  ASSUME NEW I, IsFiniteSet(I), NEW V, NEW lines, AreLines(lines, I, V), NEW D, NEW m,
         NEW next, Clears(lines, next, D)
  PROVE  /\ AreLines(next, I, V) /\ Times(lines, m) \in Nat /\ Times(next, m) \in Nat
         /\ Times(next, m) <= Times(lines, m)
         /\ NoneIn(lines, I \cap D, m) => Times(next, m) = Times(lines, m)
<1>1. /\ next \in [I -> Seq(V)]
      /\ \A j \in I : next[j] = IF j \in D THEN <<>> ELSE lines[j]
  <2>1. DOMAIN lines = I BY DEF AreLines
  <2> QED BY <2>1 DEF AreLines, Clears
<1>l. AreLines(next, I, V)  BY <1>1 DEF AreLines
<1>2. ASSUME NEW place \in Places(next, m) PROVE place \in Places(lines, m)
  <2>1. PICK j \in I, k \in Nat : k \in 1..Len(next[j]) /\ place = <<j, k>> /\ next[j][k] = m
    BY ONLY <1>2, <1>l, PlaceMeans
  <2>2. j \notin D  BY <1>1, <2>1
  <2> QED BY <1>1, <2>1, <2>2, StandsAt
<1>3. /\ IsFiniteSet(Places(lines, m)) /\ Times(lines, m) \in Nat /\ Times(next, m) \in Nat
  BY <1>l, TimesOf
<1>4. Times(next, m) <= Times(lines, m)  BY <1>2, <1>3, FS_Subset DEF Times
<1>5. ASSUME NoneIn(lines, I \cap D, m), NEW place \in Places(lines, m)
      PROVE  place \in Places(next, m)
  <2>1. PICK j \in I, k \in Nat : k \in 1..Len(lines[j]) /\ place = <<j, k>> /\ lines[j][k] = m
    BY ONLY <1>5, AreLines(lines, I, V), PlaceMeans
  <2>2. j \notin D
    <3>1. lines[j] \in Seq(V)  BY DEF AreLines
    <3> QED BY <1>5, <2>1, <3>1 DEF NoneIn, Range
  <2>3. next[j] = lines[j]  BY <1>1, <2>2
  <2> QED BY <1>l, <2>1, <2>3, StandsAt
<1>6. ASSUME NoneIn(lines, I \cap D, m) PROVE Times(next, m) = Times(lines, m)
  <2>1. Places(next, m) = Places(lines, m)  BY <1>2, <1>5, <1>6
  <2> QED BY <2>1 DEF Times
<1> QED BY <1>l, <1>3, <1>4, <1>6

\* A subset of finitely many places is not larger, and equal when it is all of them.
LEMMA FewerPlaces ==
  ASSUME NEW I, IsFiniteSet(I), NEW A \in SUBSET I, NEW B \in SUBSET A
  PROVE  /\ Cardinality(A) \in Nat /\ Cardinality(B) \in Nat /\ Cardinality(B) <= Cardinality(A)
<1>1. IsFiniteSet(A) BY FS_Subset
<1> QED BY <1>1, FS_Subset, FS_CardinalityType

\* When one line is emptied, nobody stands in the lines more often.
LEMMA TimesEmptied ==
  ASSUME NEW I, IsFiniteSet(I), NEW V, NEW lines, AreLines(lines, I, V), NEW i \in I,
         NEW m, NEW next, Empties(lines, next, i)
  PROVE  AreLines(next, I, V) /\ Times(next, m) <= Times(lines, m)
<1>1. Clears(lines, next, {i})  BY DEF AreLines, Empties, Clears
<1> QED BY ONLY <1>1, IsFiniteSet(I), AreLines(lines, I, V), TimesCleared

\* Numbers have a least one among them: the induction of the provers.
LEMMA LeastOf ==
  ASSUME NEW T \in SUBSET Nat, T # {} PROVE \E n \in T : \A m \in T : n <= m
<1>1. PICK R : IsWellFoundedOn(R, Nat) /\ \A n, m \in Nat : m < n => <<m, n>> \in R
  <2>1. \A n, m \in Nat : m < n => <<m, n>> \in OpToRel(<, Nat)  BY DEF OpToRel
  <2> QED BY Zenon, <2>1, NatLessThanWellFounded
<1>2. PICK n \in T : \A m \in T : ~ (<<m, n>> \in R)  BY <1>1, WFMin
<1>3. ASSUME NEW m \in T PROVE n <= m
  <2>1. n \in Nat /\ m \in Nat  OBVIOUS
  <2>2. ~(m < n)  BY <1>1, <1>2, <2>1
  <2> QED BY <2>1, <2>2
<1> QED BY <1>3


-------------------------------------------------------------------------------
(* Loops: recursive functions of the number of turns. *)

Iterates(it, N, S, x, step) ==
  /\ it \in [0..N -> S]
  /\ it = [n \in 0..N |-> IF n = 0 THEN x ELSE step[<<n, it[n - 1]>>]]

\* A loop that stays in a set of states has a run.
LEMMA IterationExists ==
  ASSUME NEW N \in Nat, NEW S, NEW x \in S, NEW step \in [(1..N) \X S -> S]
  PROVE  \E it : Iterates(it, N, S, x, step)
<1> DEFINE next(it, n) == IF n = 0 THEN x ELSE step[<<n, it[n - 1]>>]
           upTo(n, it) == it \in [0..n -> S] /\ \A i \in 0..n : it[i] = next(it, i)
           Bad == {n \in 0..N : ~(\E it : upTo(n, it))}
<1>1. Bad = {}
  <2> SUFFICES ASSUME Bad # {} PROVE FALSE  OBVIOUS
  <2>1. Bad \in SUBSET Nat  OBVIOUS
  <2>2. PICK n \in Bad : \A m \in Bad : n <= m
    <3> HIDE DEF Bad
    <3> QED BY <2>1, LeastOf
  <2>3. n \in 0..N /\ ~(\E it : upTo(n, it)) /\ n \in Nat  OBVIOUS
  <2>4. CASE n = 0
    <3> DEFINE it == [i \in 0..0 |-> x]
    <3>1. upTo(0, it)  OBVIOUS
    <3> QED BY <2>3, <2>4, <3>1
  <2>5. CASE n # 0
    <3>1. n - 1 \in 0..N /\ n - 1 \in Nat /\ ~(n <= n - 1) /\ n \in 1..N  BY <2>3, <2>5
    <3>2. PICK g : upTo(n - 1, g)
      <4>1. n - 1 \notin Bad
        <5> HIDE DEF Bad
        <5> QED BY <2>2, <3>1
      <4> QED BY <3>1, <4>1
    <3>3. g[n - 1] \in S  BY <2>3, <2>5, <3>2
    <3>4. step[<<n, g[n - 1]>>] \in S  BY <3>1, <3>3
    <3> DEFINE it == [i \in 0..n |-> IF i = n THEN step[<<n, g[n - 1]>>] ELSE g[i]]
    <3>5. \A i \in 0..n : i # n => i \in 0..(n - 1)  BY <2>3
    <3>6. it \in [0..n -> S]  BY <3>2, <3>4, <3>5
    <3>7. \A i \in 0..n : it[i] = IF i = n THEN step[<<n, g[n - 1]>>] ELSE g[i]  OBVIOUS
    <3> HIDE DEF it
    <3>8. ASSUME NEW i \in 0..n PROVE it[i] = next(it, i)
      <4>1. CASE i = 0  BY <2>5, <3>2, <3>5, <3>7, <4>1
      <4>2. CASE i # 0
        <5>1. i - 1 \in 0..n /\ i - 1 # n  BY <2>3, <4>2
        <5>2. it[i - 1] = g[i - 1]  BY <3>7, <5>1
        <5>3. CASE i = n  BY <3>7, <4>2, <5>2, <5>3
        <5>4. CASE i # n
          <6>1. g[i] = next(g, i)  BY <3>2, <3>5, <5>4
          <6>2. it[i] = g[i]  BY <3>7, <5>4
          <6> QED BY <4>2, <5>2, <6>1, <6>2
        <5> QED BY <5>3, <5>4
      <4> QED BY <4>1, <4>2
    <3>9. upTo(n, it)  BY <3>6, <3>8
    <3> HIDE DEF upTo
    <3> QED BY <2>3, <3>9
  <2> QED BY <2>4, <2>5
<1>2. PICK it : upTo(N, it)
  <2>1. N \in 0..N  OBVIOUS
  <2> HIDE DEF upTo
  <2> QED BY <1>1, <2>1
<1>3. it = [n \in 0..N |-> it[n]]  BY <1>2
<1>4. it = [n \in 0..N |-> next(it, n)]
  <2>1. \A n \in 0..N : it[n] = next(it, n)  BY <1>2
  <2> HIDE DEF next
  <2> QED BY <1>3, <2>1
<1> QED BY <1>2, <1>4 DEF Iterates

\* What every turn keeps holds after the last one: Inv[n] are the states that may be
\* after n turns.
LEMMA IterationKeeps ==
  ASSUME NEW N \in Nat, NEW Inv, NEW it, it[0] \in Inv[0],
         \A n \in 1..N : it[n - 1] \in Inv[n - 1] => it[n] \in Inv[n]
  PROVE  \A n \in 0..N : it[n] \in Inv[n]
<1> DEFINE Bad == {n \in 0..N : it[n] \notin Inv[n]}
<1> SUFFICES ASSUME Bad # {} PROVE FALSE  OBVIOUS
<1>1. Bad \in SUBSET Nat  OBVIOUS
<1>2. PICK n \in Bad : \A m \in Bad : n <= m
  <2> HIDE DEF Bad
  <2> QED BY <1>1, LeastOf
<1>3. n \in 0..N /\ it[n] \notin Inv[n]  OBVIOUS
<1>4. n # 0  BY <1>3
<1>5. n - 1 \in 0..N /\ n \in 1..N /\ ~(n <= n - 1)  BY <1>3, <1>4
<1>6. n - 1 \notin Bad
  <2> HIDE DEF Bad
  <2> QED BY <1>2, <1>5
<1> QED BY <1>3, <1>5, <1>6

LEMMA RangeOfAppend ==
  ASSUME NEW V, NEW q \in Seq(V), NEW x \in V
  PROVE  Append(q, x) \in Seq(V) /\ Range(Append(q, x)) = Range(q) \cup {x}
<1>1. Len(q) \in Nat /\ DOMAIN q = 1..Len(q)  OBVIOUS
<1>2. DOMAIN Append(q, x) = 1..(Len(q) + 1)  OBVIOUS
<1>3. \A i \in 1..(Len(q) + 1) : Append(q, x)[i] = IF i = Len(q) + 1 THEN x ELSE q[i]
  OBVIOUS
<1>4. 1..(Len(q) + 1) = 1..Len(q) \cup {Len(q) + 1}  BY <1>1
<1>5. \A i \in 1..Len(q) : i # Len(q) + 1  BY <1>1
<1>6. Range(Append(q, x)) = Range(q) \cup {x}  BY <1>1, <1>2, <1>3, <1>4, <1>5 DEF Range
<1> QED BY <1>6

\* What the recursive function of Only satisfies.
Keeps(f, S, all) ==
  f = [i \in 0..Len(all) |->
         IF i = 0 THEN <<>> ELSE IF all[i] \in S THEN Append(f[i - 1], all[i]) ELSE f[i - 1]]

LEMMA OnlyChosen ==
  ASSUME NEW S, NEW all PROVE Only(S, all) = (CHOOSE f : Keeps(f, S, all))[Len(all)]
BY Zenon DEF Only, Keeps

\* The members of S are left.
LEMMA OnlyIs ==
  ASSUME NEW V, NEW all \in Seq(V), NEW S
  PROVE  Only(S, all) \in Seq(V) /\ Range(Only(S, all)) = Range(all) \cap S
<1> DEFINE L == Len(all)
           next(q, i) == IF all[i] \in S THEN Append(q, all[i]) ELSE q
           step == [p \in (1..L) \X Seq(V) |-> next(p[2], p[1])]
           some(i) == {all[j] : j \in 1..i}
           Inv == [i \in 0..L |-> {q \in Seq(V) : Range(q) = some(i) \cap S}]
<1>0. L \in Nat /\ DOMAIN all = 1..L /\ \A i \in 1..L : all[i] \in V  OBVIOUS
<1>1. \A i \in 1..L, q \in Seq(V) : next(q, i) \in Seq(V)  BY <1>0
<1>2. step \in [(1..L) \X Seq(V) -> Seq(V)]
  <2> HIDE DEF next, L
  <2> QED BY <1>1
<1>3. \A i \in 1..L, q \in Seq(V) : step[<<i, q>>] = next(q, i)
  <2> HIDE DEF next, L
  <2> QED OBVIOUS
<1>e. <<>> \in Seq(V)  OBVIOUS
<1> HIDE DEF next, L, step
<1>4. \E f : f = [i \in 0..L |-> IF i = 0 THEN <<>> ELSE next(f[i - 1], i)]
  <2>1. PICK f \in [0..L -> Seq(V)] :
          f = [i \in 0..L |-> IF i = 0 THEN <<>> ELSE step[<<i, f[i - 1]>>]]
    <3>1. PICK T, x, N, g : T = Seq(V) /\ x = <<>> /\ N = L /\ g = step  OBVIOUS
    <3>2. x \in T /\ N \in Nat /\ g \in [(1..N) \X T -> T]  BY <1>0, <1>2, <1>e, <3>1
    <3>3. \E f : Iterates(f, N, T, x, g)  BY ONLY <3>2, IterationExists
    <3> QED BY <3>1, <3>3 DEF Iterates
  <2>2. ASSUME NEW i \in 0..L, i # 0 PROVE step[<<i, f[i - 1]>>] = next(f[i - 1], i)
    <3>1. i \in 1..L /\ i - 1 \in 0..L  BY <1>0, <2>2
    <3>2. f[i - 1] \in Seq(V)  BY <2>1, <3>1
    <3> QED BY <1>3, <3>1, <3>2
  <2>3. [i \in 0..L |-> IF i = 0 THEN <<>> ELSE step[<<i, f[i - 1]>>]]
        = [i \in 0..L |-> IF i = 0 THEN <<>> ELSE next(f[i - 1], i)]
    BY <2>2
  <2> QED BY <2>1, <2>3
<1>5. PICK f : /\ f = [i \in 0..L |-> IF i = 0 THEN <<>> ELSE next(f[i - 1], i)]
               /\ Only(S, all) = f[L]
  <2>1. \A f : Keeps(f, S, all) <=> f = [i \in 0..L |-> IF i = 0 THEN <<>> ELSE next(f[i - 1], i)]
    BY DEF Keeps, next, L
  <2>2. Keeps(CHOOSE f : Keeps(f, S, all), S, all)  BY <1>4, <2>1
  <2> QED BY <2>1, <2>2, OnlyChosen DEF L
<1>6. f[0] \in Inv[0]
  <2>1. f[0] = <<>>  BY <1>0, <1>5
  <2>2. Range(<<>>) = {} /\ some(0) = {}  BY DEF Range
  <2> QED BY <1>0, <1>e, <2>1, <2>2
<1>7. ASSUME NEW i \in 1..L, f[i - 1] \in Inv[i - 1] PROVE f[i] \in Inv[i]
  <2>1. i - 1 \in 0..L /\ i \in 0..L /\ i # 0 /\ i \in Nat  BY <1>0
  <2>2. PICK q \in Seq(V) : q = f[i - 1] /\ Range(q) = some(i - 1) \cap S
    <3> HIDE DEF some
    <3> QED BY <1>7, <2>1
  <2>3. f[i] = next(q, i)  BY <1>5, <2>1, <2>2
  <2>4. some(i) = some(i - 1) \cup {all[i]} /\ all[i] \in V
    <3>1. 1..i = 1..(i - 1) \cup {i}  BY <2>1
    <3> QED BY <1>0, <3>1
  <2> HIDE DEF some
  <2>5. Append(q, all[i]) \in Seq(V) /\ Range(Append(q, all[i])) = Range(q) \cup {all[i]}
    BY <2>2, <2>4, RangeOfAppend
  <2>6. next(q, i) \in Seq(V) /\ Range(next(q, i)) = some(i) \cap S
    <3>1. CASE all[i] \in S
      <4>1. next(q, i) = Append(q, all[i])  BY <3>1 DEF next
      <4> QED BY <2>2, <2>4, <2>5, <3>1, <4>1
    <3>2. CASE all[i] \notin S
      <4>1. next(q, i) = q  BY <3>2 DEF next
      <4> QED BY <2>2, <2>4, <3>2, <4>1
    <3> QED BY <3>1, <3>2
  <2> QED BY <2>1, <2>3, <2>6
<1>8. \A i \in 0..L : f[i] \in Inv[i]
  <2> HIDE DEF Inv
  <2> QED BY <1>0, <1>6, <1>7, IterationKeeps
<1>9. L \in 0..L /\ some(L) = Range(all)  BY <1>0 DEF Range
<1> HIDE DEF some
<1> QED BY <1>5, <1>8, <1>9
================================================================================
