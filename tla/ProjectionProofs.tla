-------------------------- MODULE ProjectionProofs --------------------------
(***************************************************************************)
(* Proofs about Projection, the write under review: the edits, the scanner *)
(* and the spans.  They are recursive functions over texts of any length; what *)
(* they compute is proved by induction over sets of offsets (UpTo), which  *)
(* rests on the well-foundedness of the natural numbers.                   *)
(***************************************************************************)
EXTENDS Projection, TLAPS, SequenceTheorems, FiniteSetTheorems, WellFoundedInduction

\* Induction, over sets: the natural numbers are well founded.
LEMMA LeastOf ==
  ASSUME NEW S, S \subseteq Nat, S # {}
  PROVE  \E x \in S : \A y \in S : x <= y
<1> DEFINE Less == OpToRel(<, Nat)
<1>1. IsWellFoundedOn(Less, Nat)
  BY NatLessThanWellFounded
<1>2. \A x, y \in Nat : x < y => <<x, y>> \in Less
  BY DEF OpToRel
<1> HIDE DEF Less
<1>3. PICK x \in S : \A y \in S : <<y, x>> \notin Less
  BY <1>1, WFMin
<1>4. ASSUME NEW y \in S PROVE x <= y
  <2>1. ~(y < x)
    BY <1>2, <1>3
  <2> QED BY <2>1
<1> QED BY <1>4

\* What holds at 0 and passes from each number to the next one holds up to any.
LEMMA UpTo ==
  ASSUME NEW n \in Nat, NEW S, 0 \in S, \A k \in 1 .. n : k - 1 \in S => k \in S
  PROVE  \A k \in 0 .. n : k \in S
<1> DEFINE T == {k \in 0 .. n : k \notin S}
<1>1. ASSUME T # {} PROVE FALSE
  <2>1. T \subseteq Nat
    OBVIOUS
  <2>2. PICK x \in T : \A y \in T : x <= y
    BY <1>1, <2>1, LeastOf
  <2>3. x \in 1 .. n /\ x - 1 \in 0 .. n
    BY <2>2
  <2>4. x - 1 \in S
    BY <2>2, <2>3
  <2> QED BY <2>2, <2>3, <2>4
<1> QED BY <1>1

\* The folds of some steps from a value: those of the model's LETs.
Folds(n, A, a, move) ==
  {f \in [0 .. n -> A] : f[0] = a /\ \A k \in 1 .. n : f[k] = move[k][f[k - 1]]}

\* The steps can be folded, so the functions the model defines by them exist.
LEMMA FoldExists ==
  ASSUME NEW n \in Nat, NEW A, NEW a \in A, NEW move \in [1 .. n -> [A -> A]]
  PROVE  \E f : f \in Folds(n, A, a, move)
<1> DEFINE S == {m \in 0 .. n : Folds(m, A, a, move) # {}}
<1>1. 0 \in S
  <2>1. [k \in 0 .. 0 |-> a] \in Folds(0, A, a, move)
    BY DEF Folds
  <2> QED BY <2>1
<1>2. ASSUME NEW k \in 1 .. n, k - 1 \in S PROVE k \in S
  <2>1. PICK f \in Folds(k - 1, A, a, move) : TRUE
    BY <1>2
  <2>2. f \in [0 .. k - 1 -> A] /\ f[0] = a /\ \A i \in 1 .. k - 1 : f[i] = move[i][f[i - 1]]
    BY <2>1 DEF Folds
  <2> DEFINE g == [i \in 0 .. k |-> IF i = k THEN move[k][f[k - 1]] ELSE f[i]]
  <2>3. move[k][f[k - 1]] \in A
    BY <2>2
  <2>4. g \in [0 .. k -> A] /\ g[0] = a /\ g[k] = move[k][g[k - 1]]
    <3>1. \A i \in 0 .. k : i # k => i \in 0 .. k - 1
      OBVIOUS
    <3>2. 0 \in 0 .. k /\ 0 # k /\ k \in 0 .. k /\ k - 1 \in 0 .. k /\ k - 1 # k
      OBVIOUS
    <3>3. g \in [0 .. k -> A]
      BY <2>2, <2>3, <3>1
    <3> QED BY <2>2, <3>2, <3>3
  <2>5. ASSUME NEW i \in 1 .. k PROVE g[i] = move[i][g[i - 1]]
    <3>1. CASE i = k
      BY <2>4, <3>1
    <3>2. CASE i # k
      <4>1. i \in 1 .. k - 1 /\ i - 1 \in 0 .. k - 1 /\ i \in 0 .. k /\ i - 1 \in 0 .. k /\ i - 1 # k
        BY <3>2
      <4> QED BY <2>2, <3>2, <4>1
    <3> QED BY <3>1, <3>2
  <2> HIDE DEF g
  <2>6. g \in Folds(k, A, a, move)
    BY <2>4, <2>5 DEF Folds
  <2> QED BY <2>6
<1>3. \A k \in 0 .. n : k \in S
  <2> HIDE DEF S
  <2> QED BY <1>1, <1>2, UpTo
<1>4. n \in S
  <2> HIDE DEF S
  <2> QED BY <1>3
<1> QED BY <1>4

\* A text that occurs a number of times other than 0 is somewhere.
LEMMA OccursSomewhere ==
  ASSUME NEW text \in Strings, NEW part \in Strings, Counted(text, part) # 0
  PROVE  Places(text, part) # {}
<1> DEFINE O == Occurrences(text, part)
           a == [next |-> 1, count |-> 0]
           Step(acc, i) == IF i >= acc.next /\ i \in Places(text, part)
                            THEN [next |-> i + Len(part), count |-> acc.count + 1] ELSE acc
           Body(f) == [i \in 0 .. Len(text) |-> IF i = 0 THEN a ELSE Step(f[i - 1], i)]
<1>1. ASSUME Places(text, part) = {} PROVE FALSE
  <2>1. Len(text) \in Nat
    BY DEF Strings
  <2>2. Body([i \in 0 .. Len(text) |-> a]) = [i \in 0 .. Len(text) |-> a]
    BY <1>1, <2>1
  <2>3. \E f : f = Body(f)
    BY <2>2
  <2>4. O = Body(O)
    BY <2>3 DEF Occurrences
  <2> HIDE DEF O
  <2>5. \A i \in 0 .. Len(text) : O[i] = IF i = 0 THEN a ELSE O[i - 1]
    BY <1>1, <2>4
  <2> HIDE DEF a, Body
  <2> DEFINE S == {i \in 0 .. Len(text) : O[i] = a}
  <2>6. 0 \in S
    BY <2>1, <2>5
  <2>7. ASSUME NEW k \in 1 .. Len(text), k - 1 \in S PROVE k \in S
    <3>1. k \in 0 .. Len(text) /\ k # 0
      BY <2>1
    <3> QED BY <2>5, <2>7, <3>1
  <2> HIDE DEF S
  <2>8. Len(text) \in S
    <3>1. Len(text) \in 0 .. Len(text)
      BY <2>1
    <3>2. \A k \in 0 .. Len(text) : k \in S
      BY <2>1, <2>6, <2>7, UpTo
    <3> QED BY <3>1, <3>2
  <2>9. O[Len(text)] = a
    BY <2>8 DEF S
  <2>10. O[Len(text)].count = 0
    BY <2>9 DEF a
  <2> QED BY <2>10 DEF Counted, O
<1> QED BY <1>1

\* A text is where it fits.
LEMMA PlacesFit ==
  ASSUME NEW text \in Strings, NEW part \in Strings
  PROVE  /\ Places(text, part) \subseteq Nat \ {0}
         /\ \A i \in Places(text, part) : i + Len(part) - 1 <= Len(text) /\ At(text, part, i)
BY DEF Places, Strings

\* The old text of a replacement that resolves is found.
LEMMA UniqueIsLocated ==
  ASSUME NEW text \in Strings, NEW r \in [old : Strings, new : Strings], Resolution(r, text) = "unique"
  PROVE  r.old # <<>> /\ Min(Places(text, r.old)) \in Places(text, r.old)
<1>1. r.old # <<>> /\ Counted(text, r.old) # 0
  BY DEF Resolution
<1>2. Places(text, r.old) # {} /\ Places(text, r.old) \subseteq Nat
  BY <1>1, OccursSomewhere, PlacesFit
<1>3. \E x \in Places(text, r.old) : \A y \in Places(text, r.old) : x <= y
  BY <1>2, LeastOf
<1> QED BY <1>1, <1>3 DEF Min

LocatedEdits == [at : Nat, old : Strings, new : Strings]

\* The stable order of the edits is an order of all of them.
LEMMA SortedFits ==
  ASSUME NEW located \in Seq(LocatedEdits)
  PROVE  LET n == Len(located)
             sorted == Sorted(located)
         IN  /\ sorted \in Seq(LocatedEdits) /\ Len(sorted) = n
             /\ \A k \in 1 .. n : \E i \in 1 .. n : sorted[k] = located[i]
             /\ \A i \in 1 .. n : \E k \in 1 .. n : sorted[k] = located[i]
             /\ \A k, l \in 1 .. n : k < l => sorted[k].at <= sorted[l].at
<1> DEFINE n == Len(located)
           sorted == Sorted(located)
           Sooner(j, i) == \/ located[j].at < located[i].at
                           \/ located[j].at = located[i].at /\ j <= i
           Lower(i) == {j \in 1 .. n : Sooner(j, i)}
<1>1. n \in Nat /\ \A i \in 1 .. n : located[i] \in LocatedEdits /\ located[i].at \in Nat
  <2>1. n \in Nat /\ DOMAIN located = 1 .. n
    BY LenProperties
  <2>2. ASSUME NEW i \in 1 .. n PROVE located[i] \in LocatedEdits
    BY <2>2, ElementOfSeq
  <2> QED BY <2>1, <2>2 DEF LocatedEdits
<1> HIDE DEF n
<1>2. IsFiniteSet(1 .. n) /\ Cardinality(1 .. n) = n
  <2>1. 1 \in Int /\ n \in Int /\ ~(1 > n + 1) /\ n - 1 + 1 = n
    BY <1>1
  <2> QED BY <2>1, FS_Interval
<1>3. \A i \in 1 .. n : Rank(located, i) = Cardinality(Lower(i))
  BY DEF Rank, n
<1>4. ASSUME NEW i \in 1 .. n
      PROVE  Rank(located, i) \in 1 .. n /\ IsFiniteSet(Lower(i))
  <2>1. IsFiniteSet(Lower(i)) /\ Cardinality(Lower(i)) <= n
    BY <1>2, FS_Subset
  <2>2. i \in Lower(i)
    BY <1>1
  <2> HIDE DEF Lower
  <2>3. Cardinality(Lower(i)) \in Nat /\ Cardinality(Lower(i)) # 0
    BY <2>1, <2>2, FS_CardinalityType, FS_EmptySet
  <2> QED BY <1>1, <1>3, <2>1, <2>3
<1>5. ASSUME NEW i \in 1 .. n, NEW j \in 1 .. n, i # j, Sooner(i, j)
      PROVE  Rank(located, i) < Rank(located, j)
  <2>1. Lower(i) \subseteq Lower(j)
    BY <1>1, <1>5
  <2>2. j \in Lower(j) /\ j \notin Lower(i)
    BY <1>1, <1>5
  <2> HIDE DEF Lower
  <2>3. Cardinality(Lower(i)) <= Cardinality(Lower(j)) /\ Cardinality(Lower(i)) # Cardinality(Lower(j))
    BY <1>4, <2>1, <2>2, FS_Subset
  <2> QED BY <1>3, <1>4, <2>3, FS_CardinalityType
<1>6. \A i, j \in 1 .. n : Sooner(i, j) \/ Sooner(j, i)
  BY <1>1
<1> DEFINE rank == [i \in 1 .. n |-> Rank(located, i)]
<1>7. rank \in Injection(1 .. n, 1 .. n)
  <2>1. ASSUME NEW i \in 1 .. n, NEW j \in 1 .. n, i # j PROVE Rank(located, i) # Rank(located, j)
    <3> HIDE DEF Sooner, Lower, rank, sorted
    <3>1. Rank(located, i) < Rank(located, j) \/ Rank(located, j) < Rank(located, i)
      BY <1>5, <1>6, <2>1
    <3>2. Rank(located, i) \in Nat /\ Rank(located, j) \in Nat
      BY <1>1, <1>4
    <3> QED BY <3>1, <3>2
  <2>2. rank \in [1 .. n -> 1 .. n]
    BY <1>4
  <2>3. \A i, j \in 1 .. n : rank[i] = rank[j] => i = j
    BY <2>1
  <2> HIDE DEF rank
  <2>4. IsInjective(rank)
    BY <2>2, <2>3 DEF IsInjective
  <2> QED BY <2>2, <2>4 DEF Injection
<1>8. rank \in Surjection(1 .. n, 1 .. n)
  BY <1>2, <1>7, FS_Injection
<1>9. \A k \in 1 .. n : \E i \in 1 .. n : Rank(located, i) = k
  BY <1>8 DEF Surjection
<1> DEFINE Place(k) == CHOOSE i \in 1 .. n : Rank(located, i) = k
<1>10. \A k \in 1 .. n : Place(k) \in 1 .. n /\ Rank(located, Place(k)) = k
  BY <1>9
<1>11. \A i \in 1 .. n : Place(Rank(located, i)) = i
  <2>1. \A i, j \in 1 .. n : Rank(located, i) = Rank(located, j) => i = j
    BY <1>7 DEF Injection, IsInjective
  <2> QED BY <1>4, <1>10, <2>1
<1>12. sorted = [k \in 1 .. n |-> located[Place(k)]]
  BY DEF Sorted, n
<1> HIDE DEF Place, sorted, Sooner
<1>13. sorted \in Seq(LocatedEdits) /\ Len(sorted) = n
  <2>1. \A k \in 1 .. n : located[Place(k)] \in LocatedEdits
    BY <1>1, <1>10
  <2>2. sorted \in Seq(LocatedEdits)
    BY <1>1, <1>12, <2>1, IsASeq
  <2>3. DOMAIN sorted = 1 .. n
    BY <1>12
  <2> QED BY <1>1, <2>2, <2>3, LenProperties
<1>14. \A k \in 1 .. n : sorted[k] = located[Place(k)]
  BY <1>12
<1>15. \A i \in 1 .. n : sorted[Rank(located, i)] = located[i]
  BY <1>4, <1>11, <1>14
<1>16. ASSUME NEW k \in 1 .. n, NEW l \in 1 .. n, k < l PROVE sorted[k].at <= sorted[l].at
  <2>1. Sooner(Place(k), Place(l))
    <3>1. Sooner(Place(k), Place(l)) \/ Sooner(Place(l), Place(k))
      BY <1>6, <1>10
    <3>2. ASSUME Sooner(Place(l), Place(k)) PROVE FALSE
      <4>1. Place(l) # Place(k)
        BY <1>10, <1>16
      <4>2. Rank(located, Place(l)) < Rank(located, Place(k))
        BY <1>5, <1>10, <3>2, <4>1
      <4> QED BY <1>10, <1>16, <4>2
    <3> QED BY <3>1, <3>2
  <2>2. located[Place(k)].at <= located[Place(l)].at
    <3>1. located[Place(k)].at \in Nat /\ located[Place(l)].at \in Nat
      BY <1>1, <1>10
    <3> QED BY <2>1, <3>1 DEF Sooner
  <2> QED BY <1>14, <2>2
<1> QED BY <1>4, <1>10, <1>13, <1>14, <1>15, <1>16 DEF sorted, n

\* A text has a length, and units up to it.
LEMMA TextUnits ==
  ASSUME NEW text \in Strings
  PROVE  /\ Len(text) \in Nat /\ DOMAIN text = 1 .. Len(text)
         /\ \A i \in 1 .. Len(text) : text[i] \in Units
BY LenProperties, ElementOfSeq DEF Strings

\* What is left of a text is built unit by unit.
LEMMA LeftSteps ==
  ASSUME NEW text \in Strings, NEW A
  PROVE  LET L == Left(text, A) IN
         /\ L \in [0 .. Len(text) -> Strings]
         /\ L[0] = <<>>
         /\ \A i \in 1 .. Len(text) :
              L[i] = IF i \in A THEN L[i - 1] ELSE Append(L[i - 1], text[i])
<1> DEFINE n == Len(text)
           L == Left(text, A)
           move == [k \in 1 .. n |-> [t \in Strings |->
                      IF k \in A THEN t ELSE Append(t, text[k])]]
           Body(f) == [i \in 0 .. n |-> IF i = 0 THEN <<>>
                         ELSE IF i \in A THEN f[i - 1] ELSE Append(f[i - 1], text[i])]
<1>1. n \in Nat /\ \A i \in 1 .. n : text[i] \in Units
  BY TextUnits
<1>2. \A s \in Strings, u \in Units : Append(s, u) \in Strings
  BY AppendProperties DEF Strings
<1>3. <<>> \in Strings
  BY DEF Strings
<1> HIDE DEF L
<1>4. move \in [1 .. n -> [Strings -> Strings]]
  BY <1>1, <1>2
<1>5. PICK f : f \in Folds(n, Strings, <<>>, move)
  <2> HIDE DEF move, n, Body
  <2> QED BY <1>1, <1>3, <1>4, FoldExists
<1>15. f \in [0 .. n -> Strings] /\ f[0] = <<>> /\ \A k \in 1 .. n : f[k] = move[k][f[k - 1]]
  <2> HIDE DEF move, n, Body
  <2> QED BY <1>5 DEF Folds
<1>6. ASSUME NEW i \in 0 .. n PROVE f[i] = Body(f)[i]
  <2>1. CASE i = 0
    BY <1>15, <2>1
  <2>2. CASE i # 0
    <3>1. i \in 1 .. n /\ i - 1 \in 0 .. n
      BY <1>1, <2>2
    <3>2. f[i - 1] \in Strings
      BY <1>15, <3>1
    <3> QED BY <1>15, <2>2, <3>1, <3>2
  <2> QED BY <2>1, <2>2
<1>7. f = Body(f)
  <2>1. Body(f) \in [0 .. n -> {Body(f)[i] : i \in 0 .. n}]
    OBVIOUS
  <2> HIDE DEF Body, move
  <2> QED BY <1>15, <1>6, <2>1
<1>8. \E g : g = Body(g)
  BY <1>7
<1>9. L = Body(L)
  BY <1>8 DEF Left, L
<1>10. L[0] = <<>> /\ \A i \in 1 .. n :
         L[i] = IF i \in A THEN L[i - 1] ELSE Append(L[i - 1], text[i])
  <2>1. 0 \in 0 .. n /\ \A i \in 1 .. n : i \in 0 .. n /\ i # 0
    BY <1>1
  <2> QED BY <1>9, <2>1
<1> DEFINE S == {i \in 0 .. n : L[i] \in Strings}
<1>11. 0 \in S
  BY <1>1, <1>3, <1>10
<1>12. ASSUME NEW k \in 1 .. n, k - 1 \in S PROVE k \in S
  <2>1. L[k - 1] \in Strings /\ text[k] \in Units /\ k \in 0 .. n
    BY <1>1, <1>12
  <2>2. L[k] = IF k \in A THEN L[k - 1] ELSE Append(L[k - 1], text[k])
    BY <1>10
  <2>3. L[k] \in Strings
    BY <1>2, <2>1, <2>2
  <2> QED BY <2>1, <2>3
<1>13. \A k \in 0 .. n : k \in S
  <2> HIDE DEF S
  <2> QED BY <1>1, <1>11, <1>12, UpTo
<1>14. L \in [0 .. n -> Strings]
  BY <1>9, <1>13
<1> QED BY <1>10, <1>14 DEF L

\* One thing makes a sequence.
LEMMA OneUnit ==
  ASSUME NEW T, NEW u \in T
  PROVE  <<u>> \in Seq(T)
OBVIOUS

\* A unit after the second of two texts is a unit after both.
LEMMA ConcatUnit ==
  ASSUME NEW s \in Strings, NEW t \in Strings, NEW u \in Units
  PROVE  s \o (t \o <<u>>) = Append(s \o t, u)
<1>1. <<u>> \in Seq(Units) /\ s \in Seq(Units) /\ t \in Seq(Units)
  BY OneUnit DEF Strings
<1>2. s \o t \in Seq(Units)
  BY <1>1, ConcatProperties
<1>3. Append(s \o t, u) = (s \o t) \o <<u>>
  BY <1>2, AppendIsConcat
<1>4. (s \o t) \o <<u>> = s \o (t \o <<u>>)
  <2> DEFINE w == <<u>>
  <2>1. w \in Seq(Units)
    BY <1>1
  <2> HIDE DEF w
  <2>2. (s \o t) \o w = s \o (t \o w)
    BY <1>1, <2>1, ConcatAssociative
  <2> QED BY <2>2 DEF w
<1> QED BY <1>3, <1>4

\* Nothing is left of units in the set.
LEMMA LeftInside ==
  ASSUME NEW text \in Strings, NEW A, NEW a \in 0 .. Len(text), NEW b \in a .. Len(text),
         a + 1 .. b \subseteq A
  PROVE  Left(text, A)[b] = Left(text, A)[a]
<1> DEFINE n == b - a
           S == {k \in 0 .. n : Left(text, A)[a + k] = Left(text, A)[a]}
<1>1. Len(text) \in Nat /\ a \in Nat /\ b \in Nat /\ n \in Nat
  BY TextUnits
<1>2. 0 \in S
  BY <1>1
<1>3. ASSUME NEW k \in 1 .. n, k - 1 \in S PROVE k \in S
  <2>1. a + k \in 1 .. Len(text) /\ a + k \in A /\ a + k - 1 = a + (k - 1)
    BY <1>1
  <2>2. Left(text, A)[a + k] = Left(text, A)[a + k - 1]
    BY <2>1, LeftSteps
  <2> QED BY <1>1, <1>3, <2>1, <2>2
<1>4. \A k \in 0 .. n : k \in S
  <2> HIDE DEF S
  <2> QED BY <1>1, <1>2, <1>3, UpTo
<1>5. n \in S
  <2> HIDE DEF S
  <2> QED BY <1>1, <1>4
<1> QED BY <1>1, <1>5

\* Units out of the set are left.
LEMMA LeftOutside ==
  ASSUME NEW text \in Strings, NEW A, NEW a \in 0 .. Len(text), NEW b \in a .. Len(text),
         \A i \in a + 1 .. b : i \notin A
  PROVE  Left(text, A)[b] = Left(text, A)[a] \o SubSeq(text, a + 1, b)
<1> DEFINE L == Left(text, A)
           Grown(j) == L[a] \o SubSeq(text, a + 1, j)
           S == {j \in 0 .. b : j >= a => L[j] = Grown(j)}
<1>1. Len(text) \in Nat /\ a \in Nat /\ b \in Nat /\ a <= b /\ b <= Len(text)
  BY TextUnits
<1>2. \A i \in 0 .. Len(text) : L[i] \in Strings
  BY LeftSteps
<1>3. ASSUME NEW i \in a + 1 .. b
      PROVE  L[i] = Append(L[i - 1], text[i])
  <2>1. i \in 1 .. Len(text) /\ i \notin A
    BY <1>1
  <2>2. Left(text, A)[i] =
          IF i \in A THEN Left(text, A)[i - 1] ELSE Append(Left(text, A)[i - 1], text[i])
    <3>1. Len(text) \in Nat
      BY TextUnits
    <3>2. \A x \in 1 .. Len(text) : Left(text, A)[x] =
            IF x \in A THEN Left(text, A)[x - 1] ELSE Append(Left(text, A)[x - 1], text[x])
      BY LeftSteps
    <3> QED BY <2>1, <3>1, <3>2
  <2> QED BY <2>1, <2>2
<1> HIDE DEF L
<1>4. Grown(a) = L[a]
  <2>1. SubSeq(text, a + 1, a) = <<>>
    BY <1>1, SubSeqEmpty
  <2>2. L[a] \in Seq(Units)
    BY <1>1, <1>2 DEF Strings
  <2> QED BY <2>1, <2>2, ConcatEmptySeq
<1>5. ASSUME NEW i \in a + 1 .. b
      PROVE  Grown(i) = Append(Grown(i - 1), text[i])
  <2>1. /\ i \in Nat /\ i - 1 \in Nat /\ a + 1 \in 1 .. Len(text) /\ i \in a + 1 .. Len(text)
        /\ i \in 1 .. Len(text) /\ \A j \in a + 1 .. i - 1 : j \in 1 .. Len(text)
    BY <1>1
  <2>2. text \in Seq(Units) /\ L[a] \in Seq(Units) /\ text[i] \in Units
    BY <1>1, <1>2, <2>1, TextUnits DEF Strings
  <2>3. SubSeq(text, a + 1, i) = SubSeq(text, a + 1, i - 1) \o <<text[i]>>
    BY <2>1, <2>2, SubSeqRecursiveSecond
  <2>4. SubSeq(text, a + 1, i - 1) \in Seq(Units)
    <3>1. \A j \in a + 1 .. i - 1 : text[j] \in Units
      BY <2>1, TextUnits
    <3> QED BY <1>1, <2>1, <3>1, SubSeqProperties
  <2> DEFINE t == SubSeq(text, a + 1, i - 1)
  <2>5. L[a] \in Strings /\ t \in Strings
    BY <1>1, <1>2, <2>4 DEF Strings
  <2>6. Grown(i) = L[a] \o (t \o <<text[i]>>) /\ Grown(i - 1) = L[a] \o t
    BY <2>3
  <2> HIDE DEF t, Grown
  <2>7. L[a] \o (t \o <<text[i]>>) = Append(L[a] \o t, text[i])
    BY <2>2, <2>5, ConcatUnit
  <2> QED BY <2>6, <2>7
<1> HIDE DEF Grown
<1>6. 0 \in S
  BY <1>1, <1>4
<1>7. ASSUME NEW k \in 1 .. b, k - 1 \in S PROVE k \in S
  <2>1. CASE k <= a
    BY <1>1, <1>4, <2>1
  <2>2. CASE k > a
    <3>1. k \in a + 1 .. b /\ k - 1 >= a
      BY <1>1, <2>2
    <3>2. L[k - 1] = Grown(k - 1)
      BY <1>7, <3>1
    <3>3. L[k] = Append(L[k - 1], text[k])
      BY <1>3, <3>1
    <3>4. Grown(k) = Append(Grown(k - 1), text[k])
      BY <1>5, <3>1
    <3>5. L[k] = Grown(k)
      BY <3>2, <3>3, <3>4
    <3> QED BY <3>5
  <2> QED BY <1>1, <2>1, <2>2
<1>8. \A k \in 0 .. b : k \in S
  <2> HIDE DEF S
  <2> QED BY <1>1, <1>6, <1>7, UpTo
<1>9. b \in 0 .. b
  BY <1>1
<1> QED BY <1>1, <1>8, <1>9 DEF L, Grown

SameUpTo(s, t, n) == \A i \in 1 .. n : s[i] = t[i]
SameIn(A, B, n) == \A i \in 1 .. n : i \in A <=> i \in B

\* What is left of a prefix depends on the prefix alone.
LEMMA LeftAgrees ==
  ASSUME NEW s \in Strings, NEW t \in Strings, NEW A, NEW B, NEW n \in Nat,
         n <= Len(s), n <= Len(t), SameUpTo(s, t, n), SameIn(A, B, n)
  PROVE  Left(s, A)[n] = Left(t, B)[n]
<1> DEFINE S == {k \in 0 .. n : Left(s, A)[k] = Left(t, B)[k]}
<1>1. Len(s) \in Nat /\ Len(t) \in Nat
  BY TextUnits
<1>2. 0 \in S
  BY LeftSteps
<1>3. ASSUME NEW k \in 1 .. n, k - 1 \in S PROVE k \in S
  <2>1. k \in 1 .. Len(s) /\ k \in 1 .. Len(t)
    BY <1>1
  <2>2. Left(s, A)[k] = IF k \in A THEN Left(s, A)[k - 1] ELSE Append(Left(s, A)[k - 1], s[k])
    BY <2>1, LeftSteps
  <2>3. Left(t, B)[k] = IF k \in B THEN Left(t, B)[k - 1] ELSE Append(Left(t, B)[k - 1], t[k])
    BY <2>1, LeftSteps
  <2>4. s[k] = t[k] /\ (k \in A <=> k \in B)
    BY DEF SameUpTo, SameIn
  <2> QED BY <1>3, <2>2, <2>3, <2>4
<1>4. \A k \in 0 .. n : k \in S
  <2> HIDE DEF S
  <2> QED BY <1>2, <1>3, UpTo
<1>5. n \in S
  <2> HIDE DEF S
  <2> QED BY <1>4
<1> QED BY <1>5

\* A unit out of the set is among what is left.
LEMMA LeftKeeps ==
  ASSUME NEW text \in Strings, NEW A, NEW i \in 1 .. Len(text), i \notin A
  PROVE  \E m \in 1 .. Len(Without(text, A)) : Without(text, A)[m] = text[i]
<1> DEFINE L == Left(text, A)
           b == Len(text)
<1>1. b \in Nat /\ i \in Nat /\ i >= 1 /\ i <= b /\ text[i] \in Units
      /\ \A j \in 0 .. b : L[j] \in Seq(Units)
  <2>1. \A j \in 0 .. b : L[j] \in Strings
    BY LeftSteps
  <2> QED BY <2>1, TextUnits DEF Strings
<1>2. \A j \in 1 .. b : L[j] = IF j \in A THEN L[j - 1] ELSE Append(L[j - 1], text[j])
  BY LeftSteps
<1> HIDE DEF L, b
<1> DEFINE S == {k \in 0 .. b : k >= i => \E m \in 1 .. Len(L[k]) : L[k][m] = text[i]}
<1>3. 0 \in S
  BY <1>1
<1>4. ASSUME NEW k \in 1 .. b, k - 1 \in S PROVE k \in S
  <2>1. L[k - 1] \in Seq(Units) /\ text[k] \in Units /\ k - 1 \in 0 .. b
    BY <1>1, TextUnits DEF b
  <2>2. CASE k \in A
    <3>1. L[k] = L[k - 1] /\ k # i
      BY <1>2, <2>2
    <3> QED BY <1>1, <1>4, <3>1
  <2>3. CASE k \notin A
    <3>1. L[k] = Append(L[k - 1], text[k])
      BY <1>2, <2>3
    <3>2. /\ Len(L[k]) = Len(L[k - 1]) + 1 /\ Len(L[k - 1]) \in Nat
          /\ L[k][Len(L[k])] = text[k]
          /\ \A m \in 1 .. Len(L[k - 1]) : L[k][m] = L[k - 1][m]
      BY <2>1, <3>1, AppendProperties, LenProperties
    <3>3. CASE k = i
      BY <3>2, <3>3
    <3>4. ASSUME k # i, k >= i PROVE \E m \in 1 .. Len(L[k]) : L[k][m] = text[i]
      <4>1. PICK m \in 1 .. Len(L[k - 1]) : L[k - 1][m] = text[i]
        BY <1>1, <1>4, <3>4
      <4>2. m \in 1 .. Len(L[k])
        BY <3>2
      <4> QED BY <3>2, <4>1, <4>2
    <3> QED BY <1>1, <3>3, <3>4
  <2> QED BY <2>2, <2>3
<1>5. \A k \in 0 .. b : k \in S
  <2> HIDE DEF S
  <2> QED BY <1>1, <1>3, <1>4, UpTo
<1>6. b \in S
  <2> HIDE DEF S
  <2> QED BY <1>1, <1>5
<1>7. \E m \in 1 .. Len(L[b]) : L[b][m] = text[i]
  BY <1>1, <1>6
<1> QED BY <1>7 DEF Without, L, b

\* The first unit of a span is where it starts.
LEMMA MinOfSpan ==
  ASSUME NEW i \in Nat, NEW part \in Strings, part # <<>>
  PROVE  Min(Span(i, part)) = i /\ i \in Span(i, part)
<1>1. Len(part) \in Nat \ {0}
  BY EmptySeq DEF Strings
<1>2. i \in Span(i, part) /\ \A y \in Span(i, part) : y \in Int /\ i <= y
  BY <1>1 DEF Span
<1>3. \A x \in Span(i, part) : (\A y \in Span(i, part) : x <= y) => x = i
  BY <1>2
<1> QED BY <1>2, <1>3 DEF Min

\* A text that is somewhere stays there when more is written after it.
LEMMA AtStays ==
  ASSUME NEW s \in Strings, NEW t \in Strings, NEW part \in Strings, NEW i \in Nat, i >= 1,
         i + Len(part) - 1 <= Len(s), At(s, part, i)
  PROVE  At(s \o t, part, i)
BY DEF At, Strings

\* A text is at the end of what it was added to.
LEMMA AtEnd ==
  ASSUME NEW s \in Strings, NEW part \in Strings
  PROVE  At(s \o part, part, Len(s) + 1)
BY DEF At, Strings

\* An edit that is located in the text.
Placed(text) ==
  {r \in LocatedEdits : /\ r.at >= 1 /\ r.old # <<>>
                        /\ r.at + Len(r.old) - 1 <= Len(text) /\ At(text, r.old, r.at)}

Spans == SUBSET Nat
EditStates == [cursor : Nat \ {0}, content : Strings, spans : Seq(Spans)]

\* The edits with a new text are collected one by one.
LEMMA InsertionsSteps ==
  ASSUME NEW sorted \in Seq(LocatedEdits)
  PROVE  LET N == Insertions(sorted) IN
         /\ N \in [0 .. Len(sorted) -> Seq(LocatedEdits)]
         /\ N[0] = <<>>
         /\ \A k \in 1 .. Len(sorted) :
              N[k] = IF sorted[k].new = <<>> THEN N[k - 1] ELSE Append(N[k - 1], sorted[k])
<1> DEFINE n == Len(sorted)
           N == Insertions(sorted)
           R == Seq(LocatedEdits)
           move == [k \in 1 .. n |-> [t \in R |->
                      IF sorted[k].new = <<>> THEN t ELSE Append(t, sorted[k])]]
           Body(f) == [k \in 0 .. n |-> IF k = 0 THEN <<>>
                         ELSE IF sorted[k].new = <<>> THEN f[k - 1] ELSE Append(f[k - 1], sorted[k])]
<1>1. n \in Nat /\ \A k \in 1 .. n : sorted[k] \in LocatedEdits
  BY LenProperties, ElementOfSeq
<1>2. \A t \in R, r \in LocatedEdits : Append(t, r) \in R
  BY AppendProperties
<1>3. <<>> \in R
  OBVIOUS
<1> HIDE DEF N, R
<1>4. move \in [1 .. n -> [R -> R]]
  BY <1>1, <1>2
<1>5. PICK f : f \in Folds(n, R, <<>>, move)
  <2> HIDE DEF move, n, Body
  <2> QED BY <1>1, <1>3, <1>4, FoldExists
<1>6. f \in [0 .. n -> R] /\ f[0] = <<>> /\ \A k \in 1 .. n : f[k] = move[k][f[k - 1]]
  <2> HIDE DEF move, n, Body
  <2> QED BY <1>5 DEF Folds
<1>7. ASSUME NEW k \in 0 .. n PROVE f[k] = Body(f)[k]
  <2>1. CASE k = 0
    BY <1>6, <2>1
  <2>2. CASE k # 0
    <3>1. k \in 1 .. n /\ k - 1 \in 0 .. n
      BY <1>1, <2>2
    <3>2. f[k - 1] \in R
      BY <1>6, <3>1
    <3> QED BY <1>6, <2>2, <3>1, <3>2
  <2> QED BY <2>1, <2>2
<1>8. f = Body(f)
  <2>1. Body(f) \in [0 .. n -> {Body(f)[k] : k \in 0 .. n}]
    OBVIOUS
  <2> HIDE DEF Body, move
  <2> QED BY <1>6, <1>7, <2>1
<1>9. \E g : g = Body(g)
  BY <1>8
<1>10. N = Body(N)
  BY <1>9 DEF Insertions, N
<1>11. N[0] = <<>> /\ \A k \in 1 .. n :
         N[k] = IF sorted[k].new = <<>> THEN N[k - 1] ELSE Append(N[k - 1], sorted[k])
  <2>1. 0 \in 0 .. n /\ \A k \in 1 .. n : k \in 0 .. n /\ k # 0
    BY <1>1
  <2> QED BY <1>10, <2>1
<1> DEFINE S == {k \in 0 .. n : N[k] \in R}
<1>12. 0 \in S
  BY <1>1, <1>3, <1>11
<1>13. ASSUME NEW k \in 1 .. n, k - 1 \in S PROVE k \in S
  <2>1. N[k - 1] \in R /\ sorted[k] \in LocatedEdits /\ k \in 0 .. n
    BY <1>1, <1>13
  <2>2. N[k] = IF sorted[k].new = <<>> THEN N[k - 1] ELSE Append(N[k - 1], sorted[k])
    BY <1>11
  <2>3. N[k] \in R
    BY <1>2, <2>1, <2>2
  <2> QED BY <2>1, <2>3
<1>14. \A k \in 0 .. n : k \in S
  <2> HIDE DEF S
  <2> QED BY <1>1, <1>12, <1>13, UpTo
<1>15. N \in [0 .. n -> R]
  BY <1>10, <1>14
<1> QED BY <1>11, <1>15 DEF N, R

\* The insertions are the edits that have a new text.
LEMMA InsertionsCover ==
  ASSUME NEW sorted \in Seq(LocatedEdits), NEW k \in 0 .. Len(sorted)
  PROVE  LET N == Insertions(sorted) IN
         /\ \A j \in 1 .. k : sorted[j].new # <<>> =>
              \E m \in 1 .. Len(N[k]) : N[k][m] = sorted[j]
         /\ \A m \in 1 .. Len(N[k]) :
              \E j \in 1 .. k : N[k][m] = sorted[j] /\ sorted[j].new # <<>>
<1> DEFINE n == Len(sorted)
           N == Insertions(sorted)
           Covers(i) == \A j \in 1 .. i : sorted[j].new # <<>> =>
                          \E m \in 1 .. Len(N[i]) : N[i][m] = sorted[j]
           Covered(i) == \A m \in 1 .. Len(N[i]) :
                           \E j \in 1 .. i : N[i][m] = sorted[j] /\ sorted[j].new # <<>>
           S == {i \in 0 .. n : Covers(i) /\ Covered(i)}
<1>1. /\ n \in Nat /\ \A i \in 0 .. n : N[i] \in Seq(LocatedEdits)
      /\ N[0] = <<>> /\ \A i \in 1 .. n : sorted[i] \in LocatedEdits
  BY LenProperties, ElementOfSeq, InsertionsSteps
<1>2. \A i \in 1 .. n :
         N[i] = IF sorted[i].new = <<>> THEN N[i - 1] ELSE Append(N[i - 1], sorted[i])
  BY InsertionsSteps
<1> HIDE DEF N, n
<1>3. 0 \in S
  BY <1>1
<1>4. ASSUME NEW i \in 1 .. n, i - 1 \in S PROVE i \in S
  <2>1. /\ N[i - 1] \in Seq(LocatedEdits) /\ sorted[i] \in LocatedEdits
        /\ Covers(i - 1) /\ Covered(i - 1) /\ i \in 0 .. n
        /\ \A j \in 1 .. i : j = i \/ j \in 1 .. i - 1
        /\ \A j \in 1 .. i - 1 : j \in 1 .. i
    BY <1>1, <1>4
  <2>2. CASE sorted[i].new = <<>>
    <3>1. N[i] = N[i - 1]
      BY <1>2, <2>2
    <3>2. Covers(i)
      BY <2>1, <2>2, <3>1
    <3>3. Covered(i)
      <4>1. ASSUME NEW m \in 1 .. Len(N[i])
            PROVE  \E j \in 1 .. i : N[i][m] = sorted[j] /\ sorted[j].new # <<>>
        <5>1. PICK j \in 1 .. i - 1 : N[i - 1][m] = sorted[j] /\ sorted[j].new # <<>>
          BY <2>1, <3>1
        <5>2. j \in 1 .. i
          BY <2>1
        <5> QED BY <3>1, <5>1, <5>2
      <4> QED BY <4>1
    <3> QED BY <2>1, <3>2, <3>3
  <2>3. CASE sorted[i].new # <<>>
    <3> DEFINE M == N[i - 1]
    <3>1. N[i] = Append(M, sorted[i])
      BY <1>2, <2>3
    <3>2. /\ Len(M) \in Nat /\ Len(N[i]) = Len(M) + 1 /\ N[i][Len(M) + 1] = sorted[i]
          /\ \A m \in 1 .. Len(M) : N[i][m] = M[m]
      BY <2>1, <3>1, AppendProperties, LenProperties
    <3>3. /\ \A m \in 1 .. Len(N[i]) : m = Len(M) + 1 \/ m \in 1 .. Len(M)
          /\ \A m \in 1 .. Len(M) : m \in 1 .. Len(N[i])
          /\ Len(M) + 1 \in 1 .. Len(N[i])
      BY <3>2
    <3>4. Covers(i)
      <4>1. ASSUME NEW j \in 1 .. i, sorted[j].new # <<>>
            PROVE  \E m \in 1 .. Len(N[i]) : N[i][m] = sorted[j]
        <5>1. CASE j = i
          BY <3>2, <3>3, <5>1
        <5>2. CASE j \in 1 .. i - 1
          <6>1. PICK m \in 1 .. Len(M) : M[m] = sorted[j]
            BY <2>1, <4>1, <5>2
          <6> QED BY <3>2, <3>3, <6>1
        <5> QED BY <2>1, <5>1, <5>2
      <4> QED BY <4>1
    <3>5. Covered(i)
      <4>1. ASSUME NEW m \in 1 .. Len(N[i])
            PROVE  \E j \in 1 .. i : N[i][m] = sorted[j] /\ sorted[j].new # <<>>
        <5>1. CASE m = Len(M) + 1
          <6>1. i \in 1 .. i
            BY <1>1
          <6> QED BY <2>3, <3>2, <5>1, <6>1
        <5>2. CASE m \in 1 .. Len(M)
          <6>1. PICK j \in 1 .. i - 1 : M[m] = sorted[j] /\ sorted[j].new # <<>>
            BY <2>1, <5>2
          <6> QED BY <2>1, <3>2, <5>2, <6>1
        <5> QED BY <3>3, <5>1, <5>2
      <4> QED BY <4>1
    <3> QED BY <2>1, <3>4, <3>5
  <2> QED BY <2>2, <2>3
<1>5. \A i \in 0 .. n : i \in S
  <2> HIDE DEF S
  <2> QED BY <1>1, <1>3, <1>4, UpTo
<1>6. k \in S
  <2> HIDE DEF S
  <2> QED BY <1>5 DEF n
<1> QED BY <1>6 DEF N

\* A span is a set of offsets.
LEMMA SpanOfNat ==
  ASSUME NEW i \in Nat, NEW part, Len(part) \in Nat
  PROVE  Span(i, part) \in Spans
BY DEF Span, Spans

\* One edit copies a part of the text and adds its new text.
LEMMA EditedFits ==
  ASSUME NEW text \in Strings, NEW acc \in EditStates, NEW r \in Placed(text)
  PROVE  LET copy == acc.content \o SubSeq(text, acc.cursor, r.at - 1) IN
         /\ copy \in Strings /\ SubSeq(text, acc.cursor, r.at - 1) \in Strings
         /\ Edited(text, acc, r) =
              [cursor |-> r.at + Len(r.old), content |-> copy \o r.new,
               spans |-> IF r.new = <<>> THEN acc.spans
                         ELSE Append(acc.spans, Span(Len(copy) + 1, r.new))]
         /\ Edited(text, acc, r) \in EditStates
<1> DEFINE s == SubSeq(text, acc.cursor, r.at - 1)
           copy == acc.content \o s
<1>1. /\ acc.cursor \in Nat \ {0} /\ acc.content \in Seq(Units) /\ acc.spans \in Seq(Spans)
      /\ r.at \in Nat /\ r.at >= 1 /\ r.old \in Seq(Units) /\ r.new \in Seq(Units)
      /\ r.at + Len(r.old) - 1 <= Len(text) /\ Len(r.old) \in Nat /\ Len(text) \in Nat
  BY LenProperties, TextUnits DEF EditStates, Placed, LocatedEdits, Strings
<1>2. s \in Seq(Units)
  <2>1. \A i \in acc.cursor .. r.at - 1 : i \in 1 .. Len(text)
    BY <1>1
  <2>2. \A i \in acc.cursor .. r.at - 1 : text[i] \in Units
    BY <2>1, TextUnits
  <2> QED BY <1>1, <2>2, SubSeqProperties
<1> HIDE DEF s
<1>3. copy \in Seq(Units) /\ Len(copy) \in Nat
  BY <1>1, <1>2, ConcatProperties, LenProperties
<1>4. Edited(text, acc, r) =
        [cursor |-> r.at + Len(r.old), content |-> copy \o r.new,
         spans |-> IF r.new = <<>> THEN acc.spans
                   ELSE Append(acc.spans, Span(Len(copy) + 1, r.new))]
  BY DEF Edited, SpanOf, s
<1> HIDE DEF copy
<1>5. copy \o r.new \in Strings
  BY <1>1, <1>3, ConcatProperties DEF Strings
<1>6. Append(acc.spans, Span(Len(copy) + 1, r.new)) \in Seq(Spans)
  <2>1. Span(Len(copy) + 1, r.new) \in Spans
    <3>1. Len(copy) + 1 \in Nat /\ Len(r.new) \in Nat
      BY <1>1, <1>3, LenProperties
    <3> QED BY <3>1, SpanOfNat
  <2> QED BY <1>1, <2>1, AppendProperties
<1>7. r.at + Len(r.old) \in Nat \ {0}
  BY <1>1
<1>8. Edited(text, acc, r) \in EditStates
  BY <1>1, <1>4, <1>5, <1>6, <1>7 DEF EditStates
<1> QED BY <1>2, <1>3, <1>4, <1>8 DEF Strings, s, copy

\* The edits are applied one by one.
LEMMA EditsSteps ==
  ASSUME NEW text \in Strings, NEW sorted \in Seq(Placed(text))
  PROVE  LET E == Edits(text, sorted) IN
         /\ E \in [0 .. Len(sorted) -> EditStates]
         /\ E[0] = [cursor |-> 1, content |-> <<>>, spans |-> <<>>]
         /\ \A k \in 1 .. Len(sorted) : E[k] = Edited(text, E[k - 1], sorted[k])
<1> DEFINE n == Len(sorted)
           E == Edits(text, sorted)
           a == [cursor |-> 1, content |-> <<>>, spans |-> <<>>]
           move == [k \in 1 .. n |-> [acc \in EditStates |-> Edited(text, acc, sorted[k])]]
           Body(f) == [k \in 0 .. n |-> IF k = 0 THEN a ELSE Edited(text, f[k - 1], sorted[k])]
<1>1. n \in Nat /\ \A k \in 1 .. n : sorted[k] \in Placed(text)
  BY LenProperties, ElementOfSeq
<1>2. \A acc \in EditStates, r \in Placed(text) : Edited(text, acc, r) \in EditStates
  BY EditedFits
<1>3. a \in EditStates
  BY EmptySeq DEF EditStates, Strings
<1> HIDE DEF E, a
<1>4. move \in [1 .. n -> [EditStates -> EditStates]]
  BY <1>1, <1>2
<1>5. PICK f : f \in Folds(n, EditStates, a, move)
  <2> HIDE DEF move, n, Body
  <2> QED BY <1>1, <1>3, <1>4, FoldExists
<1>6. f \in [0 .. n -> EditStates] /\ f[0] = a /\ \A k \in 1 .. n : f[k] = move[k][f[k - 1]]
  <2> HIDE DEF move, n, Body
  <2> QED BY <1>5 DEF Folds
<1>7. ASSUME NEW k \in 0 .. n PROVE f[k] = Body(f)[k]
  <2>1. CASE k = 0
    BY <1>6, <2>1
  <2>2. CASE k # 0
    <3>1. k \in 1 .. n /\ k - 1 \in 0 .. n
      BY <1>1, <2>2
    <3>2. f[k - 1] \in EditStates
      BY <1>6, <3>1
    <3> QED BY <1>6, <2>2, <3>1, <3>2
  <2> QED BY <2>1, <2>2
<1>8. f = Body(f)
  <2>1. Body(f) \in [0 .. n -> {Body(f)[k] : k \in 0 .. n}]
    OBVIOUS
  <2> HIDE DEF Body, move
  <2> QED BY <1>6, <1>7, <2>1
<1>9. \E g : g = Body(g)
  BY <1>8
<1>10. E = Body(E)
  BY <1>9 DEF Edits, E, a
<1>11. E[0] = a /\ \A k \in 1 .. n : E[k] = Edited(text, E[k - 1], sorted[k])
  <2>1. 0 \in 0 .. n /\ \A k \in 1 .. n : k \in 0 .. n /\ k # 0
    BY <1>1
  <2> QED BY <1>10, <2>1
<1> DEFINE S == {k \in 0 .. n : E[k] \in EditStates}
<1>12. 0 \in S
  BY <1>1, <1>3, <1>11
<1>13. ASSUME NEW k \in 1 .. n, k - 1 \in S PROVE k \in S
  <2>1. E[k - 1] \in EditStates /\ sorted[k] \in Placed(text) /\ k \in 0 .. n
    BY <1>1, <1>13
  <2>2. E[k] = Edited(text, E[k - 1], sorted[k])
    BY <1>11
  <2>3. E[k] \in EditStates
    BY <1>2, <2>1, <2>2
  <2> QED BY <2>1, <2>3
<1>14. \A k \in 0 .. n : k \in S
  <2> HIDE DEF S
  <2> QED BY <1>1, <1>12, <1>13, UpTo
<1>15. E \in [0 .. n -> EditStates]
  BY <1>10, <1>14
<1> QED BY <1>11, <1>15 DEF E, a

\* Two texts, one after the other, and their units.
LEMMA ConcatParts ==
  ASSUME NEW s \in Strings, NEW t \in Strings
  PROVE  /\ s \o t \in Strings /\ Len(s \o t) = Len(s) + Len(t)
         /\ \A i \in 1 .. Len(s) : (s \o t)[i] = s[i]
         /\ \A i \in 1 .. Len(t) : (s \o t)[Len(s) + i] = t[i]
<1>1. Len(s) \in Nat /\ Len(t) \in Nat
  BY TextUnits
<1>2. s \in Seq(Units) /\ t \in Seq(Units)
  BY DEF Strings
<1>3. /\ s \o t \in Seq(Units) /\ Len(s \o t) = Len(s) + Len(t)
      /\ \A i \in 1 .. Len(s) + Len(t) : (s \o t)[i] = IF i <= Len(s) THEN s[i] ELSE t[i - Len(s)]
  BY <1>2, ConcatProperties
<1> DEFINE z == s \o t
<1> HIDE DEF z
<1>4. ASSUME NEW i \in 1 .. Len(s) PROVE (s \o t)[i] = s[i]
  <2>1. i \in 1 .. Len(s) + Len(t) /\ i <= Len(s)
    BY <1>1
  <2> QED BY <1>3, <2>1
<1>5. ASSUME NEW i \in 1 .. Len(t) PROVE (s \o t)[Len(s) + i] = t[i]
  <2>1. Len(s) + i \in 1 .. Len(s) + Len(t) /\ ~(Len(s) + i <= Len(s)) /\ Len(s) + i - Len(s) = i
    BY <1>1
  <2> QED BY <1>3, <2>1
<1> QED BY <1>3, <1>4, <1>5 DEF Strings

\* A part of a text, and its units.
LEMMA SubSeqText ==
  ASSUME NEW text \in Strings, NEW a \in Nat, NEW b \in Nat, 1 <= a, a <= b, b <= Len(text) + 1
  PROVE  /\ SubSeq(text, a, b - 1) \in Strings /\ Len(SubSeq(text, a, b - 1)) = b - a
         /\ \A i \in 1 .. b - a : SubSeq(text, a, b - 1)[i] = text[a + i - 1]
<1>1. Len(text) \in Nat
  BY TextUnits
<1>2. \A i \in a .. b - 1 : i \in 1 .. Len(text)
  BY <1>1
<1>3. \A i \in a .. b - 1 : text[i] \in Units
  BY <1>2, TextUnits
<1>4. a \in Int /\ b - 1 \in Int /\ (b - 1) - a + 1 = b - a
  OBVIOUS
<1>5. /\ SubSeq(text, a, b - 1) \in Seq(Units)
      /\ Len(SubSeq(text, a, b - 1)) = IF a <= b - 1 THEN (b - 1) - a + 1 ELSE 0
      /\ \A i \in 1 .. (b - 1) - a + 1 : SubSeq(text, a, b - 1)[i] = text[a + i - 1]
  BY <1>3, <1>4, SubSeqProperties
<1>6. (IF a <= b - 1 THEN (b - 1) - a + 1 ELSE 0) = b - a
  OBVIOUS
<1> QED BY <1>4, <1>5, <1>6 DEF Strings

\* The second of three texts is the part between the other two.
LEMMA SubSeqMiddle ==
  ASSUME NEW s \in Strings, NEW t \in Strings, NEW u \in Strings
  PROVE  SubSeq((s \o t) \o u, Len(s) + 1, Len(s) + Len(t)) = t
<1> DEFINE y == s \o t
           z == y \o u
           a == Len(s) + 1
           b == Len(s) + Len(t) + 1
           m == SubSeq(z, a, b - 1)
<1>1. Len(s) \in Nat /\ Len(t) \in Nat /\ Len(u) \in Nat
  BY TextUnits
<1>2. y \in Strings /\ Len(y) = Len(s) + Len(t) /\ \A i \in 1 .. Len(t) : y[Len(s) + i] = t[i]
  BY ConcatParts
<1> HIDE DEF y
<1>3. z \in Strings /\ Len(z) = Len(y) + Len(u) /\ \A i \in 1 .. Len(y) : z[i] = y[i]
  BY <1>2, ConcatParts
<1> HIDE DEF z
<1>4. /\ a \in Nat /\ b \in Nat /\ 1 <= a /\ a <= b /\ b <= Len(z) + 1
      /\ b - a = Len(t) /\ b - 1 = Len(s) + Len(t)
  BY <1>1, <1>2, <1>3
<1>5. ASSUME NEW i \in 1 .. Len(t) PROVE z[a + i - 1] = t[i]
  <2>1. a + i - 1 = Len(s) + i /\ Len(s) + i \in 1 .. Len(y)
    BY <1>1, <1>2
  <2> QED BY <1>2, <1>3, <2>1
<1> HIDE DEF a, b
<1>6. m \in Strings /\ Len(m) = b - a /\ \A i \in 1 .. b - a : m[i] = z[a + i - 1]
  BY <1>3, <1>4, SubSeqText
<1> HIDE DEF m
<1>7. m \in Seq(Units) /\ t \in Seq(Units) /\ Len(m) = Len(t) /\ \A i \in 1 .. Len(m) : m[i] = t[i]
  BY <1>4, <1>5, <1>6 DEF Strings
<1>8. m = t
  BY <1>7, SeqEqual
<1> QED BY <1>4, <1>8 DEF m, a, z, y

\* The units of the new texts, with those of one more.
WithNew(New, q, r) == New \cup (q + 1 .. r)

Joined(s, t) == s \o t
IsJoin(z, s, t) == z = s \o t
Free(Old, a, b) == \A i \in a .. b - 1 : i \notin Old
IsPart(s, text, i, j) == s = SubSeq(text, i, j)

\* What is left of a text that copies a part and then has a new text.
LEMMA LeftOfParts ==
  ASSUME NEW content \in Strings, NEW c \in Strings,
         NEW p \in Nat, NEW q \in Nat, NEW r \in Nat, p <= q, q <= r,
         p <= Len(c), r <= Len(content), SameUpTo(content, c, p),
         NEW New \in SUBSET (1 .. p), NEW s, IsPart(s, content, p + 1, q)
  PROVE  Left(content, WithNew(New, q, r))[r] = Joined(Left(c, New)[p], s)
<1> DEFINE All == WithNew(New, q, r)
<1>1. Left(content, All)[p] = Left(c, New)[p]
  <2>1. p <= Len(content) /\ p <= Len(c)
    BY TextUnits
  <2>2. SameUpTo(content, c, p) /\ SameIn(All, New, p)
    BY DEF SameIn, WithNew
  <2> HIDE DEF All
  <2> QED BY <2>1, <2>2, LeftAgrees
<1>2. Left(content, All)[q] = Left(content, All)[p] \o s
  <2>1. p \in 0 .. Len(content) /\ q \in p .. Len(content)
    BY TextUnits
  <2>2. \A i \in p + 1 .. q : i \notin All
    BY DEF WithNew
  <2>3. Left(content, All)[q] = Left(content, All)[p] \o SubSeq(content, p + 1, q)
    BY ONLY content \in Strings, <2>1, <2>2, LeftOutside
  <2> QED BY <2>3 DEF IsPart
<1>3. Left(content, All)[r] = Left(content, All)[q]
  <2>1. q \in 0 .. Len(content) /\ r \in q .. Len(content)
    BY TextUnits
  <2>2. q + 1 .. r \subseteq All
    BY DEF WithNew
  <2> HIDE DEF All
  <2> QED BY ONLY content \in Strings, <2>1, <2>2, LeftInside
<1> QED BY <1>1, <1>2, <1>3 DEF Joined

\* A part copied from the text and a new text after it: what is left but for
\* the new texts is what is left of the text but for the old ones.
Copies(c, New, w, text, Old, a, b, s, copy, content) ==
  /\ c \in Strings /\ New \in SUBSET (1 .. Len(c)) /\ w \in Strings /\ text \in Strings
  /\ a \in Nat /\ b \in Nat /\ 1 <= a /\ a <= b /\ b <= Len(text) + 1 /\ Free(Old, a, b)
  /\ Left(c, New)[Len(c)] = Left(text, Old)[a - 1]
  /\ IsPart(s, text, a, b - 1) /\ IsJoin(copy, c, s) /\ IsJoin(content, copy, w)

\* What is left grows with what is copied, and with nothing else.
LEMMA LeftGrows ==
  ASSUME NEW c, NEW New, NEW w, NEW text, NEW Old, NEW a, NEW b, NEW s, NEW copy, NEW content,
         Copies(c, New, w, text, Old, a, b, s, copy, content)
  PROVE  /\ s \in Strings /\ copy \in Strings /\ content \in Strings
         /\ Len(copy) = Len(c) + (b - a) /\ Len(content) = Len(copy) + Len(w)
         /\ Left(content, WithNew(New, Len(copy), Len(content)))[Len(content)] = Left(text, Old)[b - 1]
<1>0. /\ c \in Strings /\ New \in SUBSET (1 .. Len(c)) /\ w \in Strings /\ text \in Strings
      /\ a \in Nat /\ b \in Nat /\ 1 <= a /\ a <= b /\ b <= Len(text) + 1 /\ Free(Old, a, b)
      /\ Left(c, New)[Len(c)] = Left(text, Old)[a - 1]
      /\ IsPart(s, text, a, b - 1) /\ IsJoin(copy, c, s) /\ IsJoin(content, copy, w)
  BY DEF Copies
<1> DEFINE p == Len(c)
           q == Len(copy)
           r == Len(content)
<1>1. s \in Strings /\ Len(s) = b - a
  BY <1>0, SubSeqText DEF IsPart
<1>2. Len(c) \in Nat /\ Len(s) \in Nat /\ Len(w) \in Nat /\ Len(text) \in Nat
  BY <1>0, <1>1, TextUnits
<1>3. copy \in Strings /\ Len(copy) = Len(c) + Len(s) /\ \A i \in 1 .. Len(c) : copy[i] = c[i]
  BY ZenonT(40), <1>0, <1>1, ConcatParts DEF IsJoin
<1>4. IsPart(s, content, p + 1, q)
  <2>1. content = (c \o s) \o w /\ q = Len(c) + Len(s)
    BY <1>0, <1>3 DEF IsJoin
  <2>2. SubSeq((c \o s) \o w, Len(c) + 1, Len(c) + Len(s)) = s
    BY <1>0, <1>1, SubSeqMiddle
  <2> QED BY <2>1, <2>2 DEF IsPart
<1>5. content \in Strings /\ Len(content) = Len(copy) + Len(w) /\ \A i \in 1 .. Len(copy) : content[i] = copy[i]
  BY <1>0, <1>3, ConcatParts DEF IsJoin
<1>6. p \in Nat /\ q \in Nat /\ r \in Nat /\ p <= q /\ q <= r /\ p <= Len(c) /\ r <= Len(content)
  BY <1>0, <1>2, <1>3, <1>5
<1>7. SameUpTo(content, c, p)
  <2>1. \A i \in 1 .. p : i \in 1 .. Len(copy)
    BY <1>2, <1>3
  <2> QED BY <1>3, <1>5, <2>1 DEF SameUpTo
<1>8. New \in SUBSET (1 .. p)
  BY <1>0
<1> HIDE DEF p, q, r
<1>9. Left(content, WithNew(New, q, r))[r] = Joined(Left(c, New)[p], s)
  <2>1. content \in Strings /\ c \in Strings
    BY <1>0, <1>5
  <2>2. p \in Nat /\ q \in Nat /\ r \in Nat /\ New \in SUBSET (1 .. p)
    BY <1>6, <1>8
  <2>3. p <= q /\ q <= r /\ p <= Len(c) /\ r <= Len(content)
    BY <1>6
  <2> QED BY ONLY <1>4, <1>7, <2>1, <2>2, <2>3, LeftOfParts
<1>10. Left(text, Old)[b - 1] = Left(text, Old)[a - 1] \o s
  <2>1. a - 1 \in 0 .. Len(text) /\ b - 1 \in a - 1 .. Len(text) /\ (a - 1) + 1 = a
    BY <1>0, <1>2
  <2>2. \A i \in (a - 1) + 1 .. b - 1 : i \notin Old
    BY <1>0, <2>1 DEF Free
  <2>3. text \in Strings
    BY <1>0
  <2>4. Left(text, Old)[b - 1] = Left(text, Old)[a - 1] \o SubSeq(text, (a - 1) + 1, b - 1)
    BY ONLY <2>1, <2>2, <2>3, LeftOutside
  <2> QED BY <1>0, <2>1, <2>4 DEF IsPart
<1> QED BY <1>0, <1>1, <1>3, <1>5, <1>9, <1>10 DEF Joined, p, q, r

CursorAfter(sorted, k) == IF k = 0 THEN 1 ELSE sorted[k].at + Len(sorted[k].old)
Apart(sorted) ==
  \A k, l \in 1 .. Len(sorted) : k < l => sorted[k].at + Len(sorted[k].old) <= sorted[l].at
OldUnits(sorted) == UNION {Span(sorted[k].at, sorted[k].old) : k \in 1 .. Len(sorted)}
NewUnits(spans) == UNION ToSet(spans)
IsNewText(content, span, w) ==
  \E i \in Nat : /\ i >= 1 /\ i + Len(w) - 1 <= Len(content)
                 /\ span = Span(i, w) /\ At(content, w, i)

\* The invariant of the edits: the cursor is after the last match, the spans are
\* the new texts, and the rest is the text before the cursor but for the old ones.
EditsFit(text, sorted, k) ==
  LET e == Edits(text, sorted)[k]
      ins == Insertions(sorted)[k]
  IN  /\ e.cursor = CursorAfter(sorted, k)
      /\ Len(e.spans) = Len(ins)
      /\ \A j \in 1 .. Len(ins) : IsNewText(e.content, e.spans[j], ins[j].new)
      /\ Left(e.content, NewUnits(e.spans))[Len(e.content)] =
           Left(text, OldUnits(sorted))[e.cursor - 1]

\* A new text stays where it is when more is written after it.
LEMMA NewTextStays ==
  ASSUME NEW c \in Strings, NEW t \in Strings, NEW w \in Strings, NEW span, IsNewText(c, span, w)
  PROVE  IsNewText(c \o t, span, w)
<1>1. PICK i \in Nat : i >= 1 /\ i + Len(w) - 1 <= Len(c) /\ span = Span(i, w) /\ At(c, w, i)
  BY DEF IsNewText
<1>2. At(c \o t, w, i)
  BY <1>1, AtStays
<1>3. Len(c \o t) = Len(c) + Len(t) /\ Len(c) \in Nat /\ Len(t) \in Nat /\ Len(w) \in Nat
  BY ConcatParts, TextUnits
<1>4. i + Len(w) - 1 <= Len(c \o t)
  BY <1>1, <1>3
<1> QED BY <1>1, <1>2, <1>4 DEF IsNewText

\* A new text is where it was written.
LEMMA NewTextIsAdded ==
  ASSUME NEW c \in Strings, NEW w \in Strings
  PROVE  IsNewText(c \o w, Span(Len(c) + 1, w), w)
<1>1. At(c \o w, w, Len(c) + 1)
  BY AtEnd
<1>2. Len(c \o w) = Len(c) + Len(w) /\ Len(c) \in Nat /\ Len(w) \in Nat
  BY ConcatParts, TextUnits
<1> DEFINE i == Len(c) + 1
<1>3. i \in Nat /\ i >= 1 /\ i + Len(w) - 1 <= Len(c \o w)
  BY <1>2
<1> QED BY <1>1, <1>3 DEF IsNewText

\* The spans are in the content.
LEMMA NewUnitsFit ==
  ASSUME NEW content \in Strings, NEW spans \in Seq(Spans), NEW ins \in Seq(LocatedEdits),
         Len(spans) = Len(ins), \A j \in 1 .. Len(ins) : IsNewText(content, spans[j], ins[j].new)
  PROVE  NewUnits(spans) \in SUBSET (1 .. Len(content))
<1>1. DOMAIN spans = 1 .. Len(ins)
  BY LenProperties
<1>2. ASSUME NEW j \in 1 .. Len(ins) PROVE spans[j] \subseteq 1 .. Len(content)
  <2>1. PICK i \in Nat : /\ i >= 1 /\ i + Len(ins[j].new) - 1 <= Len(content)
                         /\ spans[j] = Span(i, ins[j].new)
    BY DEF IsNewText
  <2>2. ins[j].new \in Strings
    <3>1. ins[j] \in LocatedEdits
      BY ElementOfSeq
    <3> QED BY <3>1 DEF LocatedEdits
  <2>3. Len(ins[j].new) \in Nat /\ Len(content) \in Nat
    BY <2>2, TextUnits
  <2> QED BY <2>1, <2>3 DEF Span
<1> QED BY <1>1, <1>2 DEF NewUnits, ToSet

\* Between two matches there is nothing of an old text.
LEMMA OldUnitsFit ==
  ASSUME NEW text \in Strings, NEW sorted \in Seq(Placed(text)), Apart(sorted)
  PROVE  /\ \A k \in 1 .. Len(sorted) :
              Span(sorted[k].at, sorted[k].old) \subseteq OldUnits(sorted)
         /\ \A k \in 1 .. Len(sorted) :
              /\ 1 <= CursorAfter(sorted, k - 1) /\ CursorAfter(sorted, k - 1) <= sorted[k].at
              /\ \A i \in CursorAfter(sorted, k - 1) .. sorted[k].at - 1 : i \notin OldUnits(sorted)
         /\ \A i \in CursorAfter(sorted, Len(sorted)) .. Len(text) : i \notin OldUnits(sorted)
         /\ 1 <= CursorAfter(sorted, Len(sorted)) /\ CursorAfter(sorted, Len(sorted)) <= Len(text) + 1
<1>1. Len(sorted) \in Nat
  BY LenProperties
<1>2. ASSUME NEW k \in 1 .. Len(sorted)
      PROVE  /\ sorted[k].at \in Nat /\ sorted[k].at >= 1 /\ Len(sorted[k].old) \in Nat
             /\ sorted[k].old \in Strings /\ sorted[k].at + Len(sorted[k].old) <= Len(text) + 1
  <2>1. sorted[k] \in Placed(text)
    BY ElementOfSeq
  <2>2. sorted[k].old \in Strings
    BY <2>1 DEF Placed, LocatedEdits
  <2>3. Len(sorted[k].old) \in Nat /\ Len(text) \in Nat
    BY <2>2, TextUnits
  <2> QED BY SMTT(40), <2>1, <2>2, <2>3 DEF Placed, LocatedEdits
<1>3. \A k, l \in 1 .. Len(sorted) : k < l => sorted[k].at + Len(sorted[k].old) <= sorted[l].at
  BY DEF Apart
<1>4. ASSUME NEW l \in 0 .. Len(sorted), NEW j \in 1 .. Len(sorted), NEW i \in Span(sorted[j].at, sorted[j].old),
             i >= CursorAfter(sorted, l)
      PROVE  j > l
  <2>1. CASE l = 0
    BY <2>1 DEF CursorAfter
  <2>2. CASE l # 0
    <3>1. l \in 1 .. Len(sorted)
      BY <1>1, <2>2
    <3>2. i \in Nat /\ i < sorted[j].at + Len(sorted[j].old) /\ i >= sorted[l].at + Len(sorted[l].old)
      BY SMTT(40), <1>2, <1>4, <2>2 DEF Span, CursorAfter
    <3>3. ~(j = l)
      BY <1>2, <3>1, <3>2
    <3>4. ASSUME j < l PROVE FALSE
      <4>1. sorted[j].at + Len(sorted[j].old) <= sorted[l].at
        BY <1>3, <3>1, <3>4
      <4> QED BY SMTT(40), <1>2, <3>1, <3>2, <4>1
    <3> QED BY <1>1, <3>1, <3>3, <3>4
  <2> QED BY <2>1, <2>2
<1>5. ASSUME NEW k \in 1 .. Len(sorted), NEW i \in CursorAfter(sorted, k - 1) .. sorted[k].at - 1,
             i \in OldUnits(sorted)
      PROVE  FALSE
  <2>1. PICK j \in 1 .. Len(sorted) : i \in Span(sorted[j].at, sorted[j].old)
    BY <1>5 DEF OldUnits
  <2>2. i >= CursorAfter(sorted, k - 1) /\ i <= sorted[k].at - 1
        /\ i \in Int /\ i >= sorted[j].at
    BY <1>2, <2>1 DEF Span
  <2>3. j > k - 1
    <3>1. k - 1 \in 0 .. Len(sorted)
      BY <1>1
    <3> QED BY <1>4, <2>1, <2>2, <3>1
  <2>4. j = k \/ k < j
    BY <2>3
  <2>5. CASE j = k
    BY <1>2, <2>2, <2>5
  <2>6. CASE k < j
    <3>1. sorted[k].at + Len(sorted[k].old) <= sorted[j].at
      BY <1>3, <2>6
    <3> QED BY SMTT(40), <1>2, <2>2, <3>1
  <2> QED BY <2>4, <2>5, <2>6
<1>6. ASSUME NEW i \in CursorAfter(sorted, Len(sorted)) .. Len(text),
             i \in OldUnits(sorted)
      PROVE  FALSE
  <2>1. PICK j \in 1 .. Len(sorted) : i \in Span(sorted[j].at, sorted[j].old)
    BY <1>6 DEF OldUnits
  <2>2. i >= CursorAfter(sorted, Len(sorted))
    OBVIOUS
  <2>3. Len(sorted) \in 0 .. Len(sorted)
    BY <1>1
  <2>4. j > Len(sorted)
    BY <1>4, <2>1, <2>2, <2>3
  <2> QED BY <1>1, <2>4
<1>7. \A k \in 1 .. Len(sorted) : Span(sorted[k].at, sorted[k].old) \subseteq OldUnits(sorted)
  BY DEF OldUnits
<1>8. ASSUME NEW k \in 1 .. Len(sorted)
      PROVE  1 <= CursorAfter(sorted, k - 1) /\ CursorAfter(sorted, k - 1) <= sorted[k].at
  <2>1. CASE k = 1
    BY <1>2, <2>1 DEF CursorAfter
  <2>2. CASE k # 1
    <3>1. k - 1 \in 1 .. Len(sorted) /\ k - 1 # 0 /\ k - 1 < k
      BY <1>1, <2>2
    <3>2. sorted[k - 1].at + Len(sorted[k - 1].old) <= sorted[k].at
      BY <1>3, <3>1
    <3> QED BY <1>2, <3>1, <3>2 DEF CursorAfter
  <2> QED BY <2>1, <2>2
<1>9. 1 <= CursorAfter(sorted, Len(sorted)) /\ CursorAfter(sorted, Len(sorted)) <= Len(text) + 1
  <2>1. Len(text) \in Nat
    BY TextUnits
  <2>2. Len(sorted) # 0 => Len(sorted) \in 1 .. Len(sorted)
    BY <1>1
  <2> QED BY <1>2, <2>1, <2>2 DEF CursorAfter
<1> QED BY <1>5, <1>6, <1>7, <1>8, <1>9

\* One more of a sequence is one more of its set.
LEMMA AppendToSet ==
  ASSUME NEW T, NEW s \in Seq(T), NEW x \in T
  PROVE  ToSet(Append(s, x)) = ToSet(s) \cup {x}
<1> DEFINE z == Append(s, x)
           n == Len(s)
<1>1. n \in Nat /\ DOMAIN s = 1 .. n
  BY LenProperties
<1>2. z \in Seq(T) /\ Len(z) = n + 1 /\ z[n + 1] = x /\ \A i \in 1 .. n : z[i] = s[i]
  BY AppendProperties
<1>3. DOMAIN z = 1 .. n + 1
  BY <1>2, LenProperties
<1> HIDE DEF z, n
<1>4. 1 .. n + 1 = (1 .. n) \cup {n + 1}
  BY <1>1
<1>5. {z[i] : i \in (1 .. n) \cup {n + 1}} = {z[i] : i \in 1 .. n} \cup {z[n + 1]}
  OBVIOUS
<1>6. {z[i] : i \in 1 .. n} = {s[i] : i \in 1 .. n}
  BY <1>2
<1>7. ToSet(z) = {z[i] : i \in 1 .. n + 1} /\ ToSet(s) = {s[i] : i \in 1 .. n}
  BY <1>1, <1>3 DEF ToSet
<1> QED BY <1>2, <1>4, <1>5, <1>6, <1>7 DEF z

\* One more edit keeps the invariant of the edits.
LEMMA EditStepFits ==
  ASSUME NEW text \in Strings, NEW sorted \in Seq(Placed(text)), sorted \in Seq(LocatedEdits), Apart(sorted),
         NEW k \in 1 .. Len(sorted), EditsFit(text, sorted, k - 1)
  PROVE  EditsFit(text, sorted, k)
<1> DEFINE e == Edits(text, sorted)[k - 1]
           d == Edits(text, sorted)[k]
           r == sorted[k]
           c == e.content
           w == r.new
           a == e.cursor
           b == r.at
           s == SubSeq(text, a, b - 1)
           copy == c \o s
           old == OldUnits(sorted)
           New == NewUnits(e.spans)
           ins == Insertions(sorted)[k - 1]
           nins == Insertions(sorted)[k]
<1>1. k - 1 \in 0 .. Len(sorted) /\ k \in 0 .. Len(sorted) /\ k # 0 /\ r \in Placed(text)
  BY LenProperties, ElementOfSeq
<1>2. e \in EditStates /\ d \in EditStates /\ d = Edited(text, e, r)
  BY <1>1, EditsSteps
<1>3. /\ ins \in Seq(LocatedEdits) /\ nins \in Seq(LocatedEdits)
      /\ nins = IF w = <<>> THEN ins ELSE Append(ins, r)
  BY <1>1, InsertionsSteps
<1>4. /\ a = CursorAfter(sorted, k - 1) /\ Len(e.spans) = Len(ins)
      /\ \A j \in 1 .. Len(ins) : IsNewText(c, e.spans[j], ins[j].new)
      /\ Left(c, New)[Len(c)] = Left(text, old)[a - 1]
  BY DEF EditsFit
<1>5. 1 <= a /\ a <= b /\ Free(old, a, b) /\ Span(b, r.old) \subseteq old
  BY <1>4, OldUnitsFit DEF Free
<1>6. /\ d.cursor = b + Len(r.old) /\ d.content = copy \o w
      /\ d.spans = IF w = <<>> THEN e.spans ELSE Append(e.spans, Span(Len(copy) + 1, w))
  <2> HIDE DEF e, d, r
  <2> QED BY <1>2 DEF Edited, SpanOf
<1>7. IsPart(s, text, a, b - 1) /\ IsJoin(copy, c, s) /\ IsJoin(d.content, copy, w)
  BY <1>6 DEF IsPart, IsJoin
<1> HIDE DEF e, d, r, s, old, New, ins, nins, copy
<1>8. /\ c \in Strings /\ e.spans \in Seq(Spans) /\ d.spans \in Seq(Spans) /\ a \in Nat
      /\ b \in Nat /\ r.old \in Strings /\ w \in Strings /\ r \in LocatedEdits
      /\ b + Len(r.old) - 1 <= Len(text)
  BY <1>1, <1>2 DEF EditStates, Placed, LocatedEdits
<1> HIDE DEF a, b, c, w
<1>9. Len(text) \in Nat /\ Len(r.old) \in Nat /\ Len(w) \in Nat /\ Len(c) \in Nat
  BY <1>8, TextUnits
<1>10. New \in SUBSET (1 .. Len(c))
  BY <1>3, <1>4, <1>8, NewUnitsFit DEF New
<1>11. b <= Len(text) + 1
  BY <1>8, <1>9
<1>12. /\ copy \in Strings /\ Len(copy) = Len(c) + (b - a) /\ Len(d.content) = Len(copy) + Len(w)
       /\ Left(d.content, WithNew(New, Len(copy), Len(d.content)))[Len(d.content)] = Left(text, old)[b - 1]
  <2>1. c \in Strings /\ w \in Strings /\ text \in Strings /\ a \in Nat /\ b \in Nat
    BY <1>8
  <2>2. 1 <= a /\ a <= b /\ Free(old, a, b)
    BY <1>5
  <2>3. Left(c, New)[Len(c)] = Left(text, old)[a - 1]
    BY <1>4
  <2> DEFINE content == d.content
  <2>4. IsPart(s, text, a, b - 1) /\ IsJoin(copy, c, s) /\ IsJoin(content, copy, w)
    BY <1>7
  <2> HIDE DEF content
  <2>5. Copies(c, New, w, text, old, a, b, s, copy, content)
    BY <1>10, <1>11, <2>1, <2>2, <2>3, <2>4 DEF Copies
  <2> QED BY SMTT(40), <2>5, LeftGrows DEF content
<1>13. NewUnits(d.spans) = WithNew(New, Len(copy), Len(d.content))
  <2>1. CASE w = <<>>
    <3>1. d.spans = e.spans /\ Len(w) = 0
      BY <1>6, <2>1
    <3>2. WithNew(New, Len(copy), Len(d.content)) = New
      BY <1>8, <1>9, <1>12, <3>1 DEF WithNew
    <3> QED BY <3>1, <3>2 DEF New
  <2>2. CASE w # <<>>
    <3> DEFINE span == Span(Len(copy) + 1, w)
    <3>1. d.spans = Append(e.spans, span)
      BY <1>6, <2>2
    <3>2. Len(copy) + 1 \in Nat /\ Len(copy) + 1 + Len(w) - 1 = Len(d.content)
      BY <1>8, <1>9, <1>12, TextUnits
    <3>3. span = Len(copy) + 1 .. Len(d.content)
      BY <3>2 DEF Span
    <3>4. span \in Spans
      BY <1>9, <3>2, SpanOfNat
    <3> HIDE DEF span
    <3>5. ToSet(d.spans) = ToSet(e.spans) \cup {span}
      BY <1>8, <3>1, <3>4, AppendToSet
    <3>6. NewUnits(d.spans) = New \cup span
      BY <3>5 DEF NewUnits, New
    <3> QED BY <3>3, <3>6 DEF WithNew
  <2> QED BY <2>1, <2>2
<1>14. Left(text, old)[d.cursor - 1] = Left(text, old)[b - 1]
  <2> DEFINE x == b - 1
             y == b + Len(r.old) - 1
  <2>1. b >= 1
    BY <1>5, <1>8
  <2>2. x \in 0 .. Len(text) /\ y \in x .. Len(text)
    BY <1>8, <1>9, <2>1
  <2>3. x + 1 .. y = Span(b, r.old)
    BY <1>8, <1>9 DEF Span
  <2>4. d.cursor - 1 = y
    BY <1>6, <1>8, <1>9
  <2> HIDE DEF x, y
  <2>5. x + 1 .. y \subseteq old
    BY <1>5, <2>3
  <2>6. Left(text, old)[y] = Left(text, old)[x]
    BY <2>2, <2>5, LeftInside
  <2> QED BY <2>4, <2>6 DEF x
<1>15. Len(d.spans) = Len(nins) /\ \A j \in 1 .. Len(nins) : IsNewText(d.content, d.spans[j], nins[j].new)
  <2>1. ASSUME NEW j \in 1 .. Len(ins) PROVE IsNewText(d.content, e.spans[j], ins[j].new)
    <3>1. ins[j] \in LocatedEdits
      BY <1>3, <2>1, ElementOfSeq
    <3>2. ins[j].new \in Strings
      BY <3>1 DEF LocatedEdits
    <3>3. IsNewText(c, e.spans[j], ins[j].new)
      BY <1>4
    <3>4. s \in Strings
      BY <1>5, <1>8, <1>11, SubSeqText DEF s
    <3>5. IsNewText(c \o s, e.spans[j], ins[j].new)
      BY <1>8, <3>2, <3>3, <3>4, NewTextStays
    <3>6. IsNewText(copy, e.spans[j], ins[j].new)
      BY <1>7, <3>5 DEF IsJoin
    <3>7. IsNewText(copy \o w, e.spans[j], ins[j].new)
      BY <1>8, <1>12, <3>2, <3>6, NewTextStays
    <3> QED BY <1>6, <3>7
  <2>2. CASE w = <<>>
    BY <1>3, <1>4, <1>6, <2>1, <2>2
  <2>3. CASE w # <<>>
    <3> DEFINE span == Span(Len(copy) + 1, w)
    <3>1. d.spans = Append(e.spans, span) /\ nins = Append(ins, r)
      BY <1>3, <1>6, <2>3
    <3>2. IsNewText(copy \o w, span, w)
      BY <1>8, <1>12, NewTextIsAdded
    <3>3. Len(copy) + 1 \in Nat
      BY <1>12, TextUnits
    <3>4. span \in Spans
      BY <1>9, <3>3, SpanOfNat
    <3> HIDE DEF span
    <3>5. /\ Len(d.spans) = Len(ins) + 1 /\ d.spans[Len(ins) + 1] = span
          /\ \A i \in 1 .. Len(ins) : d.spans[i] = e.spans[i]
      BY <1>4, <1>8, <3>1, <3>4, AppendProperties
    <3>6. /\ Len(nins) = Len(ins) + 1 /\ nins[Len(ins) + 1] = r /\ Len(ins) \in Nat
          /\ \A i \in 1 .. Len(ins) : nins[i] = ins[i]
      BY <1>3, <1>8, <3>1, AppendProperties, LenProperties
    <3>7. ASSUME NEW j \in 1 .. Len(nins) PROVE IsNewText(d.content, d.spans[j], nins[j].new)
      <4>1. CASE j = Len(ins) + 1
        BY <1>6, <3>2, <3>5, <3>6, <4>1 DEF w
      <4>2. CASE j \in 1 .. Len(ins)
        BY <2>1, <3>5, <3>6, <4>2
      <4> QED BY <3>6, <4>1, <4>2
    <3> QED BY <3>5, <3>6, <3>7
  <2> QED BY <2>2, <2>3
<1>16. d.cursor = CursorAfter(sorted, k)
  BY <1>1, <1>6 DEF CursorAfter, r, b
<1> QED BY <1>12, <1>13, <1>14, <1>15, <1>16 DEF EditsFit, d, nins, old

Substitutions == [old : Strings, new : Strings]

\* The edits of a replacement that resolves are found in the text, in order and apart.
LEMMA ResolvedFits ==
  ASSUME NEW text \in Strings, NEW rs \in Seq(Substitutions), Resolves(text, rs)
  PROVE  LET sorted == Sorted(Located(text, rs)) IN
         /\ sorted \in Seq(Placed(text)) /\ sorted \in Seq(LocatedEdits) /\ Apart(sorted)
         /\ \A k \in 1 .. Len(rs) : \E l \in 1 .. Len(sorted) : sorted[l].new = rs[k].new
         /\ \A l \in 1 .. Len(sorted) : \E k \in 1 .. Len(rs) : sorted[l].new = rs[k].new
<1> DEFINE located == Located(text, rs)
           sorted == Sorted(located)
           n == Len(rs)
           PlaceOf(k) == [at |-> Min(Places(text, rs[k].old)), old |-> rs[k].old, new |-> rs[k].new]
<1>1. n \in Nat /\ \A k \in 1 .. n : rs[k] \in Substitutions
  BY LenProperties, ElementOfSeq
<1>2. ASSUME NEW k \in 1 .. n PROVE PlaceOf(k) \in Placed(text) /\ PlaceOf(k) \in LocatedEdits
  <2>1. rs[k] \in [old : Strings, new : Strings] /\ Resolution(rs[k], text) = "unique"
    BY <1>1 DEF Resolves, Substitutions
  <2>2. rs[k].old # <<>> /\ Min(Places(text, rs[k].old)) \in Places(text, rs[k].old)
    BY <2>1, UniqueIsLocated
  <2>3. rs[k].old \in Strings /\ rs[k].new \in Strings
    BY <2>1
  <2> DEFINE i == Min(Places(text, rs[k].old))
  <2>4. i \in Nat \ {0} /\ i + Len(rs[k].old) - 1 <= Len(text) /\ At(text, rs[k].old, i)
    BY <2>2, <2>3, PlacesFit
  <2> HIDE DEF i
  <2>5. /\ PlaceOf(k).at = i /\ PlaceOf(k).old = rs[k].old /\ PlaceOf(k).new = rs[k].new
    BY DEF i
  <2>6. PlaceOf(k) \in LocatedEdits
    BY <2>3, <2>4 DEF LocatedEdits, i
  <2> HIDE DEF PlaceOf
  <2> QED BY <2>2, <2>4, <2>5, <2>6 DEF Placed
<1>3. located = [k \in 1 .. n |-> PlaceOf(k)]
  BY DEF Located
<1>4. \A k \in 1 .. n : PlaceOf(k).new = rs[k].new
  OBVIOUS
<1> HIDE DEF PlaceOf, located, n, sorted
<1>5. located \in [1 .. n -> Placed(text)] /\ located \in [1 .. n -> LocatedEdits]
  BY <1>2, <1>3
<1>6. located \in Seq(LocatedEdits) /\ Len(located) = n
  <2>1. located \in Seq(LocatedEdits)
    BY <1>1, <1>5, SeqDef
  <2>2. DOMAIN located = 1 .. n
    BY <1>5
  <2> QED BY <1>1, <2>1, <2>2, LenProperties
<1>7. /\ sorted \in Seq(LocatedEdits) /\ Len(sorted) = n
      /\ \A k \in 1 .. n : \E i \in 1 .. n : sorted[k] = located[i]
      /\ \A i \in 1 .. n : \E k \in 1 .. n : sorted[k] = located[i]
      /\ \A k, l \in 1 .. n : k < l => sorted[k].at <= sorted[l].at
  BY <1>6, SortedFits DEF sorted
<1>8. sorted \in Seq(Placed(text))
  <2>1. sorted \in [1 .. n -> LocatedEdits]
    BY <1>7, LenProperties
  <2>2. \A k \in 1 .. n : sorted[k] \in Placed(text)
    BY <1>5, <1>7
  <2>3. sorted \in [1 .. n -> Placed(text)]
    BY <2>1, <2>2
  <2> QED BY <1>1, <2>3, SeqDef
<1>9. ASSUME NEW k \in 1 .. n, NEW l \in 1 .. n, k < l
      PROVE  sorted[k].at + Len(sorted[k].old) <= sorted[l].at
  <2>1. \A i \in 1 .. n : sorted[i].at \in Nat /\ Len(sorted[i].old) \in Nat
    <3>1. ASSUME NEW i \in 1 .. n PROVE sorted[i].at \in Nat /\ sorted[i].old \in Strings
      <4>1. sorted[i] \in LocatedEdits
        BY <1>7, ElementOfSeq
      <4> QED BY <4>1 DEF LocatedEdits
    <3> QED BY <3>1, TextUnits
  <2>2. ~Overlap(sorted)
    BY DEF Resolves, sorted, located
  <2> DEFINE m == k + 1
  <2>3. m \in 2 .. n /\ m \in 1 .. n /\ m - 1 = k /\ (m = l \/ m < l)
    BY <1>1, <1>9
  <2>4. ~(sorted[m].at < sorted[m - 1].at + Len(sorted[m - 1].old))
    BY <1>7, <2>2, <2>3 DEF Overlap
  <2> HIDE DEF m
  <2>5. sorted[k].at + Len(sorted[k].old) <= sorted[m].at
    BY <2>1, <2>3, <2>4
  <2>6. sorted[m].at <= sorted[l].at
    <3>1. CASE m = l
      <4>1. sorted[l].at \in Nat
        BY <2>1
      <4> QED BY <3>1, <4>1
    <3>2. CASE m < l
      <4>1. \A i, j \in 1 .. n : i < j => sorted[i].at <= sorted[j].at
        BY <1>7
      <4> QED BY <2>3, <3>2, <4>1
    <3> QED BY <2>3, <3>1, <3>2
  <2> QED BY <2>1, <2>3, <2>5, <2>6
<1>10. Apart(sorted)
  BY <1>7, <1>9 DEF Apart
<1>11. \A k \in 1 .. n : located[k].new = rs[k].new
  BY <1>3, <1>4
<1>12. /\ \A k \in 1 .. n : \E l \in 1 .. n : sorted[l].new = rs[k].new
       /\ \A l \in 1 .. n : \E k \in 1 .. n : sorted[l].new = rs[k].new
  <2>1. ASSUME NEW k \in 1 .. n PROVE \E l \in 1 .. n : sorted[l].new = rs[k].new
    <3>1. PICK l \in 1 .. n : sorted[l] = located[k]
      BY <1>7
    <3> QED BY <1>11, <3>1
  <2>2. ASSUME NEW l \in 1 .. n PROVE \E k \in 1 .. n : sorted[l].new = rs[k].new
    <3>1. PICK k \in 1 .. n : sorted[l] = located[k]
      BY <1>7
    <3> QED BY <1>11, <3>1
  <2> QED BY <2>1, <2>2
<1> QED BY <1>7, <1>8, <1>10, <1>12 DEF sorted, located, n

\* The projected text: the spans are the new texts, and the rest is the rest.
LEMMA AppliedFits ==
  ASSUME NEW text \in Strings, NEW sorted \in Seq(Placed(text)), sorted \in Seq(LocatedEdits), Apart(sorted)
  PROVE  LET p == ApplyEdits(text, sorted)
             ins == Insertions(sorted)[Len(sorted)]
         IN  /\ p.content \in Strings /\ p.spans \in Seq(Spans) /\ ins \in Seq(LocatedEdits)
             /\ Len(p.spans) = Len(ins)
             /\ \A j \in 1 .. Len(ins) : IsNewText(p.content, p.spans[j], ins[j].new)
             /\ Without(p.content, NewUnits(p.spans)) = Without(text, OldUnits(sorted))
<1> DEFINE n == Len(sorted)
           e == Edits(text, sorted)[n]
           p == ApplyEdits(text, sorted)
           ins == Insertions(sorted)[n]
           old == OldUnits(sorted)
           New == NewUnits(e.spans)
           c == e.content
           a == e.cursor
           b == Len(text) + 1
           s == SubSeq(text, a, b - 1)
           copy == c \o s
<1>1. n \in Nat
  BY LenProperties
<1> DEFINE S == {k \in 0 .. n : EditsFit(text, sorted, k)}
<1>2. 0 \in S
  <2>1. /\ Edits(text, sorted)[0] = [cursor |-> 1, content |-> <<>>, spans |-> <<>>]
        /\ Insertions(sorted)[0] = <<>>
    BY EditsSteps, InsertionsSteps
  <2>2. <<>> \in Strings /\ Len(<<>>) = 0
    BY EmptySeq DEF Strings
  <2>3. Left(<<>>, NewUnits(<<>>))[0] = <<>> /\ Left(text, OldUnits(sorted))[0] = <<>>
    BY <2>2, LeftSteps
  <2>4. EditsFit(text, sorted, 0)
    BY <2>1, <2>2, <2>3 DEF EditsFit, CursorAfter
  <2> QED BY <1>1, <2>4
<1>3. ASSUME NEW k \in 1 .. n, k - 1 \in S PROVE k \in S
  <2>1. EditsFit(text, sorted, k)
    BY <1>3, EditStepFits
  <2> QED BY <1>1, <2>1
<1>4. EditsFit(text, sorted, n)
  <2> HIDE DEF S, n
  <2>1. \A k \in 0 .. n : k \in S
    BY <1>1, <1>2, <1>3, UpTo
  <2>2. n \in S
    BY <1>1, <2>1
  <2> QED BY <2>2 DEF S
<1>5. e \in EditStates /\ ins \in Seq(LocatedEdits)
  <2>1. n \in 0 .. n
    BY <1>1
  <2> QED BY <2>1, EditsSteps, InsertionsSteps
<1>6. /\ a = CursorAfter(sorted, n) /\ Len(e.spans) = Len(ins)
      /\ \A j \in 1 .. Len(ins) : IsNewText(c, e.spans[j], ins[j].new)
      /\ Left(c, New)[Len(c)] = Left(text, old)[a - 1]
  BY <1>4 DEF EditsFit
<1>7. 1 <= a /\ a <= b /\ \A i \in a .. Len(text) : i \notin old
  BY <1>6, OldUnitsFit
<1>8. p.spans = e.spans /\ p.content = c \o SubSeq(text, a, Len(text))
  BY DEF ApplyEdits
<1> HIDE DEF e, p, ins, old, New, n
<1>9. c \in Strings /\ a \in Nat /\ e.spans \in Seq(Spans) /\ Len(text) \in Nat
  BY <1>5, TextUnits DEF EditStates
<1> HIDE DEF c, a
<1>10. b - 1 = Len(text) /\ b \in Nat /\ b <= Len(text) + 1
  BY <1>9
<1>11. p.content = copy /\ IsPart(s, text, a, b - 1) /\ IsJoin(copy, c, s) /\ s \in Strings
  <2>1. s \in Strings
    BY <1>7, <1>9, <1>10, SubSeqText
  <2> QED BY <1>8, <1>10, <2>1 DEF IsPart, IsJoin
<1> HIDE DEF b, s
<1>12. copy \in Strings
  BY <1>9, <1>11, ConcatParts
<1> HIDE DEF copy
<1>13. <<>> \in Strings /\ Len(<<>>) = 0 /\ IsJoin(copy, copy, <<>>)
  <2>1. copy \in Seq(Units)
    BY <1>12 DEF Strings
  <2>2. copy \o <<>> = copy
    BY <2>1, ConcatEmptySeq
  <2> QED BY <2>2, EmptySeq DEF IsJoin, Strings
<1>14. New \in SUBSET (1 .. Len(c))
  BY <1>5, <1>6, <1>9, NewUnitsFit DEF New, c
<1>15. Free(old, a, b)
  BY <1>7, <1>10 DEF Free
<1>16. Copies(c, New, <<>>, text, old, a, b, s, copy, copy)
  BY <1>6, <1>7, <1>9, <1>10, <1>11, <1>13, <1>14, <1>15 DEF Copies
<1>17. Left(copy, WithNew(New, Len(copy), Len(copy)))[Len(copy)] = Left(text, old)[b - 1]
  BY <1>16, LeftGrows
<1>18. WithNew(New, Len(copy), Len(copy)) = New
  <2>1. Len(copy) \in Nat
    BY <1>12, TextUnits
  <2> QED BY <2>1 DEF WithNew
<1>19. Without(p.content, NewUnits(p.spans)) = Without(text, old)
  BY <1>8, <1>10, <1>11, <1>17, <1>18 DEF Without, New
<1>20. ASSUME NEW j \in 1 .. Len(ins) PROVE IsNewText(p.content, p.spans[j], ins[j].new)
  <2>1. ins[j] \in LocatedEdits
    BY <1>5, ElementOfSeq
  <2>2. ins[j].new \in Strings
    BY <2>1 DEF LocatedEdits
  <2>3. IsNewText(c, e.spans[j], ins[j].new)
    BY <1>6
  <2>4. IsNewText(c \o s, e.spans[j], ins[j].new)
    BY <1>9, <1>11, <2>2, <2>3, NewTextStays
  <2> QED BY <1>8, <1>11, <2>4 DEF IsJoin
<1> QED BY <1>5, <1>6, <1>8, <1>9, <1>11, <1>12, <1>19, <1>20 DEF p, ins, old, n

\* The states of the scanner.
Slashed == [tag |-> "code", slash |-> TRUE]
Quotes == {Quoted(FALSE), Quoted(TRUE)}
Comments == {Line, Block(FALSE), Block(TRUE)}
Scans == {Code, Slashed} \cup Quotes \cup Comments
Scanner == [state : Scans, out : Strings]

\* What a unit adds to what is scanned, and the state after it.
UnitStep(acc, u, d) ==
  /\ acc.state = Slashed =>
       \/ u = "/" /\ d = [state |-> Line, out |-> acc.out \o <<Blank, Blank>>]
       \/ u = "*" /\ d = [state |-> Block(FALSE), out |-> acc.out \o <<Blank, Blank>>]
       \/ u # "/" /\ u # "*" /\ d = [state |-> Code, out |-> acc.out \o <<"/", u>>]
  /\ acc.state = Code =>
       \/ u = "/" /\ d = [state |-> Slashed, out |-> acc.out \o <<>>]
       \/ u = "q" /\ d = [state |-> Quoted(FALSE), out |-> acc.out \o <<u>>]
       \/ u # "/" /\ u # "q" /\ d = [state |-> Code, out |-> acc.out \o <<u>>]
  /\ acc.state \in Quotes =>
       \E st \in {Code} \cup Quotes : d = [state |-> st, out |-> acc.out \o <<u>>]
  /\ acc.state = Line /\ u = "n" => d = [state |-> Code, out |-> acc.out \o <<u>>]
  /\ acc.state = Line /\ u # "n" => d = [state |-> Line, out |-> acc.out \o Blanked(u)]
  /\ acc.state \in {Block(FALSE), Block(TRUE)} =>
       \/ u = "/" /\ d = [state |-> Code, out |-> acc.out \o <<Blank>>]
       \/ \E st \in {Block(FALSE), Block(TRUE)} : d = [state |-> st, out |-> acc.out \o Blanked(u)]

\* ScanUnit does what the list says, for every unit in every state.
LEMMA UnitIsScanned ==
  ASSUME NEW acc \in Scanner, NEW u \in Units
  PROVE  UnitStep(acc, u, ScanUnit(acc, u))
<1> DEFINE d == ScanUnit(acc, u)
<1>1. ASSUME acc.state = Slashed
      PROVE  \/ u = "/" /\ d = [state |-> Line, out |-> acc.out \o <<Blank, Blank>>]
             \/ u = "*" /\ d = [state |-> Block(FALSE), out |-> acc.out \o <<Blank, Blank>>]
             \/ u # "/" /\ u # "*" /\ d = [state |-> Code, out |-> acc.out \o <<"/", u>>]
  BY <1>1 DEF ScanUnit, Slashed
<1>2. ASSUME acc.state = Code
      PROVE  \/ u = "/" /\ d = [state |-> Slashed, out |-> acc.out \o <<>>]
             \/ u = "q" /\ d = [state |-> Quoted(FALSE), out |-> acc.out \o <<u>>]
             \/ u # "/" /\ u # "q" /\ d = [state |-> Code, out |-> acc.out \o <<u>>]
  BY <1>2 DEF ScanUnit, Slashed, Code
<1>3. ASSUME acc.state \in Quotes
      PROVE  \E st \in {Code} \cup Quotes : d = [state |-> st, out |-> acc.out \o <<u>>]
  <2>1. CASE acc.state = Quoted(TRUE)
    <3>1. d = [state |-> Quoted(FALSE), out |-> acc.out \o <<u>>]
      BY <2>1 DEF ScanUnit, Quoted
    <3> QED BY <3>1 DEF Quotes
  <2>2. CASE acc.state = Quoted(FALSE)
    <3>1. CASE u = "e"
      <4>1. d = [state |-> Quoted(TRUE), out |-> acc.out \o <<u>>]
        BY <2>2, <3>1 DEF ScanUnit, Quoted
      <4> QED BY <4>1 DEF Quotes
    <3>2. CASE u = "q"
      <4>1. d = [state |-> Code, out |-> acc.out \o <<u>>]
        BY <2>2, <3>2 DEF ScanUnit, Quoted
      <4> QED BY <4>1
    <3>3. CASE u # "e" /\ u # "q"
      <4>1. d = [state |-> Quoted(FALSE), out |-> acc.out \o <<u>>]
        BY <2>2, <3>3 DEF ScanUnit, Quoted
      <4> QED BY <4>1 DEF Quotes
    <3> QED BY <3>1, <3>2, <3>3
  <2> QED BY <1>3, <2>1, <2>2 DEF Quotes
<1>4. ASSUME acc.state = Line, u = "n" PROVE d = [state |-> Code, out |-> acc.out \o <<u>>]
  BY <1>4 DEF ScanUnit, Line
<1>5. ASSUME acc.state = Line, u # "n" PROVE d = [state |-> Line, out |-> acc.out \o Blanked(u)]
  BY <1>5 DEF ScanUnit, Line
<1>6. ASSUME acc.state \in {Block(FALSE), Block(TRUE)}
      PROVE  \/ u = "/" /\ d = [state |-> Code, out |-> acc.out \o <<Blank>>]
             \/ \E st \in {Block(FALSE), Block(TRUE)} : d = [state |-> st, out |-> acc.out \o Blanked(u)]
  <2>1. CASE acc.state = Block(TRUE) /\ u = "/"
    BY <2>1 DEF ScanUnit, Block
  <2>2. CASE ~(acc.state = Block(TRUE) /\ u = "/") /\ u = "*"
    <3>1. d = [state |-> Block(TRUE), out |-> acc.out \o Blanked(u)]
      <4>1. CASE acc.state = Block(TRUE)
        BY <2>2, <4>1 DEF ScanUnit, Block
      <4>2. CASE acc.state = Block(FALSE)
        BY <2>2, <4>2 DEF ScanUnit, Block
      <4> QED BY <1>6, <4>1, <4>2
    <3> QED BY <3>1
  <2>3. CASE ~(acc.state = Block(TRUE) /\ u = "/") /\ u # "*"
    <3>1. d = [state |-> Block(FALSE), out |-> acc.out \o Blanked(u)]
      <4>1. CASE acc.state = Block(TRUE)
        BY <2>3, <4>1 DEF ScanUnit, Block
      <4>2. CASE acc.state = Block(FALSE)
        BY <2>3, <4>2 DEF ScanUnit, Block
      <4> QED BY <1>6, <4>1, <4>2
    <3> QED BY <3>1
  <2> QED BY <2>1, <2>2, <2>3
<1> HIDE DEF d
<1>7. UnitStep(acc, u, d)
  BY <1>1, <1>2, <1>3, <1>4, <1>5, <1>6 DEF UnitStep
<1> QED BY <1>7 DEF d

\* What is blanked leaves one unit, but for the second half of a character.
LEMMA BlankedUnits ==
  ASSUME NEW u \in Units
  PROVE  /\ Blanked(u) \in Strings
         /\ u # "l" => \E b \in {u, Blank} : Blanked(u) = <<b>>
         /\ u # "l" /\ u # "n" => Blanked(u) = <<Blank>>
<1>1. CASE u = "n"
  <2>1. Blanked(u) = <<u>>
    BY <1>1 DEF Blanked
  <2>2. <<u>> \in Strings
    BY OneUnit DEF Strings
  <2>3. \E b \in {u, Blank} : Blanked(u) = <<b>>
    BY <2>1
  <2> QED BY <1>1, <2>1, <2>2, <2>3
<1>2. CASE u = "l"
  BY <1>2 DEF Blanked, Strings
<1>3. CASE u # "n" /\ u # "l"
  <2>1. Blanked(u) = <<Blank>>
    BY <1>3 DEF Blanked
  <2>2. <<Blank>> \in Strings
    BY ProjectionAssumption, OneUnit DEF Strings
  <2>3. \E b \in {u, Blank} : Blanked(u) = <<b>>
    BY <2>1
  <2> QED BY <1>3, <2>1, <2>2, <2>3
<1> QED BY <1>1, <1>2, <1>3

\* Two things make a sequence.
LEMMA TwoUnits ==
  ASSUME NEW T, NEW u \in T, NEW v \in T
  PROVE  <<u, v>> \in Seq(T) /\ Len(<<u, v>>) = 2 /\ <<u, v>>[1] = u /\ <<u, v>>[2] = v
<1>1. <<u, v>> \in Seq(T)
  OBVIOUS
<1>2. Len(<<u, v>>) = 2
  OBVIOUS
<1>3. <<u, v>>[1] = u /\ <<u, v>>[2] = v
  OBVIOUS
<1> QED BY <1>1, <1>2, <1>3

\* One or two units after what is scanned.
LEMMA UnitsAdded ==
  ASSUME NEW s \in Strings, NEW u \in Units, NEW v \in Units
  PROVE  /\ s \o <<u>> \in Strings /\ Len(s \o <<u>>) = Len(s) + 1
         /\ (s \o <<u>>)[Len(s) + 1] = u
         /\ \A i \in 1 .. Len(s) : (s \o <<u>>)[i] = s[i]
         /\ s \o <<u, v>> \in Strings /\ Len(s \o <<u, v>>) = Len(s) + 2
         /\ (s \o <<u, v>>)[Len(s) + 1] = u /\ (s \o <<u, v>>)[Len(s) + 2] = v
         /\ \A i \in 1 .. Len(s) : (s \o <<u, v>>)[i] = s[i]
         /\ s \o <<>> = s
<1>1. Len(s) \in Nat
  BY TextUnits
<1>2. /\ s \o <<u>> \in Strings /\ Len(s \o <<u>>) = Len(s) + 1
      /\ (s \o <<u>>)[Len(s) + 1] = u
      /\ \A i \in 1 .. Len(s) : (s \o <<u>>)[i] = s[i]
  <2> DEFINE t == <<u>>
  <2>1. t \in Strings /\ Len(t) = 1 /\ t[1] = u
    BY OneUnit DEF Strings
  <2> HIDE DEF t
  <2>2. /\ s \o t \in Strings /\ Len(s \o t) = Len(s) + Len(t)
        /\ \A i \in 1 .. Len(s) : (s \o t)[i] = s[i]
        /\ \A i \in 1 .. Len(t) : (s \o t)[Len(s) + i] = t[i]
    BY ONLY s \in Strings, <2>1, ConcatParts
  <2>3. 1 \in 1 .. Len(t)
    BY <2>1
  <2> QED BY <2>1, <2>2, <2>3 DEF t
<1>3. /\ s \o <<u, v>> \in Strings /\ Len(s \o <<u, v>>) = Len(s) + 2
      /\ (s \o <<u, v>>)[Len(s) + 1] = u /\ (s \o <<u, v>>)[Len(s) + 2] = v
      /\ \A i \in 1 .. Len(s) : (s \o <<u, v>>)[i] = s[i]
  <2> DEFINE t == <<u, v>>
  <2>1. t \in Strings /\ Len(t) = 2 /\ t[1] = u /\ t[2] = v
    BY TwoUnits DEF Strings
  <2> HIDE DEF t
  <2>2. /\ s \o t \in Strings /\ Len(s \o t) = Len(s) + Len(t)
        /\ \A i \in 1 .. Len(s) : (s \o t)[i] = s[i]
        /\ \A i \in 1 .. Len(t) : (s \o t)[Len(s) + i] = t[i]
    BY ONLY s \in Strings, <2>1, ConcatParts
  <2>3. 1 \in 1 .. Len(t) /\ 2 \in 1 .. Len(t)
    BY <2>1
  <2> QED BY <2>1, <2>2, <2>3 DEF t
<1>4. s \o <<>> = s
  BY ConcatEmptySeq DEF Strings
<1> QED BY <1>2, <1>3, <1>4

\* The scanner stays in its states.
LEMMA UnitScans ==
  ASSUME NEW acc \in Scanner, NEW u \in Units
  PROVE  ScanUnit(acc, u) \in Scanner
<1> DEFINE s == acc.out
           d == ScanUnit(acc, u)
<1>1. s \in Strings /\ acc.state \in Scans
  BY DEF Scanner
<1>2. Blank \in Units /\ "/" \in Units
  BY ProjectionAssumption
<1>3. s \o <<u>> \in Strings /\ s \o <<>> \in Strings
  BY <1>1, UnitsAdded
<1>4. s \o <<Blank>> \in Strings /\ s \o <<Blank, Blank>> \in Strings
  BY <1>1, <1>2, UnitsAdded
<1>5. s \o <<"/", u>> \in Strings
  BY <1>1, <1>2, UnitsAdded
<1>6. s \o Blanked(u) \in Strings
  <2>1. Blanked(u) \in Strings
    BY BlankedUnits
  <2> QED BY <1>1, <2>1, ConcatParts
<1>7. /\ Code \in Scans /\ Slashed \in Scans /\ Line \in Scans /\ Quoted(FALSE) \in Scans
      /\ Block(FALSE) \in Scans /\ Block(TRUE) \in Scans /\ Quotes \subseteq Scans
  BY DEF Scans, Quotes, Comments
<1>8. UnitStep(acc, u, d)
  BY UnitIsScanned
<1>9. ASSUME NEW st \in Scans, NEW t \in Strings, d = [state |-> st, out |-> t] PROVE d \in Scanner
  BY <1>9 DEF Scanner
<1> HIDE DEF d, s
<1> DEFINE Adds(st, t) == d = [state |-> st, out |-> t]
<1>10. \E st \in Scans, t \in Strings : Adds(st, t)
  <2>1. CASE acc.state = Slashed
    <3>1. \/ Adds(Line, s \o <<Blank, Blank>>) \/ Adds(Block(FALSE), s \o <<Blank, Blank>>)
          \/ Adds(Code, s \o <<"/", u>>)
      BY <1>8, <2>1 DEF UnitStep, s
    <3> HIDE DEF Adds
    <3> QED BY <1>4, <1>5, <1>7, <3>1
  <2>2. CASE acc.state = Code
    <3>1. \/ Adds(Slashed, s \o <<>>) \/ Adds(Quoted(FALSE), s \o <<u>>) \/ Adds(Code, s \o <<u>>)
      BY <1>8, <2>2 DEF UnitStep, s
    <3> HIDE DEF Adds
    <3> QED BY <1>3, <1>7, <3>1
  <2>3. CASE acc.state \in Quotes
    <3>1. PICK st \in {Code} \cup Quotes : Adds(st, s \o <<u>>)
      BY <1>8, <2>3 DEF UnitStep, s
    <3> HIDE DEF Adds
    <3> QED BY <1>3, <1>7, <3>1
  <2>4. CASE acc.state = Line
    <3>1. Adds(Code, s \o <<u>>) \/ Adds(Line, s \o Blanked(u))
      BY <1>8, <2>4 DEF UnitStep, s
    <3> HIDE DEF Adds
    <3> QED BY <1>3, <1>6, <1>7, <3>1
  <2>5. CASE acc.state \in {Block(FALSE), Block(TRUE)}
    <3>1. \/ Adds(Code, s \o <<Blank>>)
          \/ \E st \in {Block(FALSE), Block(TRUE)} : Adds(st, s \o Blanked(u))
      BY <1>8, <2>5 DEF UnitStep, s
    <3> HIDE DEF Adds
    <3> QED BY <1>4, <1>6, <1>7, <3>1
  <2> QED BY <1>1, <2>1, <2>2, <2>3, <2>4, <2>5 DEF Scans, Comments
<1>11. d \in Scanner
  BY <1>9, <1>10
<1> QED BY <1>11 DEF d

\* A text is scanned unit by unit.
LEMMA ScanSteps ==
  ASSUME NEW text \in Strings
  PROVE  LET S == ScanOf(text) IN
         /\ S \in [0 .. Len(text) -> Scanner]
         /\ S[0] = [state |-> Code, out |-> <<>>]
         /\ \A i \in 1 .. Len(text) : S[i] = ScanUnit(S[i - 1], text[i])
<1> DEFINE n == Len(text)
           L == ScanOf(text)
           a == [state |-> Code, out |-> <<>>]
           move == [k \in 1 .. n |-> [acc \in Scanner |-> ScanUnit(acc, text[k])]]
           Body(f) == [i \in 0 .. n |-> IF i = 0 THEN a ELSE ScanUnit(f[i - 1], text[i])]
<1>1. n \in Nat /\ \A i \in 1 .. n : text[i] \in Units
  BY TextUnits
<1>2. a \in Scanner
  BY DEF Scanner, Scans, Strings
<1> HIDE DEF L, a
<1>3. \A k \in 1 .. n, acc \in Scanner : ScanUnit(acc, text[k]) \in Scanner
  BY <1>1, UnitScans
<1>4. move \in [1 .. n -> [Scanner -> Scanner]]
  BY <1>3
<1>5. PICK f : f \in Folds(n, Scanner, a, move)
  <2> HIDE DEF move, n, Body
  <2> QED BY <1>1, <1>2, <1>4, FoldExists
<1>6. f \in [0 .. n -> Scanner] /\ f[0] = a /\ \A k \in 1 .. n : f[k] = move[k][f[k - 1]]
  <2> HIDE DEF move, n, Body
  <2> QED BY <1>5 DEF Folds
<1>7. ASSUME NEW i \in 0 .. n PROVE f[i] = Body(f)[i]
  <2>1. CASE i = 0
    BY <1>6, <2>1
  <2>2. CASE i # 0
    <3>1. i \in 1 .. n /\ i - 1 \in 0 .. n
      BY <1>1, <2>2
    <3>2. f[i - 1] \in Scanner
      BY <1>6, <3>1
    <3> QED BY <1>6, <2>2, <3>1, <3>2
  <2> QED BY <2>1, <2>2
<1>8. f = Body(f)
  <2>1. Body(f) \in [0 .. n -> {Body(f)[i] : i \in 0 .. n}]
    OBVIOUS
  <2> HIDE DEF Body, move
  <2> QED BY <1>6, <1>7, <2>1
<1>9. \E g : g = Body(g)
  BY <1>8
<1>10. L = Body(L)
  BY <1>9 DEF ScanOf, L, a
<1>11. L[0] = a /\ \A i \in 1 .. n : L[i] = ScanUnit(L[i - 1], text[i])
  <2>1. 0 \in 0 .. n /\ \A i \in 1 .. n : i \in 0 .. n /\ i # 0
    BY <1>1
  <2> QED BY <1>10, <2>1
<1> DEFINE S == {i \in 0 .. n : L[i] \in Scanner}
<1>12. 0 \in S
  BY <1>1, <1>2, <1>11
<1>13. ASSUME NEW k \in 1 .. n, k - 1 \in S PROVE k \in S
  <2>1. L[k - 1] \in Scanner /\ k \in 0 .. n
    BY <1>1, <1>13
  <2>2. L[k] \in Scanner
    BY <1>3, <1>11, <2>1
  <2> QED BY <2>1, <2>2
<1>14. \A k \in 0 .. n : k \in S
  <2> HIDE DEF S
  <2> QED BY <1>1, <1>12, <1>13, UpTo
<1>15. L \in [0 .. n -> Scanner]
  BY <1>10, <1>14
<1> QED BY <1>11, <1>15 DEF L, a

\* Code, a slash, quotes and comments are told apart.
LEMMA StatesDiffer ==
  /\ Code # Slashed /\ Slashed \notin Quotes /\ Slashed \notin Comments
  /\ Comments \cap ({Code} \cup Quotes) = {}
<1>1. /\ Code.tag = "code" /\ Slashed.tag = "code" /\ Line.tag = "line"
      /\ Block(FALSE).tag = "block" /\ Block(TRUE).tag = "block"
      /\ Quoted(FALSE).tag = "quoted" /\ Quoted(TRUE).tag = "quoted"
  BY DEF Code, Slashed, Line, Block, Quoted
<1>2. Code # Slashed
  <2>1. ~Code.slash /\ Slashed.slash
    BY DEF Code, Slashed
  <2> QED BY <2>1
<1> QED BY <1>1, <1>2 DEF Quotes, Comments

\* What is scanned of the first units: each is itself or blank.
Fills(text, out, n) == Len(out) = n /\ \A j \in 1 .. n : out[j] \in {text[j], Blank}
NoSlash(text, i) == \A j \in 1 .. i : text[j] # "/"

Aligned(text, acc, i) ==
  /\ acc.state = Slashed => i >= 1 /\ text[i] = "/" /\ Fills(text, acc.out, i - 1)
  /\ acc.state # Slashed => Fills(text, acc.out, i)
  /\ NoSlash(text, i) => acc.state \in {Code} \cup Quotes /\ SameUpTo(acc.out, text, i)

\* A unit that is itself or blank keeps what is scanned.
LEMMA KeepsOne ==
  ASSUME NEW text \in Strings, NEW out \in Strings, NEW n \in Nat, Fills(text, out, n),
         NEW v \in Units, v \in {text[n + 1], Blank}
  PROVE  /\ Fills(text, out \o <<v>>, n + 1)
         /\ v = text[n + 1] /\ SameUpTo(out, text, n) => SameUpTo(out \o <<v>>, text, n + 1)
<1> DEFINE t == out \o <<v>>
<1>1. Len(out) = n /\ \A j \in 1 .. n : out[j] \in {text[j], Blank}
  BY DEF Fills
<1>2. Len(t) = n + 1 /\ t[n + 1] = v /\ \A i \in 1 .. n : t[i] = out[i]
  BY <1>1, UnitsAdded
<1> HIDE DEF t
<1>3. \A j \in 1 .. n + 1 : j \in 1 .. n \/ j = n + 1
  OBVIOUS
<1>4. Fills(text, t, n + 1)
  BY <1>1, <1>2, <1>3 DEF Fills
<1>5. v = text[n + 1] /\ SameUpTo(out, text, n) => SameUpTo(t, text, n + 1)
  BY <1>2, <1>3 DEF SameUpTo
<1> QED BY <1>4, <1>5 DEF t

\* So do two.
LEMMA KeepsTwo ==
  ASSUME NEW text \in Strings, NEW out \in Strings, NEW n \in Nat, Fills(text, out, n),
         NEW u \in Units, NEW v \in Units,
         u \in {text[n + 1], Blank}, v \in {text[n + 2], Blank}
  PROVE  Fills(text, out \o <<u, v>>, n + 2)
<1> DEFINE t == out \o <<u, v>>
<1>1. Len(out) = n /\ \A j \in 1 .. n : out[j] \in {text[j], Blank}
  BY DEF Fills
<1>2. /\ Len(t) = n + 2 /\ t[n + 1] = u /\ t[n + 2] = v
      /\ \A i \in 1 .. n : t[i] = out[i]
  BY <1>1, UnitsAdded
<1> HIDE DEF t
<1>3. \A j \in 1 .. n + 2 : j \in 1 .. n \/ j = n + 1 \/ j = n + 2
  OBVIOUS
<1>4. Fills(text, t, n + 2)
  BY <1>1, <1>2, <1>3 DEF Fills
<1> QED BY <1>4 DEF t

\* The scanner stays aligned, if no comment holds a character of two units.
LEMMA UnitAligned ==
  ASSUME NEW text \in Strings, NEW i \in 1 .. Len(text), NEW acc \in Scanner, NEW d,
         Aligned(text, acc, i - 1), UnitStep(acc, text[i], d), ~MayShift(text)
  PROVE  Aligned(text, d, i)
<1> DEFINE u == text[i]
           s == acc.out
           n == i - 1
           Adds(st, t) == d = [state |-> st, out |-> t]
<1>1. s \in Strings /\ acc.state \in Scans /\ u \in Units /\ n \in Nat /\ n + 1 = i /\ Len(text) \in Nat
  BY TextUnits DEF Scanner
<1>2. Blank \in Units /\ "/" \in Units
  BY ProjectionAssumption
<1>3. NoSlash(text, i) => NoSlash(text, n) /\ u # "/"
  BY <1>1 DEF NoSlash
<1>4. ~NoSlash(text, n) => u # "l"
  <2>1. ASSUME ~NoSlash(text, n), u = "l" PROVE FALSE
    <3>1. PICK j \in 1 .. n : text[j] = "/"
      BY <2>1 DEF NoSlash
    <3>2. j \in 1 .. Len(text) /\ j < i
      BY <1>1, <3>1
    <3> QED BY <2>1, <3>1, <3>2 DEF MayShift
  <2> QED BY <2>1
<1> USE DEF Aligned
<1>5. ASSUME NEW st, NEW t, Adds(st, t), st # Slashed, Fills(text, t, i), ~NoSlash(text, i)
      PROVE  Aligned(text, d, i)
  BY <1>5
<1>6. ASSUME NEW st \in {Code} \cup Quotes, NEW v \in Units, v = u, Adds(st, s \o <<v>>),
             Fills(text, s, n), NoSlash(text, i) => SameUpTo(s, text, n)
      PROVE  Aligned(text, d, i)
  <2> DEFINE t == s \o <<v>>
  <2>1. /\ Fills(text, t, n + 1)
        /\ SameUpTo(s, text, n) => SameUpTo(t, text, n + 1)
    BY <1>1, <1>6, KeepsOne
  <2>2. d.state = st /\ d.out = t
    BY <1>6
  <2> HIDE DEF t, Adds
  <2>3. st # Slashed
    BY <1>6, StatesDiffer
  <2> QED BY <1>1, <1>6, <2>1, <2>2, <2>3
<1> HIDE DEF Aligned, u, s, n
<1>7. CASE acc.state = Slashed
  <2>1. n >= 1 /\ text[n] = "/" /\ Fills(text, s, n - 1) /\ ~NoSlash(text, i) /\ n - 1 \in Nat
    <3>1. n >= 1 /\ text[n] = "/" /\ Fills(text, s, n - 1)
      BY <1>7 DEF Aligned, n, s
    <3>2. n \in 1 .. i
      BY <1>1, <3>1
    <3> QED BY <1>1, <3>1, <3>2 DEF NoSlash
  <2>2. Fills(text, s \o <<Blank, Blank>>, i)
    <3>1. Fills(text, s \o <<Blank, Blank>>, (n - 1) + 2)
      BY <1>1, <1>2, <2>1, KeepsTwo
    <3>2. (n - 1) + 2 = i
      BY <1>1
    <3> QED BY <3>1, <3>2
  <2>3. Fills(text, s \o <<"/", u>>, i)
    <3>1. (n - 1) + 2 = i /\ (n - 1) + 1 = n
      BY <1>1
    <3>2. "/" \in {text[(n - 1) + 1], Blank} /\ u \in {text[(n - 1) + 2], Blank}
      BY <2>1, <3>1 DEF u
    <3>3. Fills(text, s \o <<"/", u>>, (n - 1) + 2)
      BY <1>1, <1>2, <2>1, <3>2, KeepsTwo
    <3> QED BY <3>1, <3>3
  <2>4. \/ Adds(Line, s \o <<Blank, Blank>>) \/ Adds(Block(FALSE), s \o <<Blank, Blank>>)
        \/ Adds(Code, s \o <<"/", u>>)
    BY <1>7 DEF UnitStep, s, u
  <2>5. Line # Slashed /\ Block(FALSE) # Slashed /\ Code # Slashed
    BY StatesDiffer DEF Comments
  <2> HIDE DEF Adds
  <2> QED BY <1>5, <2>1, <2>2, <2>3, <2>4, <2>5
<1>8. CASE acc.state = Code
  <2>1. Fills(text, s, n) /\ (NoSlash(text, i) => SameUpTo(s, text, n))
    BY <1>3, <1>8, StatesDiffer DEF Aligned, s, n
  <2>2. CASE u = "/" /\ Adds(Slashed, s \o <<>>)
    <3>1. ~NoSlash(text, i)
      BY <1>3, <2>2
    <3>2. s \o <<>> = s
      BY <1>1, <1>2, UnitsAdded
    <3>3. d.state = Slashed /\ d.out = s
      BY <2>2, <3>2
    <3>4. i >= 1 /\ i - 1 = n
      BY <1>1
    <3> QED BY <2>1, <2>2, <3>1, <3>3, <3>4 DEF Aligned, u
  <2>3. CASE Adds(Quoted(FALSE), s \o <<u>>) \/ Adds(Code, s \o <<u>>)
    <3>1. Quoted(FALSE) \in {Code} \cup Quotes
      BY DEF Quotes
    <3> HIDE DEF Adds
    <3> QED BY <1>1, <1>6, <2>1, <2>3, <3>1
  <2> QED BY <1>8, <2>2, <2>3 DEF UnitStep, s, u
<1>9. CASE acc.state \in Quotes
  <2>1. Fills(text, s, n) /\ (NoSlash(text, i) => SameUpTo(s, text, n))
    BY <1>3, <1>9, StatesDiffer DEF Aligned, s, n
  <2>2. PICK st \in {Code} \cup Quotes : Adds(st, s \o <<u>>)
    BY <1>9 DEF UnitStep, s, u
  <2> HIDE DEF Adds
  <2> QED BY <1>1, <1>6, <2>1, <2>2
<1>10. CASE acc.state \in Comments
  <2>1. Fills(text, s, n) /\ ~NoSlash(text, n) /\ ~NoSlash(text, i)
    BY <1>3, <1>10, StatesDiffer DEF Aligned, s, n
  <2>2. u # "l"
    BY <1>4, <2>1
  <2>3. \A v \in Units : v \in {u, Blank} => Fills(text, s \o <<v>>, i)
    <3>1. ASSUME NEW v \in Units, v \in {u, Blank} PROVE Fills(text, s \o <<v>>, i)
      <4>1. v \in {text[n + 1], Blank}
        BY <1>1, <3>1 DEF u
      <4>2. Fills(text, s \o <<v>>, n + 1)
        BY <1>1, <2>1, <4>1, KeepsOne
      <4> QED BY <1>1, <4>2
    <3> QED BY <3>1
  <2>4. \E b \in {u, Blank} : Blanked(u) = <<b>>
    BY <1>1, <2>2, BlankedUnits
  <2>5. /\ Fills(text, s \o <<u>>, i) /\ Fills(text, s \o <<Blank>>, i)
        /\ Fills(text, s \o Blanked(u), i)
    BY <1>1, <1>2, <2>3, <2>4
  <2>6. \/ Adds(Code, s \o <<u>>) \/ Adds(Line, s \o Blanked(u)) \/ Adds(Code, s \o <<Blank>>)
        \/ Adds(Block(FALSE), s \o Blanked(u)) \/ Adds(Block(TRUE), s \o Blanked(u))
    BY <1>10 DEF UnitStep, s, u, Comments
  <2>7. Line # Slashed /\ Block(FALSE) # Slashed /\ Code # Slashed /\ Block(TRUE) # Slashed
    BY StatesDiffer DEF Comments
  <2> HIDE DEF Adds
  <2> QED BY <1>5, <2>1, <2>5, <2>6, <2>7
<1> QED BY <1>1, <1>7, <1>8, <1>9, <1>10 DEF Scans

\* So it is aligned after each unit.
LEMMA ScanAligned ==
  ASSUME NEW text \in Strings, ~MayShift(text), NEW i \in 0 .. Len(text)
  PROVE  Aligned(text, ScanOf(text)[i], i)
<1> DEFINE L == ScanOf(text)
           n == Len(text)
           S == {k \in 0 .. n : Aligned(text, L[k], k)}
<1>1. n \in Nat /\ \A k \in 1 .. n : text[k] \in Units
  BY TextUnits
<1>2. /\ \A k \in 0 .. n : L[k] \in Scanner
      /\ L[0] = [state |-> Code, out |-> <<>>]
      /\ \A k \in 1 .. n : L[k] = ScanUnit(L[k - 1], text[k])
  BY ScanSteps
<1> HIDE DEF L
<1>3. 0 \in S
  <2>1. L[0].state = Code /\ L[0].out = <<>> /\ Len(<<>>) = 0
    BY <1>2
  <2> QED BY <1>1, <2>1, StatesDiffer DEF Aligned, Fills, SameUpTo
<1>4. ASSUME NEW k \in 1 .. n, k - 1 \in S PROVE k \in S
  <2>1. L[k - 1] \in Scanner /\ k \in 0 .. n /\ Aligned(text, L[k - 1], k - 1)
    BY <1>1, <1>2, <1>4
  <2>2. UnitStep(L[k - 1], text[k], L[k])
    <3>1. UnitStep(L[k - 1], text[k], ScanUnit(L[k - 1], text[k]))
      BY <1>1, <2>1, UnitIsScanned
    <3> QED BY <1>2, <3>1
  <2>3. Aligned(text, L[k], k)
    BY <1>1, <2>1, <2>2, UnitAligned
  <2> QED BY <2>1, <2>3
<1>5. \A k \in 0 .. n : k \in S
  <2> HIDE DEF S
  <2> QED BY <1>1, <1>3, <1>4, UpTo
<1> QED BY <1>5 DEF L

\* The parts of a state of the scanner.
LEMMA OutIs ==
  ASSUME NEW d, NEW st, NEW o, d = [state |-> st, out |-> o]
  PROVE  d.state = st /\ d.out = o
OBVIOUS

\* A unit only adds to what is scanned.
LEMMA UnitAppends ==
  ASSUME NEW acc \in Scanner, NEW u \in Units, NEW d, UnitStep(acc, u, d)
  PROVE  \E t \in Strings : d.out = acc.out \o t
<1> DEFINE s == acc.out
           Is(st, t) == d = [state |-> st, out |-> s \o t]
           Adds(t) == d.out = s \o t
<1>1. acc.state \in Scans /\ Blank \in Units /\ "/" \in Units
  BY ProjectionAssumption DEF Scanner
<1>2. <<>> \in Strings /\ <<u>> \in Strings /\ <<Blank>> \in Strings
  BY <1>1, OneUnit DEF Strings
<1>3. <<Blank, Blank>> \in Strings /\ <<"/", u>> \in Strings
  BY <1>1, TwoUnits DEF Strings
<1>4. Blanked(u) \in Strings
  BY BlankedUnits
<1>5. ASSUME NEW st, NEW t, Is(st, t) PROVE Adds(t)
  BY <1>5, OutIs
<1>6. \E st, t : Is(st, t) /\ t \in Strings
  <2>1. CASE acc.state = Slashed
    <3>1. \/ Is(Line, <<Blank, Blank>>) \/ Is(Block(FALSE), <<Blank, Blank>>) \/ Is(Code, <<"/", u>>)
      BY <2>1 DEF UnitStep
    <3> HIDE DEF Is
    <3> QED BY <1>3, <3>1
  <2>2. CASE acc.state = Code
    <3>1. Is(Slashed, <<>>) \/ Is(Quoted(FALSE), <<u>>) \/ Is(Code, <<u>>)
      BY <2>2 DEF UnitStep
    <3> HIDE DEF Is
    <3> QED BY <1>2, <3>1
  <2>3. CASE acc.state \in Quotes
    <3>1. \E st \in {Code} \cup Quotes : Is(st, <<u>>)
      BY <2>3 DEF UnitStep
    <3> HIDE DEF Is
    <3> QED BY <1>2, <3>1
  <2>4. CASE acc.state = Line
    <3>1. Is(Code, <<u>>) \/ Is(Line, Blanked(u))
      BY <2>4 DEF UnitStep
    <3> HIDE DEF Is
    <3> QED BY <1>2, <1>4, <3>1
  <2>5. CASE acc.state \in {Block(FALSE), Block(TRUE)}
    <3>1. \/ Is(Code, <<Blank>>)
          \/ \E st \in {Block(FALSE), Block(TRUE)} : Is(st, Blanked(u))
      BY <2>5 DEF UnitStep
    <3> HIDE DEF Is
    <3> QED BY <1>2, <1>4, <3>1
  <2> HIDE DEF Is
  <2> QED BY <1>1, <2>1, <2>2, <2>3, <2>4, <2>5 DEF Scans, Comments
<1> HIDE DEF Is, Adds
<1>7. \E t \in Strings : Adds(t)
  BY <1>5, <1>6
<1> QED BY <1>7 DEF Adds

\* What is scanned stays.
LEMMA ScanGrows ==
  ASSUME NEW text \in Strings, NEW a \in 0 .. Len(text), NEW b \in a .. Len(text)
  PROVE  LET S == ScanOf(text) IN
         /\ Len(S[a].out) <= Len(S[b].out)
         /\ SameUpTo(S[b].out, S[a].out, Len(S[a].out))
<1> DEFINE L == ScanOf(text)
           n == b - a
           Grown(o) == Len(L[a].out) <= Len(o) /\ SameUpTo(o, L[a].out, Len(L[a].out))
           S == {k \in 0 .. n : Grown(L[a + k].out)}
<1>1. Len(text) \in Nat /\ a \in Nat /\ b \in Nat /\ n \in Nat /\ a + n = b /\ a + 0 = a
  BY TextUnits
<1>2. /\ \A k \in 0 .. Len(text) : L[k] \in Scanner
      /\ \A k \in 1 .. Len(text) : L[k] = ScanUnit(L[k - 1], text[k])
  BY ScanSteps
<1> HIDE DEF L
<1>3. \A k \in 0 .. Len(text) : L[k].out \in Strings /\ Len(L[k].out) \in Nat
  BY <1>2, TextUnits DEF Scanner
<1>4. Grown(L[a].out)
  BY <1>1, <1>3 DEF SameUpTo
<1>5. ASSUME NEW k \in 1 .. n, Grown(L[a + (k - 1)].out) PROVE Grown(L[a + k].out)
  <2>1. a + k \in 1 .. Len(text) /\ a + k - 1 = a + (k - 1) /\ a + (k - 1) \in 0 .. Len(text)
    BY <1>1
  <2> DEFINE c == L[a + (k - 1)]
             d == L[a + k]
             u == text[a + k]
  <2>2. d = ScanUnit(c, u) /\ c \in Scanner /\ u \in Units
    BY <1>2, <2>1, TextUnits
  <2>3. c.out \in Strings /\ Len(c.out) \in Nat /\ Len(L[a].out) \in Nat
    BY <1>1, <1>3, <2>1
  <2> HIDE DEF c, d, u
  <2>4. UnitStep(c, u, d)
    BY <2>2, UnitIsScanned
  <2>5. PICK t \in Strings : d.out = c.out \o t
    BY <2>2, <2>4, UnitAppends
  <2>6. /\ Len(d.out) = Len(c.out) + Len(t) /\ Len(t) \in Nat
        /\ \A i \in 1 .. Len(c.out) : d.out[i] = c.out[i]
    BY <2>3, <2>5, ConcatParts, TextUnits
  <2>7. Len(L[a].out) <= Len(c.out) /\ \A i \in 1 .. Len(L[a].out) : c.out[i] = L[a].out[i]
    BY <1>5 DEF SameUpTo, c
  <2>8. Grown(d.out)
    BY SMTT(40), <2>3, <2>6, <2>7 DEF SameUpTo
  <2> QED BY <2>8 DEF d
<1> HIDE DEF Grown
<1>6. 0 \in S
  BY <1>1, <1>4
<1>7. ASSUME NEW k \in 1 .. n, k - 1 \in S PROVE k \in S
  BY <1>5, <1>7
<1>8. \A k \in 0 .. n : k \in S
  <2> HIDE DEF S, n
  <2> QED BY <1>1, <1>6, <1>7, UpTo
<1>9. Grown(L[b].out)
  <2>1. n \in 0 .. n
    BY <1>1
  <2> QED BY <1>1, <1>8, <2>1
<1> QED BY <1>9 DEF Grown, L

Bare == {Code, Slashed, Line}

\* Without quotes and stars there is code, a slash, or a line comment.
LEMMA BareStep ==
  ASSUME NEW acc \in Scanner, acc.state \in Bare, NEW u \in Units, NEW d, UnitStep(acc, u, d),
         u # "q", u # "*"
  PROVE  /\ d.state \in Bare
         /\ acc.state = Code /\ u = "/" => d.state = Slashed
         /\ acc.state = Slashed /\ u = "/" => d.state = Line
         /\ acc.state = Line /\ u # "n" =>
              d.state = Line /\ d.out = acc.out \o Blanked(u)
<1>1. CASE acc.state = Code
  <2>1. \/ u = "/" /\ d = [state |-> Slashed, out |-> acc.out \o <<>>]
        \/ u # "/" /\ d = [state |-> Code, out |-> acc.out \o <<u>>]
    BY <1>1 DEF UnitStep
  <2>2. \/ u = "/" /\ d.state = Slashed
        \/ u # "/" /\ d.state = Code
    BY <2>1
  <2> QED BY <1>1, <2>2, StatesDiffer DEF Bare, Comments
<1>2. CASE acc.state = Slashed
  <2>1. \/ u = "/" /\ d = [state |-> Line, out |-> acc.out \o <<Blank, Blank>>]
        \/ u # "/" /\ d = [state |-> Code, out |-> acc.out \o <<"/", u>>]
    BY <1>2 DEF UnitStep
  <2>2. \/ u = "/" /\ d.state = Line
        \/ u # "/" /\ d.state = Code
    BY <2>1
  <2> QED BY <1>2, <2>2, StatesDiffer DEF Bare, Comments
<1>3. CASE acc.state = Line
  <2>1. \/ u = "n" /\ d = [state |-> Code, out |-> acc.out \o <<u>>]
        \/ u # "n" /\ d = [state |-> Line, out |-> acc.out \o Blanked(u)]
    BY <1>3 DEF UnitStep
  <2>2. d.state \in {Code, Line} /\ (u # "n" => d.state = Line /\ d.out = acc.out \o Blanked(u))
    BY <2>1
  <2> QED BY <1>3, <2>1, <2>2, StatesDiffer DEF Bare, Comments
<1> QED BY <1>1, <1>2, <1>3 DEF Bare

\* In a line comment what is scanned is blank.
LEMMA LineIsBlank ==
  ASSUME NEW text \in Strings, ~MayShift(text), NEW i \in 1 .. Len(text), InLineComment(text, i)
  PROVE  Len(ScanOf(text)[i].out) = i /\ ScanOf(text)[i].out[i] = Blank
<1> DEFINE L == ScanOf(text)
           n == Len(text)
<1>1. n \in Nat /\ DOMAIN text = 1 .. n /\ \A k \in 1 .. n : text[k] \in Units
  BY TextUnits
<1>2. /\ \A k \in 0 .. n : L[k] \in Scanner
      /\ L[0] = [state |-> Code, out |-> <<>>]
      /\ \A k \in 1 .. n : L[k] = ScanUnit(L[k - 1], text[k])
  BY ScanSteps
<1>3. \A k \in 1 .. n : text[k] # "q" /\ text[k] # "*"
  BY <1>1 DEF InLineComment, Has, ToSet
<1>4. PICK j \in 1 .. i - 2 : At(text, <<"/", "/">>, j) /\ \A k \in j .. i : text[k] # "n"
  BY DEF InLineComment
<1>5. j \in Nat /\ j + 1 < i /\ j >= 1 /\ i \in Nat /\ i <= n
  BY <1>1
<1>6. text[j] = "/" /\ text[j + 1] = "/"
  <2> DEFINE w == SubSeq(text, j, j + 2 - 1)
  <2>1. Len(<<"/", "/">>) = 2
    OBVIOUS
  <2>2. w = <<"/", "/">>
    BY <1>4, <2>1 DEF At
  <2>3. \A k \in 1 .. 2 : w[k] = text[j + k - 1]
    <3>1. \A k \in 1 .. (j + 2) - j : SubSeq(text, j, (j + 2) - 1)[k] = text[j + k - 1]
      <4>1. j + 2 \in Nat /\ 1 <= j /\ j <= j + 2 /\ j + 2 <= Len(text) + 1
        BY <1>5
      <4> HIDE DEF w
      <4> DEFINE b == j + 2
      <4> HIDE DEF b
      <4>2. b \in Nat /\ 1 <= j /\ j <= b /\ b <= Len(text) + 1
        BY <4>1 DEF b
      <4>3. \A k \in 1 .. b - j : SubSeq(text, j, b - 1)[k] = text[j + k - 1]
        BY <1>5, <4>2, SubSeqText
      <4> QED BY <4>3 DEF b
    <3> QED BY <1>5, <3>1
  <2> HIDE DEF w
  <2>4. w[1] = "/" /\ w[2] = "/"
    BY <2>2
  <2>5. 1 \in 1 .. 2 /\ 2 \in 1 .. 2 /\ j + 1 - 1 = j /\ j + 2 - 1 = j + 1
    BY <1>5
  <2> QED BY <2>3, <2>4, <2>5
<1> HIDE DEF L
<1>7. \A k \in 1 .. n : UnitStep(L[k - 1], text[k], L[k])
  <2>1. ASSUME NEW k \in 1 .. n PROVE UnitStep(L[k - 1], text[k], L[k])
    <3>1. k - 1 \in 0 .. n
      BY <1>1
    <3>2. UnitStep(L[k - 1], text[k], ScanUnit(L[k - 1], text[k]))
      BY <1>1, <1>2, <3>1, UnitIsScanned
    <3> QED BY <1>2, <3>2
  <2> QED BY <2>1
<1>8. \A k \in 0 .. n : L[k].state \in Bare
  <2> DEFINE S == {k \in 0 .. n : L[k].state \in Bare}
  <2>1. 0 \in S
    BY <1>1, <1>2 DEF Bare
  <2>2. ASSUME NEW k \in 1 .. n, k - 1 \in S PROVE k \in S
    <3>1. k - 1 \in 0 .. n /\ k \in 0 .. n /\ L[k - 1].state \in Bare
      BY <1>1, <2>2
    <3>2. L[k].state \in Bare
      BY <1>1, <1>2, <1>3, <1>7, <3>1, BareStep
    <3> QED BY <3>1, <3>2
  <2>3. \A k \in 0 .. n : k \in S
    <3> HIDE DEF S
    <3> QED BY <1>1, <2>1, <2>2, UpTo
  <2> QED BY <2>3
<1>9. \A k \in 1 .. n :
        /\ L[k - 1].state = Code /\ text[k] = "/" => L[k].state = Slashed
        /\ L[k - 1].state = Slashed /\ text[k] = "/" => L[k].state = Line
        /\ L[k - 1].state = Line /\ text[k] # "n" =>
             L[k].state = Line /\ L[k].out = L[k - 1].out \o Blanked(text[k])
  <2>1. ASSUME NEW k \in 1 .. n
        PROVE  /\ L[k - 1].state = Code /\ text[k] = "/" => L[k].state = Slashed
               /\ L[k - 1].state = Slashed /\ text[k] = "/" => L[k].state = Line
               /\ L[k - 1].state = Line /\ text[k] # "n" =>
                    L[k].state = Line /\ L[k].out = L[k - 1].out \o Blanked(text[k])
    <3>1. k - 1 \in 0 .. n
      BY <1>1
    <3> QED BY ZenonT(40), <1>1, <1>2, <1>3, <1>7, <1>8, <3>1, BareStep
  <2> QED BY <2>1
<1>10. "/" # "n"
  OBVIOUS
<1>11. L[j].state \in {Slashed, Line}
  <2>1. j \in 1 .. n /\ j - 1 \in 0 .. n
    BY <1>5, <1>1
  <2>2. L[j - 1].state \in Bare
    BY <1>8, <2>1
  <2>3. L[j - 1].state = Line => L[j].state = Line
    BY <1>6, <1>9, <1>10, <2>1
  <2> QED BY <1>6, <1>9, <2>1, <2>2, <2>3 DEF Bare
<1>12. L[j + 1].state = Line
  <2>1. j + 1 \in 1 .. n /\ (j + 1) - 1 = j
    BY <1>5, <1>1
  <2>2. L[j].state = Line => L[j + 1].state = Line
    BY <1>6, <1>9, <1>10, <2>1
  <2> QED BY <1>6, <1>9, <1>11, <2>1, <2>2
<1>13. L[i - 1].state = Line
  <2> DEFINE m == i - 1 - (j + 1)
             S == {k \in 0 .. m : L[(j + 1) + k].state = Line}
  <2>1. m \in Nat /\ 0 \in S
    BY <1>5, <1>12
  <2>2. ASSUME NEW k \in 1 .. m, k - 1 \in S PROVE k \in S
    <3> DEFINE x == (j + 1) + k
    <3>1. x \in 1 .. n /\ x - 1 = (j + 1) + (k - 1) /\ x \in j .. i
      BY <1>1, <1>5
    <3>2. text[x] # "n"
      BY <1>4, <3>1
    <3>3. L[(j + 1) + (k - 1)].state = Line
      BY <2>2
    <3>4. L[x - 1].state = Line
      BY <3>1, <3>3
    <3> HIDE DEF x
    <3>5. L[x].state = Line
      BY <1>9, <3>1, <3>2, <3>4
    <3>6. k \in 0 .. m
      BY <2>1
    <3> QED BY <3>5, <3>6 DEF x
  <2>3. \A k \in 0 .. m : k \in S
    <3> HIDE DEF S, m
    <3> QED BY <2>1, <2>2, UpTo
  <2>4. m \in 0 .. m /\ (j + 1) + m = i - 1
    BY <1>5, <2>1
  <2> QED BY <2>3, <2>4
<1>14. i \in j .. i /\ i - 1 \in 0 .. n
  BY <1>5
<1>15. L[i].out = L[i - 1].out \o Blanked(text[i])
  BY <1>4, <1>9, <1>13, <1>14
<1>16. text[i] # "l"
  <2>1. j \in 1 .. n /\ j < i
    BY <1>5
  <2> QED BY <1>6, <2>1 DEF MayShift
<1>17. Blanked(text[i]) = <<Blank>>
  BY <1>1, <1>4, <1>14, <1>16, BlankedUnits
<1>18. Aligned(text, L[i - 1], i - 1)
  BY <1>14, ScanAligned DEF L
<1>19. L[i - 1].out \in Strings /\ Len(L[i - 1].out) = i - 1
  <2>1. Line # Slashed
    BY StatesDiffer DEF Comments
  <2> QED BY <1>2, <1>13, <1>14, <1>18, <2>1 DEF Aligned, Fills, Scanner
<1> DEFINE s == L[i - 1].out
<1>20. Len(s \o <<Blank>>) = i /\ (s \o <<Blank>>)[i] = Blank
  <2>1. Blank \in Units
    BY ProjectionAssumption
  <2> HIDE DEF s
  <2>2. Len(s \o <<Blank>>) = Len(s) + 1 /\ (s \o <<Blank>>)[Len(s) + 1] = Blank
    BY <1>19, <2>1, UnitsAdded DEF s
  <2>3. Len(s) + 1 = i
    BY <1>5, <1>19 DEF s
  <2> QED BY <2>2, <2>3
<1>21. L[i].out = s \o <<Blank>>
  BY <1>15, <1>17
<1> HIDE DEF s
<1>22. Len(L[i].out) = i /\ L[i].out[i] = Blank
  BY <1>20, <1>21
<1> QED BY <1>22 DEF L

\* StripComments keeps every offset, keeps what is before any slash, and blanks
\* line comments.
LEMMA StrippedFits ==
  ASSUME NEW text \in Strings, ~MayShift(text)
  PROVE  LET out == StripComments(text) IN
         /\ Fills(text, out, Len(text))
         /\ \A i \in 1 .. Len(text) : NoSlash(text, i) => out[i] = text[i]
         /\ \A i \in 1 .. Len(text) : InLineComment(text, i) => out[i] = Blank
<1> DEFINE L == ScanOf(text)
           n == Len(text)
           end == L[n]
           out == StripComments(text)
<1>1. n \in Nat /\ n \in 0 .. n
  BY TextUnits
<1>2. end \in Scanner /\ Aligned(text, end, n)
  BY <1>1, ScanSteps, ScanAligned
<1>3. end.out \in Strings /\ end.state \in Scans /\ "/" \in Units /\ Len(end.out) \in Nat
  BY <1>2, ProjectionAssumption, TextUnits DEF Scanner
<1>4. end.state = Slashed <=> end.state.tag = "code" /\ end.state.slash
  <2>1. CASE end.state = Slashed
    BY <2>1 DEF Slashed
  <2>2. CASE end.state = Code
    BY <2>2, StatesDiffer DEF Code
  <2>3. CASE end.state \in Quotes \cup Comments
    <3>1. end.state.tag # "code"
      BY <2>3 DEF Quotes, Comments, Quoted, Block, Line
    <3> QED BY <2>3, <3>1, StatesDiffer
  <2> QED BY <1>3, <2>1, <2>2, <2>3 DEF Scans
<1>5. out = IF end.state = Slashed THEN Append(end.out, "/") ELSE end.out
  <2>1. out = IF end.state.tag = "code" /\ end.state.slash THEN Append(end.out, "/") ELSE end.out
    BY DEF StripComments
  <2> QED BY <1>4, <2>1
<1> HIDE DEF L, end, out
<1>6. Fills(text, out, n)
  <2>1. CASE end.state # Slashed
    BY <1>2, <1>5, <2>1 DEF Aligned
  <2>2. CASE end.state = Slashed
    <3>1. n >= 1 /\ text[n] = "/" /\ Fills(text, end.out, n - 1) /\ n - 1 \in Nat /\ (n - 1) + 1 = n
      <4>1. n >= 1 /\ text[n] = "/" /\ Fills(text, end.out, n - 1)
        BY <1>2, <2>2 DEF Aligned
      <4> QED BY <1>1, <4>1
    <3>2. out = end.out \o <<"/">>
      <4>1. Append(end.out, "/") = end.out \o <<"/">>
        BY <1>3, AppendIsConcat DEF Strings
      <4> QED BY <1>5, <2>2, <4>1
    <3>3. "/" \in {text[(n - 1) + 1], Blank}
      BY <3>1
    <3>4. Fills(text, end.out \o <<"/">>, (n - 1) + 1)
      BY <1>3, <3>1, <3>3, KeepsOne
    <3> QED BY <3>1, <3>2, <3>4
  <2> QED BY <2>1, <2>2
<1>7. ASSUME NEW i \in 1 .. n PROVE L[i].out \in Strings /\ \A k \in 1 .. Len(L[i].out) : out[k] = L[i].out[k]
  <2>1. i \in 0 .. n /\ n \in i .. n
    BY <1>1
  <2>2. Len(L[i].out) <= Len(end.out) /\ SameUpTo(end.out, L[i].out, Len(L[i].out))
    BY <2>1, ScanGrows DEF L, end
  <2>3. L[i].out \in Strings /\ Len(L[i].out) \in Nat
    <3>1. L[i] \in Scanner
      BY <2>1, ScanSteps DEF L
    <3> QED BY <3>1, TextUnits DEF Scanner
  <2>4. \A k \in 1 .. Len(end.out) : out[k] = end.out[k]
    <3>1. \A k \in 1 .. Len(end.out) : Append(end.out, "/")[k] = end.out[k]
      BY <1>3, AppendProperties DEF Strings
    <3> QED BY <1>5, <3>1
  <2> QED BY <1>3, <2>2, <2>3, <2>4 DEF SameUpTo
<1>8. ASSUME NEW i \in 1 .. n, NoSlash(text, i) PROVE out[i] = text[i]
  <2>1. Aligned(text, L[i], i)
    <3>1. i \in 0 .. n
      BY <1>1
    <3> QED BY <3>1, ScanAligned DEF L
  <2>2. L[i].state \in {Code} \cup Quotes /\ SameUpTo(L[i].out, text, i)
    BY <1>8, <2>1 DEF Aligned
  <2>3. Len(L[i].out) = i
    BY <2>1, <2>2, StatesDiffer DEF Aligned, Fills
  <2>4. i \in 1 .. i
    BY <1>1
  <2> QED BY <1>7, <2>2, <2>3, <2>4 DEF SameUpTo
<1>9. ASSUME NEW i \in 1 .. n, InLineComment(text, i) PROVE out[i] = Blank
  <2>1. Len(L[i].out) = i /\ L[i].out[i] = Blank
    BY <1>9, LineIsBlank DEF L
  <2>2. i \in 1 .. i
    BY <1>1
  <2> QED BY <1>7, <2>1, <2>2
<1> QED BY <1>6, <1>8, <1>9 DEF out

\* What is found of a part grows unit by unit.
LEMMA FoundSteps ==
  ASSUME NEW part \in Strings, NEW text \in Strings
  PROVE  LET F == Found(part, text) IN
         /\ F[0] = 0
         /\ \A i \in 1 .. Len(text) : F[i] \in Nat /\ F[i - 1] \in Nat /\
              (\/ F[i] = F[i - 1]
               \/ F[i] = F[i - 1] + 1 /\ F[i - 1] < Len(part) /\ part[F[i]] = text[i])
<1> DEFINE n == Len(text)
           L == Found(part, text)
           Step(k, u) == IF k < Len(part) /\ part[k + 1] = u THEN k + 1 ELSE k
           move == [i \in 1 .. n |-> [k \in Nat |-> Step(k, text[i])]]
           Body(f) == [i \in 0 .. n |-> IF i = 0 THEN 0 ELSE Step(f[i - 1], text[i])]
<1>1. n \in Nat /\ Len(part) \in Nat
  BY TextUnits
<1>2. move \in [1 .. n -> [Nat -> Nat]]
  <2>1. \A i \in 1 .. n, k \in Nat : Step(k, text[i]) \in Nat
    OBVIOUS
  <2> HIDE DEF Step
  <2> QED BY <2>1
<1>3. PICK f : f \in Folds(n, Nat, 0, move)
  <2> HIDE DEF move, n, Body
  <2>1. 0 \in Nat
    OBVIOUS
  <2> QED BY <1>1, <1>2, <2>1, FoldExists
<1>4. f \in [0 .. n -> Nat] /\ f[0] = 0 /\ \A k \in 1 .. n : f[k] = move[k][f[k - 1]]
  <2> HIDE DEF move, n, Body
  <2> QED BY <1>3 DEF Folds
<1>5. ASSUME NEW i \in 0 .. n PROVE f[i] = Body(f)[i]
  <2> HIDE DEF Step
  <2>1. CASE i = 0
    BY <1>4, <2>1
  <2>2. CASE i # 0
    <3>1. i \in 1 .. n /\ i - 1 \in 0 .. n
      BY <1>1, <2>2
    <3>2. f[i - 1] \in Nat
      BY <1>4, <3>1
    <3> QED BY <1>4, <2>2, <3>1, <3>2
  <2> QED BY <2>1, <2>2
<1>6. f = Body(f)
  <2>1. Body(f) \in [0 .. n -> {Body(f)[i] : i \in 0 .. n}]
    BY SMTT(40)
  <2> HIDE DEF Body, move
  <2> QED BY <1>4, <1>5, <2>1
<1>7. \E g : g = Body(g)
  BY <1>6
<1>8. L = Body(L)
  BY <1>7 DEF Found, L
<1> HIDE DEF L
<1>9. L[0] = 0 /\ \A i \in 1 .. n : L[i] = Step(L[i - 1], text[i])
  <2>1. 0 \in 0 .. n /\ \A i \in 1 .. n : i \in 0 .. n /\ i # 0
    BY <1>1
  <2> HIDE DEF Step
  <2> QED BY <1>8, <2>1
<1> DEFINE S == {i \in 0 .. n : L[i] \in Nat}
<1>10. 0 \in S
  BY <1>1, <1>9
<1>11. ASSUME NEW k \in 1 .. n, k - 1 \in S PROVE k \in S
  BY <1>1, <1>9, <1>11
<1>12. \A k \in 0 .. n : k \in S
  <2> HIDE DEF S
  <2> QED BY <1>1, <1>10, <1>11, UpTo
<1>13. ASSUME NEW i \in 1 .. n
       PROVE  L[i] \in Nat /\ L[i - 1] \in Nat /\
              (\/ L[i] = L[i - 1]
               \/ L[i] = L[i - 1] + 1 /\ L[i - 1] < Len(part) /\ part[L[i]] = text[i])
  <2>1. i \in 0 .. n /\ i - 1 \in 0 .. n
    BY <1>1
  <2>2. L[i] \in Nat /\ L[i - 1] \in Nat
    BY <1>12, <2>1
  <2> QED BY <1>9, <2>2
<1> QED BY <1>9, <1>13 DEF L

\* The units of what is within a text are units of the text.
LEMMA WithinUnits ==
  ASSUME NEW part \in Strings, NEW text \in Strings, IsWithin(part, text), NEW m \in 1 .. Len(part)
  PROVE  Has(text, part[m])
<1> DEFINE F == Found(part, text)
           n == Len(text)
           Seen(k) == \A j \in 1 .. k : Has(text, part[j])
           S == {i \in 0 .. n : Seen(F[i])}
<1>1. n \in Nat /\ DOMAIN text = 1 .. n /\ Len(part) \in Nat
  BY TextUnits
<1>2. /\ F[0] = 0
      /\ \A i \in 1 .. n : F[i] \in Nat /\ F[i - 1] \in Nat /\
           (\/ F[i] = F[i - 1]
            \/ F[i] = F[i - 1] + 1 /\ F[i - 1] < Len(part) /\ part[F[i]] = text[i])
  BY FoundSteps
<1> HIDE DEF F
<1>3. \A i \in 1 .. n : Has(text, text[i])
  BY <1>1 DEF Has, ToSet
<1>4. 0 \in S
  BY <1>1, <1>2
<1>5. ASSUME NEW i \in 1 .. n, i - 1 \in S PROVE i \in S
  <2>1. Seen(F[i - 1]) /\ i \in 0 .. n
    BY <1>1, <1>5
  <2>2. Seen(F[i])
    BY SMTT(40), <1>2, <1>3, <2>1
  <2> QED BY <2>1, <2>2
<1>6. \A i \in 0 .. n : i \in S
  <2> HIDE DEF S
  <2> QED BY <1>1, <1>4, <1>5, UpTo
<1>7. n \in 0 .. n /\ F[n] = Len(part)
  BY <1>1 DEF IsWithin, F
<1> QED BY <1>6, <1>7

\* A unit the text before has not got is in what was added.
LEMMA NewUnitIsAdded ==
  ASSUME NEW text \in Strings, NEW before, before # NoText => before \in Strings,
         NEW A \in Added(before, text),
         NEW i \in 1 .. Len(text), before # NoText => ~Has(before, text[i])
  PROVE  i \in A
<1>1. CASE before = NoText
  BY <1>1 DEF Added
<1>2. CASE before # NoText
  <2>1. ASSUME i \notin A PROVE FALSE
    <3>1. PICK m \in 1 .. Len(Without(text, A)) : Without(text, A)[m] = text[i]
      BY <2>1, LeftKeeps
    <3>2. Without(text, A) \in Strings
      <4>1. Len(text) \in 0 .. Len(text)
        BY TextUnits
      <4> QED BY <4>1, LeftSteps DEF Without
    <3>3. IsWithin(Without(text, A), before)
      BY <1>2 DEF Added
    <3>4. Has(before, Without(text, A)[m])
      BY <1>2, <3>2, <3>3, WithinUnits
    <3> QED BY <1>2, <3>1, <3>4
  <2> QED BY <2>1
<1> QED BY <1>1, <1>2

\* What the review reports of a text.
LEMMA MatchesFit ==
  ASSUME NEW text \in Strings, ~MayShift(text), NEW before, before # NoText => before \in Strings,
         NEW A \in Added(before, text), NEW inComments \in BOOLEAN
  PROVE  LET reported == MatchesIn(text, A, inComments) IN
         /\ reported \subseteq 1 .. Len(text)
         /\ \A i \in reported : text[i] = "x" /\ (InLineComment(text, i) => inComments)
         /\ \A i \in 1 .. Len(text) :
              /\ text[i] = "x"
              /\ before = NoText \/ ~Has(before, "x")
              /\ inComments \/ \A j \in 1 .. i : text[j] # "/"
              => i \in reported
<1> DEFINE reported == MatchesIn(text, A, inComments)
           scanned == IF inComments THEN text ELSE StripComments(text)
<1>1. Len(text) \in Nat /\ Blank # "x"
  BY TextUnits DEF Blank
<1>2. /\ Fills(text, StripComments(text), Len(text))
      /\ \A i \in 1 .. Len(text) : NoSlash(text, i) => StripComments(text)[i] = text[i]
      /\ \A i \in 1 .. Len(text) : InLineComment(text, i) => StripComments(text)[i] = Blank
  BY StrippedFits
<1>3. reported = {i \in 1 .. Len(scanned) : scanned[i] = "x" /\ i \in A}
  BY DEF MatchesIn
<1>4. Len(scanned) = Len(text) /\ \A i \in 1 .. Len(text) : scanned[i] \in {text[i], Blank}
  BY <1>2 DEF Fills
<1>5. \A i \in 1 .. Len(text) : InLineComment(text, i) /\ ~inComments => scanned[i] = Blank
  BY <1>2
<1>6. \A i \in 1 .. Len(text) : inComments \/ NoSlash(text, i) => scanned[i] = text[i]
  BY <1>2
<1> HIDE DEF scanned, reported
<1>7. ASSUME NEW i \in reported
      PROVE  text[i] = "x" /\ (InLineComment(text, i) => inComments)
  BY <1>1, <1>3, <1>4, <1>5
<1>8. ASSUME NEW i \in 1 .. Len(text), text[i] = "x", before = NoText \/ ~Has(before, "x"),
             inComments \/ \A j \in 1 .. i : text[j] # "/"
      PROVE  i \in reported
  <2>1. scanned[i] = "x"
    BY <1>6, <1>8 DEF NoSlash
  <2>2. i \in A
    BY <1>8, NewUnitIsAdded
  <2> QED BY <1>3, <1>4, <2>1, <2>2
<1>9. reported \subseteq 1 .. Len(text)
  BY <1>3, <1>4
<1> QED BY <1>7, <1>8, <1>9 DEF reported

\* StripComments makes a text of a text.
LEMMA StrippedText ==
  ASSUME NEW text \in Strings
  PROVE  StripComments(text) \in Strings
<1> DEFINE end == ScanOf(text)[Len(text)]
<1>1. end \in Scanner /\ "/" \in Units
  <2>1. Len(text) \in 0 .. Len(text)
    BY TextUnits
  <2> QED BY <2>1, ScanSteps, ProjectionAssumption
<1>2. StripComments(text) = Append(end.out, "/") \/ StripComments(text) = end.out
  BY DEF StripComments
<1> HIDE DEF end
<1>3. end.out \in Strings
  BY <1>1 DEF Scanner
<1>4. Append(end.out, "/") \in Strings
  BY <1>1, <1>3, AppendProperties DEF Strings
<1> QED BY <1>2, <1>3, <1>4

\* A new text is one of the places of its text.
LEMMA NewTextIsPlaced ==
  ASSUME NEW text \in Strings, NEW w \in Strings, NEW span, IsNewText(text, span, w)
  PROVE  \E i \in Places(text, w) : span = Span(i, w)
<1>1. PICK i \in Nat : i >= 1 /\ i + Len(w) - 1 <= Len(text) /\ span = Span(i, w) /\ At(text, w, i)
  BY DEF IsNewText
<1>2. i \in Places(text, w)
  <2>1. Len(text) \in Nat /\ Len(w) \in Nat
    BY TextUnits
  <2>2. i \in 1 .. Len(text) - Len(w) + 1
    BY <1>1, <2>1
  <2> QED BY <1>1, <2>2 DEF Places
<1> QED BY <1>1, <1>2

\* The spans of new texts that each occur once are those of the projection.
LEMMA SpansAgree ==
  ASSUME NEW text \in Strings, NEW spans \in Seq(Spans), NEW ins \in Seq(LocatedEdits),
         Len(spans) = Len(ins), \A j \in 1 .. Len(ins) : IsNewText(text, spans[j], ins[j].new),
         NEW texts, \A j \in 1 .. Len(ins) : ins[j].new \in texts,
         \A t \in texts : \E j \in 1 .. Len(ins) : ins[j].new = t,
         \A t \in texts : OnlyPlace(text, t) # {}
  PROVE  UNION {OnlyPlace(text, t) : t \in texts} = ToSet(spans)
<1> DEFINE n == Len(ins)
<1>1. n \in Nat /\ DOMAIN spans = 1 .. n /\ \A j \in 1 .. n : ins[j].new \in Strings
  <2>1. \A j \in 1 .. n : ins[j] \in LocatedEdits
    BY ElementOfSeq
  <2>2. n \in Nat /\ DOMAIN spans = 1 .. n
    BY LenProperties
  <2> HIDE DEF n
  <2> QED BY <2>1, <2>2 DEF LocatedEdits
<1>2. ASSUME NEW j \in 1 .. n PROVE OnlyPlace(text, ins[j].new) = {spans[j]}
  <2> DEFINE t == ins[j].new
             P == Places(text, t)
  <2>1. PICK i \in P : spans[j] = Span(i, t)
    BY <1>1, NewTextIsPlaced
  <2>2. PICK k \in P : P = {k}
    BY DEF OnlyPlace
  <2>3. OnlyPlace(text, t) = {Span(l, t) : l \in {m \in P : P = {m}}}
    BY DEF OnlyPlace
  <2> HIDE DEF P, t
  <2>4. {m \in P : P = {m}} = {k} /\ i = k
    BY <2>1, <2>2
  <2>5. OnlyPlace(text, t) = {Span(k, t)}
    BY <2>3, <2>4
  <2> QED BY <2>1, <2>4, <2>5 DEF t
<1>3. ToSet(spans) = {spans[j] : j \in 1 .. n}
  BY <1>1 DEF ToSet
<1> HIDE DEF n
<1>4. ASSUME NEW s \in UNION {OnlyPlace(text, t) : t \in texts} PROVE s \in ToSet(spans)
  <2>1. PICK t \in texts : s \in OnlyPlace(text, t)
    OBVIOUS
  <2>2. PICK j \in 1 .. n : ins[j].new = t
    BY DEF n
  <2>3. OnlyPlace(text, t) = {spans[j]}
    BY <1>2, <2>2
  <2>4. s = spans[j]
    BY <2>1, <2>3
  <2> QED BY <1>3, <2>4
<1>5. ASSUME NEW s \in ToSet(spans) PROVE s \in UNION {OnlyPlace(text, t) : t \in texts}
  <2>1. PICK j \in 1 .. n : s = spans[j]
    BY <1>3
  <2>2. s \in OnlyPlace(text, ins[j].new) /\ ins[j].new \in texts
    BY <1>2, <2>1 DEF n
  <2> QED BY <2>2
<1> QED BY <1>4, <1>5

\* The spans that are measured are in the text.
LEMMA SpansInFit ==
  ASSUME NEW text \in Strings, NEW rs \in Seq(Substitutions), SpansIn(text, rs) # NoText
  PROVE  \A span \in SpansIn(text, rs) : span \subseteq 1 .. Len(text)
<1> DEFINE n == Len(rs)
           texts == {rs[k].new : k \in 1 .. n} \ {<<>>}
<1>1. \A k \in 1 .. n : rs[k].new \in Strings
  <2>1. \A k \in 1 .. n : rs[k] \in Substitutions
    BY ElementOfSeq
  <2> HIDE DEF n
  <2> QED BY <2>1 DEF Substitutions
<1>2. \/ SpansIn(text, rs) = {1 .. Len(text)}
      \/ SpansIn(text, rs) = UNION {OnlyPlace(text, t) : t \in texts}
  <2> DEFINE all == UNION {OnlyPlace(text, t) : t \in texts}
             fit == \A t \in texts : OnlyPlace(text, t) # {}
  <2>1. SpansIn(text, rs) = CASE rs = <<>> -> {1 .. Len(text)} [] rs # <<>> /\ fit -> all
                              [] OTHER -> NoText
    BY DEF SpansIn
  <2> HIDE DEF all, fit
  <2>2. SpansIn(text, rs) = {1 .. Len(text)} \/ SpansIn(text, rs) = all
    BY <2>1
  <2> QED BY <2>2 DEF all
<1>3. ASSUME NEW t \in Strings, NEW span \in OnlyPlace(text, t) PROVE span \subseteq 1 .. Len(text)
  <2>1. PICK i \in Places(text, t) : span = Span(i, t)
    BY DEF OnlyPlace
  <2>2. i \in Nat \ {0} /\ i + Len(t) - 1 <= Len(text) /\ Len(t) \in Nat /\ Len(text) \in Nat
    BY PlacesFit, TextUnits
  <2> QED BY <2>1, <2>2 DEF Span
<1>4. \A t \in texts : t \in Strings
  BY <1>1
<1> HIDE DEF texts
<1> QED BY <1>2, <1>3, <1>4

\* What the gate is shown is the content, or the source with the edits applied.
ProposedFits ==
  /\ proposed.content = NoText => proposed = Nothing
  /\ proposed # Nothing =>
       /\ proposed.content \in Strings
       /\ replacements = <<>> => proposed.spans = <<1 .. Len(proposed.content)>>
       /\ replacements # <<>> =>
            /\ source # NoText /\ Resolves(source, replacements)
            /\ proposed = ApplyEdits(source, Sorted(Located(source, replacements)))

Written == {"written", "measured", "reviewed"}

ProjectionInv ==
  /\ progress \in {"start", "proposed"} \cup Written
  /\ source \in SourceTexts \cup {NoText}
  /\ replacements \in Seq(Replacements)
  /\ ProposedFits
  /\ progress \in Written => after \in Strings
  /\ measured = IF progress \in {"measured", "reviewed"} THEN SpansIn(after, replacements) ELSE NoText
  /\ \/ matches = NoMatches
     \/ /\ progress = "reviewed"
        /\ \E added \in Added(source, after), inComments \in BOOLEAN :
             matches = [looked |-> TRUE, inComments |-> inComments,
                        at |-> MatchesIn(after, added, inComments)]

\* The replacements of an intent are pairs of texts.
LEMMA EditsOfReplacements == Seq(Replacements) \subseteq Seq(Substitutions)
<1>1. Replacements \subseteq Substitutions
  BY ProjectionAssumption DEF Substitutions
<1>2. ASSUME NEW rs \in Seq(Replacements) PROVE rs \in Seq(Substitutions)
  <2>1. Len(rs) \in Nat /\ rs \in [1 .. Len(rs) -> Replacements]
    BY LenProperties
  <2>2. rs \in [1 .. Len(rs) -> Substitutions]
    BY <1>1, <2>1
  <2> QED BY <2>1, <2>2, SeqDef
<1> QED BY <1>2

\* A projected edit is a text.
LEMMA ProjectedIsText ==
  ASSUME NEW text \in Strings, NEW rs \in Seq(Replacements), Resolves(text, rs)
  PROVE  LET p == ApplyEdits(text, Sorted(Located(text, rs)))
         IN  p.content \in Strings /\ p # Nothing
<1> DEFINE sorted == Sorted(Located(text, rs))
           p == ApplyEdits(text, sorted)
<1>1. sorted \in Seq(Placed(text)) /\ sorted \in Seq(LocatedEdits) /\ Apart(sorted)
  BY EditsOfReplacements, ResolvedFits
<1> HIDE DEF sorted
<1>2. p.content \in Strings
  BY <1>1, AppliedFits
<1> HIDE DEF p
<1>3. p # Nothing
  BY <1>2, ProjectionAssumption DEF Nothing
<1> QED BY <1>2, <1>3 DEF p, sorted

\* The inductive invariant of the write: what the gate was shown is the source
\* with its edits applied, and what is measured and reported is about that text.
THEOREM ProjectionInvariant == ProjectionSpec => []ProjectionInv
<1>0. SourceTexts \subseteq Strings /\ NoText \notin Strings /\ MaxEdit \in Nat
  BY ProjectionAssumption
<1>1. ProjectionInit => ProjectionInv
  <2> SUFFICES ASSUME ProjectionInit PROVE ProjectionInv
    OBVIOUS
  <2>1. <<>> \in Seq(Replacements)
    OBVIOUS
  <2> QED BY <2>1 DEF ProjectionInit, ProjectionInv, ProposedFits, Written
<1>2. ASSUME ProjectionInv, [ProjectionNext]_projectionVars PROVE ProjectionInv'
  <2>1. CASE Intend
    <3>1. /\ progress = "start" /\ progress' = "proposed" /\ matches' = matches
          /\ source' \in SourceTexts \cup {NoText}
          /\ measured' = measured
      BY <2>1 DEF Intend
    <3>2. measured' = NoText /\ matches' = NoMatches
      BY <1>2, <3>1 DEF ProjectionInv
    <3>3. replacements' \in Seq(Replacements) /\ ProposedFits'
      <4>1. CASE replacements' = <<>> /\ \E content \in SourceTexts :
                   proposed' = [content |-> content, spans |-> <<1 .. Len(content)>>]
        <5>1. PICK content \in SourceTexts :
                proposed' = [content |-> content, spans |-> <<1 .. Len(content)>>]
          BY <4>1
        <5>2. proposed'.content = content /\ proposed'.spans = <<1 .. Len(content)>>
          BY <5>1
        <5>3. content \in Strings /\ content # NoText
          BY <1>0
        <5>4. <<>> \in Seq(Replacements)
          OBVIOUS
        <5> QED BY <4>1, <5>2, <5>3, <5>4 DEF ProposedFits
      <4>2. CASE \E n \in 1 .. MaxEdit : \E rs \in [1 .. n -> Replacements] :
                   /\ replacements' = rs
                   /\ proposed' = IF source' # NoText /\ Resolves(source', rs)
                                  THEN ApplyEdits(source', Sorted(Located(source', rs))) ELSE Nothing
        <5>9. PICK n \in 1 .. MaxEdit : \E rs \in [1 .. n -> Replacements] :
                /\ replacements' = rs
                /\ proposed' = IF source' # NoText /\ Resolves(source', rs)
                               THEN ApplyEdits(source', Sorted(Located(source', rs))) ELSE Nothing
          BY <4>2
        <5>1. PICK rs \in [1 .. n -> Replacements] :
                /\ replacements' = rs
                /\ proposed' = IF source' # NoText /\ Resolves(source', rs)
                               THEN ApplyEdits(source', Sorted(Located(source', rs))) ELSE Nothing
          BY <5>9
        <5>2. n \in Nat /\ n >= 1
          BY <1>0
        <5>3. rs \in Seq(Replacements)
          BY <5>2, SeqDef
        <5>4. rs # <<>>
          <6>1. DOMAIN rs = 1 .. n /\ 1 \in 1 .. n
            BY <5>2
          <6>2. DOMAIN <<>> = {}
            OBVIOUS
          <6> QED BY <6>1, <6>2
        <5>5. CASE source' # NoText /\ Resolves(source', rs)
          <6> DEFINE text == source'
                     p == ApplyEdits(text, Sorted(Located(text, rs)))
          <6>1. text \in Strings
            BY <1>0, <3>1, <5>5
          <6>2. p.content \in Strings /\ p # Nothing
            <7> HIDE DEF text
            <7> QED BY <5>3, <5>5, <6>1, ProjectedIsText DEF text
          <6>3. proposed' = p
            BY <5>1, <5>5
          <6> QED BY <1>0, <5>1, <5>3, <5>4, <5>5, <6>2, <6>3 DEF ProposedFits
        <5>6. CASE ~(source' # NoText /\ Resolves(source', rs))
          <6>1. proposed' = Nothing
            BY <5>1, <5>6
          <6> QED BY <5>1, <5>3, <6>1 DEF ProposedFits
        <5> QED BY <5>5, <5>6
      <4> QED BY <2>1, <4>1, <4>2 DEF Intend
    <3> QED BY <3>1, <3>2, <3>3 DEF ProjectionInv, Written
  <2>2. CASE HostWrites
    <3>1. /\ progress = "proposed" /\ progress' = "written"
          /\ after' \in SourceTexts \cup ({proposed.content} \ {NoText})
          /\ UNCHANGED <<source, replacements, proposed, measured, matches>>
      BY <2>2 DEF HostWrites
    <3>2. after' \in Strings
      <4>1. proposed.content # NoText => proposed.content \in Strings
        BY <1>2 DEF ProjectionInv, ProposedFits, Nothing
      <4> QED BY <1>0, <3>1, <4>1
    <3>3. ProposedFits'
      BY <1>2, <3>1 DEF ProjectionInv, ProposedFits
    <3> QED BY <1>2, <3>1, <3>2, <3>3 DEF ProjectionInv, Written
  <2>3. CASE Actual
    <3>1. /\ progress = "written" /\ progress' = "measured"
          /\ measured' = SpansIn(after, replacements)
          /\ UNCHANGED <<source, replacements, proposed, after, matches>>
      BY <2>3 DEF Actual
    <3>2. ProposedFits'
      BY <1>2, <3>1 DEF ProjectionInv, ProposedFits
    <3> QED BY <1>2, <3>1, <3>2 DEF ProjectionInv, Written
  <2>4. CASE ReviewWrite
    <3>1. /\ progress = "measured" /\ progress' = "reviewed"
          /\ UNCHANGED <<source, replacements, proposed, after, measured>>
      BY <2>4 DEF ReviewWrite
    <3>2. ProposedFits'
      BY <1>2, <3>1 DEF ProjectionInv, ProposedFits
    <3>3. \/ matches' = NoMatches
          \/ \E added \in Added(source', after'), inComments \in BOOLEAN :
               matches' = [looked |-> TRUE, inComments |-> inComments,
                           at |-> MatchesIn(after', added, inComments)]
      BY <2>4, <3>1 DEF ReviewWrite
    <3> QED BY <1>2, <3>1, <3>2, <3>3 DEF ProjectionInv, Written
  <2>5. CASE UNCHANGED projectionVars
    BY <1>2, <2>5 DEF projectionVars, ProjectionInv, ProposedFits
  <2> QED BY <1>2, <2>1, <2>2, <2>3, <2>4, <2>5 DEF ProjectionNext
<1> QED BY <1>1, <1>2, PTL DEF ProjectionSpec

\* The spans of a projected edit and its new texts are one to one.
LEMMA ProjectedSpans ==
  ASSUME ProjectionInv, replacements # <<>>, proposed # Nothing
  PROVE  LET sorted == Sorted(Located(source, replacements))
             ins == Insertions(sorted)[Len(sorted)]
         IN  /\ proposed.content \in Strings /\ proposed.spans \in Seq(Spans) /\ ins \in Seq(LocatedEdits)
             /\ Len(proposed.spans) = Len(ins)
             /\ \A j \in 1 .. Len(ins) : IsNewText(proposed.content, proposed.spans[j], ins[j].new)
             /\ \A j \in 1 .. Len(ins) : ins[j].new # <<>> /\ ins[j].new \in Strings
             /\ \A j \in 1 .. Len(ins) : \E k \in 1 .. Len(replacements) : ins[j].new = replacements[k].new
             /\ \A k \in 1 .. Len(replacements) : replacements[k].new # <<>> =>
                  \E j \in 1 .. Len(ins) : ins[j].new = replacements[k].new
             /\ Without(proposed.content, NewUnits(proposed.spans)) = Without(source, OldUnits(sorted))
<1> DEFINE text == source
           rs == replacements
           sorted == Sorted(Located(text, rs))
           n == Len(sorted)
           ins == Insertions(sorted)[n]
           p == ApplyEdits(text, sorted)
<1>1. text \in Strings /\ rs \in Seq(Substitutions) /\ Resolves(text, rs) /\ proposed = p
  BY EditsOfReplacements, ProjectionAssumption DEF ProjectionInv, ProposedFits
<1> HIDE DEF text, rs
<1>2. /\ sorted \in Seq(Placed(text)) /\ sorted \in Seq(LocatedEdits) /\ Apart(sorted)
      /\ \A k \in 1 .. Len(rs) : \E l \in 1 .. n : sorted[l].new = rs[k].new
      /\ \A l \in 1 .. n : \E k \in 1 .. Len(rs) : sorted[l].new = rs[k].new
  BY <1>1, ResolvedFits
<1> HIDE DEF sorted
<1>3. /\ p.content \in Strings /\ p.spans \in Seq(Spans) /\ ins \in Seq(LocatedEdits)
      /\ Len(p.spans) = Len(ins)
      /\ \A j \in 1 .. Len(ins) : IsNewText(p.content, p.spans[j], ins[j].new)
      /\ Without(p.content, NewUnits(p.spans)) = Without(text, OldUnits(sorted))
  <2>1. sorted \in Seq(Placed(text)) /\ sorted \in Seq(LocatedEdits) /\ Apart(sorted) /\ text \in Strings
    BY <1>1, <1>2
  <2> QED BY ONLY <2>1, AppliedFits
<1>4. /\ \A j \in 1 .. n : sorted[j].new # <<>> => \E m \in 1 .. Len(ins) : ins[m] = sorted[j]
      /\ \A m \in 1 .. Len(ins) : \E j \in 1 .. n : ins[m] = sorted[j] /\ sorted[j].new # <<>>
  <2>1. n \in 0 .. n
    BY <1>2, LenProperties
  <2> QED BY <1>2, <2>1, InsertionsCover
<1> HIDE DEF p, ins, n
<1>5. ASSUME NEW j \in 1 .. Len(ins)
      PROVE  /\ ins[j].new # <<>> /\ ins[j].new \in Strings
             /\ \E k \in 1 .. Len(rs) : ins[j].new = rs[k].new
  <2>1. PICK l \in 1 .. n : ins[j] = sorted[l] /\ sorted[l].new # <<>>
    BY <1>4
  <2>2. PICK k \in 1 .. Len(rs) : sorted[l].new = rs[k].new
    BY <1>2
  <2>3. ins[j] \in LocatedEdits
    BY <1>3, ElementOfSeq
  <2>4. ins[j].new \in Strings
    BY <2>3 DEF LocatedEdits
  <2> QED BY <2>1, <2>2, <2>4
<1>6. ASSUME NEW k \in 1 .. Len(rs), rs[k].new # <<>>
      PROVE  \E j \in 1 .. Len(ins) : ins[j].new = rs[k].new
  <2>1. PICK l \in 1 .. n : sorted[l].new = rs[k].new
    BY <1>2
  <2>2. PICK m \in 1 .. Len(ins) : ins[m] = sorted[l]
    BY <1>4, <1>6, <2>1
  <2> QED BY <2>1, <2>2
<1> QED BY <1>1, <1>3, <1>5, <1>6 DEF sorted, p, ins, n, text, rs

\* The type invariant is part of it.
LEMMA ProjectionIsTyped == ProjectionInv => ProjectionTypeOK
<1> SUFFICES ASSUME ProjectionInv PROVE ProjectionTypeOK
  OBVIOUS
<1>1. /\ progress \in {"start", "proposed", "written", "measured", "reviewed"}
      /\ source \in SourceTexts \cup {NoText}
  BY DEF ProjectionInv, Written
<1>2. \A k \in DOMAIN replacements : replacements[k] \in Replacements
  <2>1. replacements \in Seq(Replacements)
    BY DEF ProjectionInv
  <2>2. DOMAIN replacements = 1 .. Len(replacements)
    BY <2>1, LenProperties
  <2> QED BY <2>1, <2>2, ElementOfSeq
<1>3. ASSUME proposed # Nothing, NEW k \in DOMAIN proposed.spans
      PROVE  proposed.spans[k] \subseteq 1 .. Len(proposed.content)
  <2>1. CASE replacements = <<>>
    <3>1. proposed.spans = <<1 .. Len(proposed.content)>>
      BY <1>3, <2>1 DEF ProjectionInv, ProposedFits
    <3>2. k = 1 /\ proposed.spans[1] = 1 .. Len(proposed.content)
      <4> DEFINE x == 1 .. Len(proposed.content)
      <4>1. proposed.spans = <<x>>
        BY <3>1
      <4> HIDE DEF x
      <4> QED BY <1>3, <4>1 DEF x
    <3> QED BY <3>2
  <2>2. CASE replacements # <<>>
    <3> DEFINE sorted == Sorted(Located(source, replacements))
               ins == Insertions(sorted)[Len(sorted)]
    <3>1. /\ proposed.content \in Strings /\ proposed.spans \in Seq(Spans) /\ ins \in Seq(LocatedEdits)
          /\ Len(proposed.spans) = Len(ins)
          /\ \A j \in 1 .. Len(ins) : IsNewText(proposed.content, proposed.spans[j], ins[j].new)
          /\ \A j \in 1 .. Len(ins) : ins[j].new # <<>> /\ ins[j].new \in Strings
      BY <1>3, <2>2, ProjectedSpans
    <3> HIDE DEF ins
    <3>2. k \in 1 .. Len(ins)
      BY <1>3, <3>1, LenProperties
    <3>3. PICK i \in Places(proposed.content, ins[k].new) : proposed.spans[k] = Span(i, ins[k].new)
      BY <3>1, <3>2, NewTextIsPlaced
    <3>4. /\ i \in Nat \ {0} /\ i + Len(ins[k].new) - 1 <= Len(proposed.content)
          /\ Len(ins[k].new) \in Nat /\ Len(proposed.content) \in Nat
      BY <3>1, <3>2, <3>3, PlacesFit, TextUnits
    <3> QED BY <3>3, <3>4 DEF Span
  <2> QED BY <2>1, <2>2
<1>4. ASSUME measured # NoText, NEW span \in measured PROVE span \subseteq 1 .. Len(after)
  <2>1. measured = SpansIn(after, replacements) /\ after \in Strings /\ replacements \in Seq(Substitutions)
    BY <1>4, EditsOfReplacements DEF ProjectionInv, Written
  <2> QED BY <1>4, <2>1, SpansInFit
<1>5. matches.at \subseteq Nat /\ matches.looked \in BOOLEAN /\ matches.inComments \in BOOLEAN
  <2>1. CASE matches = NoMatches
    BY <2>1 DEF NoMatches
  <2>2. CASE matches # NoMatches
    <3>1. PICK added \in Added(source, after), inComments \in BOOLEAN :
            matches = [looked |-> TRUE, inComments |-> inComments,
                       at |-> MatchesIn(after, added, inComments)]
      BY <2>2 DEF ProjectionInv
    <3>2. after \in Strings
      BY <2>2 DEF ProjectionInv, Written
    <3>3. StripComments(after) \in Strings
      BY <3>2, StrippedText
    <3>4. Len(after) \in Nat /\ Len(StripComments(after)) \in Nat
      BY <3>2, <3>3, TextUnits
    <3>5. MatchesIn(after, added, inComments) \subseteq Nat
      BY <3>4 DEF MatchesIn
    <3> QED BY <3>1, <3>5
  <2> QED BY <2>1, <2>2
<1> QED BY <1>1, <1>2, <1>3, <1>4, <1>5 DEF ProjectionTypeOK

\* So is that every offset names its text.
LEMMA OffsetsFit == ProjectionInv => OffsetsNameTheirText
<1> SUFFICES ASSUME ProjectionInv PROVE OffsetsNameTheirText
  OBVIOUS
<1> DEFINE sorted == Sorted(Located(source, replacements))
           new == Insertions(sorted)[Len(sorted)]
           spans == proposed.spans
           NewText == UNION ToSet(spans)
           OldText == UNION {Span(sorted[k].at, sorted[k].old) : k \in 1 .. Len(sorted)}
           SpansAreNamed ==
             /\ Len(spans) = Len(new)
             /\ \A k \in 1 .. Len(spans) :
                  At(proposed.content, new[k].new, Min(spans[k]))
                  /\ spans[k] = Span(Min(spans[k]), new[k].new)
             /\ Without(proposed.content, NewText) = Without(source, OldText)
             /\ measured # NoText /\ after = proposed.content => measured = ToSet(spans)
           MatchesAreNamed ==
             /\ \A i \in matches.at : after[i] = "x" /\ (InLineComment(after, i) => matches.inComments)
             /\ \A i \in 1 .. Len(after) :
                  /\ after[i] = "x"
                  /\ source = NoText \/ ~Has(source, "x")
                  /\ matches.inComments \/ \A j \in 1 .. i : after[j] # "/"
                  => i \in matches.at
<1>1. ASSUME progress \in {"proposed", "measured"}, replacements # <<>>, proposed # Nothing
      PROVE  SpansAreNamed
  <2>1. /\ proposed.content \in Strings /\ spans \in Seq(Spans) /\ new \in Seq(LocatedEdits)
        /\ Len(spans) = Len(new)
        /\ \A j \in 1 .. Len(new) : IsNewText(proposed.content, spans[j], new[j].new)
        /\ \A j \in 1 .. Len(new) : new[j].new # <<>> /\ new[j].new \in Strings
        /\ \A j \in 1 .. Len(new) : \E k \in 1 .. Len(replacements) : new[j].new = replacements[k].new
        /\ \A k \in 1 .. Len(replacements) : replacements[k].new # <<>> =>
             \E j \in 1 .. Len(new) : new[j].new = replacements[k].new
        /\ Without(proposed.content, NewUnits(spans)) = Without(source, OldUnits(sorted))
    BY <1>1, ProjectedSpans
  <2>2. NewText = NewUnits(spans) /\ OldText = OldUnits(sorted)
    BY DEF NewUnits, OldUnits
  <2> HIDE DEF new, spans, NewText, OldText
  <2>3. ASSUME NEW k \in 1 .. Len(spans)
        PROVE  At(proposed.content, new[k].new, Min(spans[k])) /\ spans[k] = Span(Min(spans[k]), new[k].new)
    <3> DEFINE w == new[k].new
    <3>1. w \in Strings /\ w # <<>> /\ IsNewText(proposed.content, spans[k], w)
      BY <2>1, <2>3
    <3> HIDE DEF w
    <3>2. PICK i \in Nat : spans[k] = Span(i, w) /\ At(proposed.content, w, i)
      BY <3>1 DEF IsNewText
    <3>3. Min(spans[k]) = i
      BY <3>1, <3>2, MinOfSpan
    <3> QED BY <3>2, <3>3 DEF w
  <2>4. ASSUME measured # NoText, after = proposed.content PROVE measured = ToSet(spans)
    <3> DEFINE texts == {replacements[k].new : k \in 1 .. Len(replacements)} \ {<<>>}
               all == UNION {OnlyPlace(after, t) : t \in texts}
               fit == \A t \in texts : OnlyPlace(after, t) # {}
    <3>1. measured = SpansIn(after, replacements)
      BY <2>4 DEF ProjectionInv
    <3>2. SpansIn(after, replacements) =
            CASE replacements = <<>> -> {1 .. Len(after)} [] replacements # <<>> /\ fit -> all
              [] OTHER -> NoText
      BY DEF SpansIn
    <3>3. fit /\ measured = all
      <4> HIDE DEF fit, all
      <4> QED BY <1>1, <2>4, <3>1, <3>2
    <3>4. \A j \in 1 .. Len(new) : new[j].new \in texts
      BY <2>1
    <3>5. \A t \in texts : \E j \in 1 .. Len(new) : new[j].new = t
      BY <2>1
    <3>8. \A t \in texts : OnlyPlace(after, t) # {}
      BY <3>3
    <3>9. spans \in Seq(Spans) /\ new \in Seq(LocatedEdits) /\ Len(spans) = Len(new)
      BY <2>1
    <3> HIDE DEF texts
    <3>6. after \in Strings /\ \A j \in 1 .. Len(new) : IsNewText(after, spans[j], new[j].new)
      BY <2>1, <2>4
    <3>7. all = ToSet(spans)
      BY ONLY ZenonT(40), <3>4, <3>5, <3>6, <3>8, <3>9, SpansAgree
    <3> QED BY <3>3, <3>7
  <2> QED BY <2>1, <2>2, <2>3, <2>4
<1>2. ASSUME matches.looked, ~MayShift(after) PROVE MatchesAreNamed
  <2>1. PICK added \in Added(source, after), inComments \in BOOLEAN :
          matches = [looked |-> TRUE, inComments |-> inComments,
                     at |-> MatchesIn(after, added, inComments)]
    BY <1>2 DEF ProjectionInv, NoMatches
  <2>2. after \in Strings /\ (source # NoText => source \in Strings)
    BY <1>2, ProjectionAssumption DEF ProjectionInv, NoMatches, Written
  <2> DEFINE reported == MatchesIn(after, added, inComments)
  <2>3. /\ \A i \in reported : after[i] = "x" /\ (InLineComment(after, i) => inComments)
        /\ \A i \in 1 .. Len(after) :
             /\ after[i] = "x"
             /\ source = NoText \/ ~Has(source, "x")
             /\ inComments \/ \A j \in 1 .. i : after[j] # "/"
             => i \in reported
    BY <1>2, <2>2, MatchesFit
  <2>4. matches.at = reported /\ matches.inComments = inComments
    BY <2>1
  <2> HIDE DEF reported
  <2> QED BY <2>3, <2>4
<1> HIDE DEF SpansAreNamed, MatchesAreNamed
<1>3. /\ progress \in {"proposed", "measured"} /\ replacements # <<>> /\ proposed # Nothing => SpansAreNamed
      /\ matches.looked /\ ~MayShift(after) => MatchesAreNamed
  BY <1>1, <1>2
<1> QED BY <1>3 DEF OffsetsNameTheirText, SpansAreNamed, MatchesAreNamed

\* The state of a write is well typed, and every span is in its text
\* (Edit.ts:46-80, Projection.ts:160-263).
THEOREM ProjectionTypeCorrect == ProjectionSpec => []ProjectionTypeOK
BY ProjectionInvariant, ProjectionIsTyped, PTL

\* Every offset names the text it is about: the spans of a projected edit, those
\* measured in the final text, and the matches reported (Edit.ts:46-80,
\* Projection.ts:160-263, Matcher.ts:42-120, 283-320), for texts of any length and
\* any number of replacements.
THEOREM OffsetsAreNamed == ProjectionSpec => []OffsetsNameTheirText
BY ProjectionInvariant, OffsetsFit, PTL
=============================================================================
