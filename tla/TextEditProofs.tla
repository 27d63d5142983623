---------------------------- MODULE TextEditProofs ----------------------------
(***************************************************************************)
(* Proofs about the text algorithms of TextEdit, for every text.           *)
(***************************************************************************)
EXTENDS TextEdit, TLAPS, SequenceTheorems, FiniteSetTheorems, WellFoundedInduction

-----------------------------------------------------------------------------
(* Induction, on a set of numbers.                                         *)

\* A set of natural numbers that is not empty has a least element.
LEMMA LeastNumber ==
    ASSUME NEW S, S \subseteq Nat, S # {}
    PROVE  \E n \in S : \A m \in S : n <= m
<1> DEFINE R == {p \in Nat \X Nat : p[1] < p[2]}
<1>1. IsWellFoundedOn(R, Nat)
  BY NatLessThanWellFounded DEF OpToRel
<1>2. PICK x \in S : \A y \in S : ~ (<<y, x>> \in R)
  <2> HIDE DEF R
  <2> QED  BY <1>1, WFMin
<1>3. \A y \in S : ~ (y < x)
  <2> SUFFICES ASSUME NEW y \in S, y < x PROVE FALSE
    OBVIOUS
  <2>1. <<y, x>> \in Nat \X Nat /\ <<y, x>>[1] = y /\ <<y, x>>[2] = x
    OBVIOUS
  <2>2. <<y, x>> \in R
    BY <2>1
  <2> QED  BY <1>2, <2>2
<1> QED  BY <1>3

\* A set that has 0, and with a number the next, has all numbers.
LEMMA NumberInduction ==
    ASSUME NEW S, 0 \in S, \A n \in Nat : n \in S => n + 1 \in S
    PROVE  \A n \in Nat : n \in S
<1> DEFINE Out == {n \in Nat : n \notin S}
<1> SUFFICES ASSUME Out # {} PROVE FALSE
  OBVIOUS
<1>1. PICK n \in Out : \A m \in Out : n <= m
  BY LeastNumber
<1>2. n # 0 /\ n - 1 \in Nat /\ n - 1 \notin Out
  BY <1>1
<1> QED  BY <1>2

-----------------------------------------------------------------------------
(* CountMatches.                                                           *)

\* What the recursive function of CountMatches says of position i.
CountAt(f, text, old, i) ==
    IF i + Len(old) - 1 > Len(text) THEN 0
    ELSE IF OccursAt(text, old, i) THEN 1 + f[i + Len(old)]
    ELSE f[i + 1]

\* f and g have the same numbers for the positions of text after i.
SameAfter(text, i, f, g) ==
    \A m \in 1 .. Len(text) + 1 : m > i => f[m] = g[m] /\ f[m] \in Nat

\* The count from a position depends on the positions after it.
LEMMA CountLooksAhead ==
    ASSUME NEW text \in Text, NEW old \in Text, old # <<>>,
           NEW i \in 1 .. Len(text) + 1, NEW f, NEW g, SameAfter(text, i, f, g)
    PROVE  /\ CountAt(f, text, old, i) = CountAt(g, text, old, i)
           /\ CountAt(f, text, old, i) \in Nat
<1>1. Len(text) \in Nat /\ Len(old) \in Nat /\ Len(old) >= 1
  BY EmptySeq, LenProperties DEF Text
<1>2. CASE i + Len(old) - 1 > Len(text)
  BY <1>2 DEF CountAt
<1>3. CASE i + Len(old) - 1 <= Len(text)
  <2>1. /\ i + Len(old) \in 1 .. Len(text) + 1 /\ i + Len(old) > i
        /\ i + 1 \in 1 .. Len(text) + 1 /\ i + 1 > i
    BY <1>1, <1>3
  <2>2. /\ f[i + Len(old)] = g[i + Len(old)] /\ f[i + Len(old)] \in Nat
        /\ f[i + 1] = g[i + 1] /\ f[i + 1] \in Nat
    BY <2>1 DEF SameAfter
  <2>3. CASE OccursAt(text, old, i)
    BY <1>1, <1>3, <2>2, <2>3 DEF CountAt
  <2>4. CASE ~ OccursAt(text, old, i)
    BY <1>1, <1>3, <2>2, <2>4 DEF CountAt
  <2> QED  BY <2>3, <2>4
<1> QED  BY <1>1, <1>2, <1>3

\* A function that counts from every position on exists, and CountMatches is
\* what it says of the first.
LEMMA CountsExist ==
    ASSUME NEW text \in Text, NEW old \in Text, old # <<>>
    PROVE  \E f \in [1 .. Len(text) + 1 -> Nat] :
              /\ CountMatches(text, old) = f[1]
              /\ \A i \in 1 .. Len(text) + 1 : f[i] = CountAt(f, text, old, i)
<1> DEFINE end == Len(text) + 1
           dom == 1 .. end
           Right(g, n) == \A i \in dom : i > end - n => g[i] = CountAt(g, text, old, i)
           S == {n \in Nat : \E g \in [dom -> Nat] : Right(g, n)}
<1>1. end \in Nat /\ end >= 1 /\ Len(text) \in Nat /\ Len(old) \in Nat /\ Len(old) >= 1
  BY EmptySeq, LenProperties DEF Text
<1>2. 0 \in S
  <2> DEFINE g == [i \in dom |-> 0]
  <2>1. g \in [dom -> Nat] /\ Right(g, 0)
    BY <1>1
  <2> QED  BY <2>1
<1>3. ASSUME NEW n \in Nat, n \in S PROVE n + 1 \in S
  <2>1. PICK g \in [dom -> Nat] : Right(g, n)
    BY <1>3
  <2>2. CASE end - n \in dom
    <3> DEFINE k == end - n
               h == [i \in dom |-> IF i = k THEN CountAt(g, text, old, k) ELSE g[i]]
    <3>1. CountAt(g, text, old, k) \in Nat
      <4>1. SameAfter(text, k, g, g)
        BY <1>1, <2>2 DEF SameAfter
      <4>2. k \in 1 .. Len(text) + 1
        BY <2>2
      <4> HIDE DEF end, dom, k
      <4> QED  BY <4>1, <4>2, CountLooksAhead
    <3>2. h \in [dom -> Nat]
      BY <3>1
    <3>3. ASSUME NEW i \in dom, i >= k PROVE h[i] = CountAt(h, text, old, i)
      <4>1. CountAt(h, text, old, i) = CountAt(g, text, old, i)
        <5>1. \A m \in dom : m > i => h[m] = g[m] /\ h[m] \in Nat
          BY <1>1, <2>2, <3>3
        <5>2. i \in 1 .. Len(text) + 1
          OBVIOUS
        <5>3. SameAfter(text, i, h, g)
          BY <5>1 DEF SameAfter
        <5> HIDE DEF end, dom, h, k, Right, S
        <5> QED  BY <5>2, <5>3, CountLooksAhead
      <4>2. CASE i = k
        <5>1. h[k] = CountAt(g, text, old, k)
          BY <2>2
        <5> HIDE DEF h, k
        <5> QED  BY <4>1, <4>2, <5>1
      <4>3. CASE i # k
        BY <1>1, <2>1, <2>2, <3>3, <4>1, <4>3
      <4> QED  BY <4>2, <4>3
    <3>4. Right(h, n + 1)
      <4> HIDE DEF h
      <4> QED  BY <1>1, <3>3
    <3> HIDE DEF h, Right
    <3> QED  BY <3>2, <3>4
  <2>3. CASE end - n \notin dom
    <3>1. Right(g, n + 1)
      BY <1>1, <2>1, <2>3
    <3> QED  BY <3>1
  <2> QED  BY <2>2, <2>3
<1>4. end \in S
  <2> HIDE DEF S
  <2> QED  BY <1>1, <1>2, <1>3, NumberInduction
<1>5. PICK g \in [dom -> Nat] : Right(g, end)
  BY <1>4
<1>6. g = [i \in dom |-> CountAt(g, text, old, i)]
  BY <1>1, <1>5
<1> DEFINE f == CHOOSE c : c = [i \in dom |-> CountAt(c, text, old, i)]
<1>7. f = [i \in dom |-> CountAt(f, text, old, i)]
  BY <1>6
<1>8. CountMatches(text, old) = f[1]
  BY DEF CountMatches, CountAt
<1> HIDE DEF f
<1>9. f \in [dom -> Nat]
  <2> DEFINE N == {n \in Nat : \A i \in dom : i > end - n => f[i] \in Nat}
  <2>1. 0 \in N
    BY <1>1
  <2>2. ASSUME NEW n \in Nat, n \in N PROVE n + 1 \in N
    <3>1. ASSUME NEW i \in dom, i > end - (n + 1) PROVE f[i] \in Nat
      <4>1. \A m \in dom : m > i => f[m] \in Nat
        BY <1>1, <2>2, <3>1
      <4>2. f[i] = CountAt(f, text, old, i)
        BY <1>7
      <4>3. SameAfter(text, i, f, f) /\ i \in 1 .. Len(text) + 1
        BY <4>1 DEF SameAfter
      <4>4. CountAt(f, text, old, i) \in Nat
        <5> HIDE DEF end, dom, N
        <5> QED  BY <4>3, CountLooksAhead
      <4> QED  BY <4>2, <4>4
    <3> QED  BY <3>1
  <2>3. end \in N
    <3> HIDE DEF N
    <3> QED  BY <1>1, <2>1, <2>2, NumberInduction
  <2>4. \A i \in dom : f[i] \in Nat
    BY <1>1, <2>3
  <2> QED  BY <1>7, <2>4
<1> QED
  BY <1>7, <1>8, <1>9

\* The places of a text at which a string stands, from a position on.
PlacesFrom(text, old, i) == {k \in i .. Len(text) : OccursAt(text, old, k)}

\* Copies of a text that does not overlap itself do not overlap each other.
LEMMA CopiesApart ==
    ASSUME NEW text \in Text, NEW old \in Text, old # <<>>,
           ~ \E n \in 1 .. Len(old) - 1 :
                SubSeq(old, 1, n) = SubSeq(old, Len(old) - n + 1, Len(old)),
           NEW i \in 1 .. Len(text), NEW k \in 1 .. Len(text), i < k,
           OccursAt(text, old, i), OccursAt(text, old, k)
    PROVE  i + Len(old) <= k
<1> SUFFICES ASSUME k < i + Len(old) PROVE FALSE
  BY LenProperties DEF Text
<1> DEFINE length == Len(old)
           n == length - (k - i)
<1>1. /\ length \in Nat /\ Len(text) \in Nat /\ n \in 1 .. length - 1
      /\ i + length - 1 <= Len(text) /\ k + length - 1 <= Len(text)
  BY LenProperties DEF Text, OccursAt
<1>2. \A m \in 1 .. length : old[m] \in Chars
  BY ElementOfSeq DEF Text
<1>3. \A m \in 1 .. Len(text) : text[m] \in Chars
  BY ElementOfSeq DEF Text
<1>4. \A m \in 1 .. length : old[m] = text[i + m - 1]
  <2>1. \A m \in i .. i + length - 1 : text[m] \in Chars
    BY <1>1, <1>3
  <2>2. \A m \in 1 .. length : SubSeq(text, i, i + length - 1)[m] = text[i + m - 1]
    BY <1>1, <2>1, SubSeqProperties
  <2> QED  BY <2>2 DEF OccursAt
<1>5. \A m \in 1 .. length : old[m] = text[k + m - 1]
  <2>1. \A m \in k .. k + length - 1 : text[m] \in Chars
    BY <1>1, <1>3
  <2>2. \A m \in 1 .. length : SubSeq(text, k, k + length - 1)[m] = text[k + m - 1]
    BY <1>1, <2>1, SubSeqProperties
  <2> QED  BY <2>2 DEF OccursAt
<1>6. \A m \in 1 .. n : old[m] = old[length - n + m]
  <2> SUFFICES ASSUME NEW m \in 1 .. n PROVE old[m] = old[length - n + m]
    OBVIOUS
  <2>1. /\ m \in 1 .. length /\ length - n + m \in 1 .. length
        /\ k + m - 1 = i + (length - n + m) - 1
    BY <1>1
  <2>2. old[m] = text[k + m - 1]
    BY <1>5, <2>1
  <2>3. old[length - n + m] = text[i + (length - n + m) - 1]
    BY <1>4, <2>1
  <2> QED  BY <2>1, <2>2, <2>3
<1> DEFINE head == SubSeq(old, 1, n)
           tail == SubSeq(old, length - n + 1, length)
<1>7. /\ head \in Seq(Chars) /\ Len(head) = n
      /\ \A m \in 1 .. n : head[m] = old[m]
  <2>1. \A m \in 1 .. n : old[m] \in Chars
    BY <1>1, <1>2
  <2>2. \A m \in 1 .. n - 1 + 1 : head[m] = old[1 + m - 1]
    BY <1>1, <2>1, SubSeqProperties
  <2> QED  BY <1>1, <2>1, <2>2, SubSeqProperties
<1>8. /\ tail \in Seq(Chars) /\ Len(tail) = n
      /\ \A m \in 1 .. n : tail[m] = old[length - n + m]
  <2>1. \A m \in length - n + 1 .. length : old[m] \in Chars
    BY <1>1, <1>2
  <2>2. \A m \in 1 .. length - (length - n + 1) + 1 :
           tail[m] = old[(length - n + 1) + m - 1]
    BY <1>1, <2>1, SubSeqProperties
  <2>3. Len(tail) = length - (length - n + 1) + 1 /\ tail \in Seq(Chars)
    BY <1>1, <2>1, SubSeqProperties
  <2> QED  BY <1>1, <2>2, <2>3
<1>9. head = tail
  <2> HIDE DEF head, tail
  <2> QED  BY <1>6, <1>7, <1>8, SeqEqual
<1> QED  BY <1>1, <1>9

\* The places of a text are finitely many positions.
LEMMA PlacesFinite ==
    ASSUME NEW text \in Text, NEW old, NEW i \in 1 .. Len(text) + 1
    PROVE  /\ IsFiniteSet(PlacesFrom(text, old, i))
           /\ Cardinality(PlacesFrom(text, old, i)) \in Nat
<1>1. Len(text) \in Nat
  BY LenProperties DEF Text
<1>2. IsFiniteSet(i .. Len(text))
  BY <1>1, FS_Interval
<1>3. PlacesFrom(text, old, i) \subseteq i .. Len(text)
  BY DEF PlacesFrom
<1> QED  BY <1>2, <1>3, FS_Subset, FS_CardinalityType

\* strings.Count counts all places of a string that does not overlap itself.
LEMMA CountIsPlaces ==
    ASSUME NEW text \in Text, NEW old \in Text, old # <<>>,
           ~ \E n \in 1 .. Len(old) - 1 :
                SubSeq(old, 1, n) = SubSeq(old, Len(old) - n + 1, Len(old))
    PROVE  CountMatches(text, old) = Cardinality(PlacesFrom(text, old, 1))
<1> DEFINE end == Len(text) + 1
           dom == 1 .. end
           Places(i) == PlacesFrom(text, old, i)
<1>1. end \in Nat /\ end >= 1 /\ Len(text) \in Nat /\ Len(old) \in Nat /\ Len(old) >= 1
  BY EmptySeq, LenProperties DEF Text
<1>2. PICK f \in [dom -> Nat] :
         /\ CountMatches(text, old) = f[1]
         /\ \A i \in dom : f[i] = CountAt(f, text, old, i)
  BY CountsExist
<1> DEFINE S == {n \in Nat : \A i \in dom : i > end - n => f[i] = Cardinality(Places(i))}
<1>3. 0 \in S
  BY <1>1
<1>4. ASSUME NEW n \in Nat, n \in S PROVE n + 1 \in S
  <2>1. ASSUME NEW i \in dom, i > end - (n + 1) PROVE f[i] = Cardinality(Places(i))
    <3>1. \A m \in dom : m > i => f[m] = Cardinality(Places(m))
      BY <1>1, <1>4, <2>1
    <3>2. f[i] = CountAt(f, text, old, i)
      BY <1>2
    <3>3. CASE i + Len(old) - 1 > Len(text)
      <4>1. Places(i) = {}
        BY <1>1, <3>3 DEF PlacesFrom, OccursAt
      <4>2. f[i] = 0
        BY <3>2, <3>3 DEF CountAt
      <4> HIDE DEF Places
      <4> QED  BY <4>1, <4>2, FS_EmptySet
    <3>4. CASE i + Len(old) - 1 <= Len(text) /\ OccursAt(text, old, i)
      <4>1. i + Len(old) \in dom /\ i + Len(old) > i /\ i \in 1 .. Len(text)
        BY <1>1, <3>4
      <4>2. f[i] = 1 + f[i + Len(old)]
        BY <1>1, <3>2, <3>4 DEF CountAt
      <4>3. \A k \in 1 .. Len(text) : i < k /\ OccursAt(text, old, k) => i + Len(old) <= k
        BY <3>4, <4>1, CopiesApart
      <4>4. Places(i) = Places(i + Len(old)) \cup {i} /\ i \notin Places(i + Len(old))
        BY <1>1, <3>4, <4>1, <4>3 DEF PlacesFrom
      <4>5. IsFiniteSet(Places(i + Len(old))) /\ Cardinality(Places(i + Len(old))) \in Nat
        BY <4>1, PlacesFinite
      <4>6. f[i + Len(old)] = Cardinality(Places(i + Len(old)))
        BY <3>1, <4>1
      <4> HIDE DEF Places
      <4>7. Cardinality(Places(i)) = Cardinality(Places(i + Len(old))) + 1
        BY <4>4, <4>5, FS_AddElement
      <4> QED  BY <4>2, <4>5, <4>6, <4>7
    <3>5. CASE i + Len(old) - 1 <= Len(text) /\ ~ OccursAt(text, old, i)
      <4>1. i + 1 \in dom /\ i + 1 > i /\ i \in 1 .. Len(text)
        BY <1>1, <3>5
      <4>2. f[i] = f[i + 1]
        BY <1>1, <3>2, <3>5 DEF CountAt
      <4>3. Places(i) = Places(i + 1)
        BY <1>1, <3>5, <4>1 DEF PlacesFrom
      <4> HIDE DEF Places
      <4> QED  BY <3>1, <4>1, <4>2, <4>3
    <3> QED  BY <1>1, <3>3, <3>4, <3>5
  <2> HIDE DEF Places
  <2> QED  BY <2>1
<1>5. end \in S
  <2> HIDE DEF S
  <2> QED  BY <1>1, <1>3, <1>4, NumberInduction
<1>6. f[1] = Cardinality(Places(1))
  <2> HIDE DEF Places
  <2> QED  BY <1>1, <1>5
<1> QED  BY <1>2, <1>6

\* What strings.Count counts is there, whether copies overlap or not.
LEMMA CountedIsThere ==
    ASSUME NEW text \in Text, NEW old \in Text, old # <<>>, CountMatches(text, old) # 0
    PROVE  \E k \in 1 .. Len(text) : OccursAt(text, old, k)
<1> DEFINE end == Len(text) + 1
           dom == 1 .. end
<1>1. end \in Nat /\ end >= 1 /\ Len(text) \in Nat /\ Len(old) \in Nat /\ Len(old) >= 1
  BY EmptySeq, LenProperties DEF Text
<1>2. PICK f \in [dom -> Nat] :
         /\ CountMatches(text, old) = f[1]
         /\ \A i \in dom : f[i] = CountAt(f, text, old, i)
  BY CountsExist
<1> SUFFICES ASSUME \A k \in 1 .. Len(text) : ~ OccursAt(text, old, k) PROVE f[1] = 0
  BY <1>2
<1> DEFINE S == {n \in Nat : \A i \in dom : i > end - n => f[i] = 0}
<1>3. 0 \in S
  BY <1>1
<1>4. ASSUME NEW n \in Nat, n \in S PROVE n + 1 \in S
  <2>1. ASSUME NEW i \in dom, i > end - (n + 1) PROVE f[i] = 0
    <3>1. \A m \in dom : m > i => f[m] = 0
      BY <1>1, <1>4, <2>1
    <3>2. f[i] = CountAt(f, text, old, i)
      BY <1>2
    <3>3. CASE i + Len(old) - 1 > Len(text)
      BY <3>2, <3>3 DEF CountAt
    <3>4. CASE i + Len(old) - 1 <= Len(text)
      <4>1. i \in 1 .. Len(text) /\ i + 1 \in dom
        BY <1>1, <3>4
      <4> QED  BY <1>1, <3>1, <3>2, <3>4, <4>1 DEF CountAt
    <3> QED  BY <1>1, <3>3, <3>4
  <2> QED  BY <2>1
<1>5. end \in S
  <2> HIDE DEF S
  <2> QED  BY <1>1, <1>3, <1>4, NumberInduction
<1> QED  BY <1>1, <1>5

\* strings.Replace starts at the first place.
LEMMA FirstMatchIsPlace ==
    ASSUME NEW text \in Text, NEW old,
           NEW k \in 1 .. Len(text), OccursAt(text, old, k)
    PROVE  /\ FirstMatch(text, old) \in 1 .. Len(text)
           /\ OccursAt(text, old, FirstMatch(text, old))
<1> DEFINE S == {i \in 1 .. Len(text) : OccursAt(text, old, i)}
<1>1. Len(text) \in Nat
  BY LenProperties DEF Text
<1>2. S \subseteq Nat /\ S # {}
  BY <1>1
<1>3. PICK i \in S : \A m \in S : i <= m
  <2> HIDE DEF S
  <2> QED  BY <1>2, LeastNumber
<1>4. /\ i \in 1 .. Len(text) /\ OccursAt(text, old, i)
      /\ \A m \in 1 .. i - 1 : ~ OccursAt(text, old, m)
  BY <1>1, <1>3
<1> QED  BY <1>4 DEF FirstMatch

-----------------------------------------------------------------------------
(* Replacing and inserting.                                                *)

\* A part of a text is a text, and its characters are those of the text.
LEMMA PartOfText ==
    ASSUME NEW text \in Text, NEW m \in Int, NEW n \in Int, 1 <= m, n <= Len(text)
    PROVE  /\ SubSeq(text, m, n) \in Text
           /\ Len(SubSeq(text, m, n)) = IF m <= n THEN n - m + 1 ELSE 0
           /\ \A i \in 1 .. n - m + 1 : SubSeq(text, m, n)[i] = text[m + i - 1]
<1>1. \A i \in m .. n : text[i] \in Chars
  BY LenProperties DEF Text
<1> QED  BY <1>1, SubSeqProperties DEF Text

\* Texts that agree on an interval have the same part there.
LEMMA SamePart ==
    ASSUME NEW s \in Text, NEW t \in Text, NEW m \in Int, NEW n \in Int,
           1 <= m, n <= Len(s), n <= Len(t), \A i \in m .. n : s[i] = t[i]
    PROVE  SubSeq(s, m, n) = SubSeq(t, m, n)
<1> DEFINE p == SubSeq(s, m, n)
           q == SubSeq(t, m, n)
<1>1. /\ p \in Text /\ Len(p) = (IF m <= n THEN n - m + 1 ELSE 0)
      /\ \A i \in 1 .. n - m + 1 : p[i] = s[m + i - 1]
  BY PartOfText
<1>2. /\ q \in Text /\ Len(q) = (IF m <= n THEN n - m + 1 ELSE 0)
      /\ \A i \in 1 .. n - m + 1 : q[i] = t[m + i - 1]
  BY PartOfText
<1> HIDE DEF p, q
<1>3. Len(p) = Len(q)
  BY <1>1, <1>2
<1>4. \A i \in 1 .. Len(p) : p[i] = q[i]
  <2> SUFFICES ASSUME NEW i \in 1 .. Len(p) PROVE p[i] = q[i]
    OBVIOUS
  <2>1. i \in 1 .. n - m + 1 /\ m + i - 1 \in m .. n
    BY <1>1
  <2> QED  BY <1>1, <1>2, <2>1
<1>5. p = q
  BY <1>1, <1>2, <1>3, <1>4, SeqEqual DEF Text
<1> QED  BY <1>5 DEF p, q

\* A concatenation begins with the one text and ends with the other.
LEMMA ConcatParts ==
    ASSUME NEW s \in Text, NEW t \in Text
    PROVE  /\ s \o t \in Text /\ Len(s \o t) = Len(s) + Len(t)
           /\ SubSeq(s \o t, 1, Len(s)) = s
           /\ SubSeq(s \o t, Len(s) + 1, Len(s) + Len(t)) = t
<1> DEFINE c == s \o t
<1>1. /\ c \in Text /\ Len(c) = Len(s) + Len(t)
      /\ \A i \in 1 .. Len(s) + Len(t) : c[i] = IF i <= Len(s) THEN s[i] ELSE t[i - Len(s)]
  BY ConcatProperties DEF Text
<1>2. Len(s) \in Nat /\ Len(t) \in Nat
  BY LenProperties DEF Text
<1> HIDE DEF c
<1>3. SubSeq(c, 1, Len(s)) = s
  <2>1. /\ SubSeq(c, 1, Len(s)) \in Text /\ Len(SubSeq(c, 1, Len(s))) = Len(s)
        /\ \A i \in 1 .. Len(s) : SubSeq(c, 1, Len(s))[i] = c[i]
    BY <1>1, <1>2, PartOfText
  <2> QED  BY <1>1, <1>2, <2>1, SeqEqual DEF Text
<1>4. SubSeq(c, Len(s) + 1, Len(s) + Len(t)) = t
  <2> DEFINE p == SubSeq(c, Len(s) + 1, Len(s) + Len(t))
  <2>1. /\ p \in Text /\ Len(p) = Len(t)
        /\ \A i \in 1 .. Len(t) : p[i] = c[Len(s) + 1 + i - 1]
    BY <1>1, <1>2, PartOfText
  <2>2. \A i \in 1 .. Len(t) : p[i] = t[i]
    <3> SUFFICES ASSUME NEW i \in 1 .. Len(t) PROVE p[i] = t[i]
      OBVIOUS
    <3>1. /\ Len(s) + 1 + i - 1 = Len(s) + i /\ Len(s) + i \in 1 .. Len(s) + Len(t)
          /\ ~ (Len(s) + i <= Len(s)) /\ Len(s) + i - Len(s) = i
      BY <1>2
    <3>2. p[i] = c[Len(s) + i]
      BY <2>1, <3>1
    <3> HIDE DEF p
    <3> QED  BY <1>1, <3>1, <3>2
  <2> HIDE DEF p
  <2>3. p = t
    BY <2>1, <2>2, SeqEqual DEF Text
  <2> QED  BY <2>3 DEF p
<1> QED  BY <1>1, <1>3, <1>4 DEF c

\* A text in which one part is replaced is a text, with what was before the
\* part, the new part and what was behind it.
LEMMA Spliced ==
    ASSUME NEW text \in Text, NEW new \in Text,
           NEW i \in 1 .. Len(text) + 1, NEW j \in i .. Len(text) + 1
    PROVE  LET r == SubSeq(text, 1, i - 1) \o new \o SubSeq(text, j, Len(text)) IN
           /\ r \in Text
           /\ SubSeq(r, 1, i - 1) = SubSeq(text, 1, i - 1)
           /\ SubSeq(r, i, i + Len(new) - 1) = new
           /\ SubSeq(r, i + Len(new), Len(r)) = SubSeq(text, j, Len(text))
<1> DEFINE x == SubSeq(text, 1, i - 1)
           y == SubSeq(text, j, Len(text))
           r == (x \o new) \o y
<1>1. Len(text) \in Nat /\ Len(new) \in Nat
  BY LenProperties DEF Text
<1>2. x \in Text /\ Len(x) = i - 1
  BY <1>1, PartOfText
<1>3. y \in Text /\ Len(y) \in Nat
  <2>1. y \in Text
    BY <1>1, PartOfText
  <2> QED  BY <2>1, LenProperties DEF Text
<1> HIDE DEF x, y
<1>4. /\ x \o new \in Text /\ Len(x \o new) = i - 1 + Len(new)
      /\ SubSeq(x \o new, 1, i - 1) = x
      /\ SubSeq(x \o new, i, i + Len(new) - 1) = new
  <2>1. /\ Len(x) + 1 = i /\ Len(x) + Len(new) = i + Len(new) - 1
        /\ Len(x) + Len(new) = i - 1 + Len(new)
    BY <1>1, <1>2
  <2>2. /\ x \o new \in Text /\ Len(x \o new) = Len(x) + Len(new)
        /\ SubSeq(x \o new, 1, Len(x)) = x
        /\ SubSeq(x \o new, Len(x) + 1, Len(x) + Len(new)) = new
    BY <1>2, ConcatParts
  <2> QED  BY <1>2, <2>1, <2>2
<1>5. /\ r \in Text /\ Len(r) = i - 1 + Len(new) + Len(y)
      /\ SubSeq(r, 1, i - 1 + Len(new)) = x \o new
      /\ SubSeq(r, i + Len(new), Len(r)) = y
  <2> DEFINE z == x \o new
  <2>1. Len(z) + 1 = i + Len(new) /\ Len(z) = i - 1 + Len(new) /\ z \in Text
    BY <1>1, <1>4
  <2> HIDE DEF z
  <2>2. /\ z \o y \in Text /\ Len(z \o y) = Len(z) + Len(y)
        /\ SubSeq(z \o y, 1, Len(z)) = z
        /\ SubSeq(z \o y, Len(z) + 1, Len(z) + Len(y)) = y
    BY <1>3, <2>1, ConcatParts
  <2>3. r = z \o y
    BY DEF z
  <2> HIDE DEF r
  <2>4. /\ r \in Text /\ Len(r) = i - 1 + Len(new) + Len(y)
        /\ SubSeq(r, 1, i - 1 + Len(new)) = z
        /\ SubSeq(r, i + Len(new), Len(r)) = y
    BY <2>1, <2>2, <2>3
  <2> QED  BY <2>4 DEF z
<1>6. \A m \in 1 .. i - 1 + Len(new) : r[m] = (x \o new)[m]
  BY <1>1, <1>3, <1>4, ConcatProperties DEF Text
<1> HIDE DEF r
<1>7. SubSeq(r, 1, i - 1) = SubSeq(x \o new, 1, i - 1)
  BY <1>1, <1>3, <1>4, <1>5, <1>6, SamePart
<1>8. SubSeq(r, i, i + Len(new) - 1) = SubSeq(x \o new, i, i + Len(new) - 1)
  BY <1>1, <1>3, <1>4, <1>5, <1>6, SamePart
<1> QED  BY <1>4, <1>5, <1>7, <1>8 DEF r, x, y

\* r is text with new at position i where old was.
ReplacedAt(i, r, text, old, new) ==
    /\ SubSeq(r, 1, i - 1) = SubSeq(text, 1, i - 1)
    /\ SubSeq(r, i, i + Len(new) - 1) = new
    /\ SubSeq(r, i + Len(new), Len(r)) = SubSeq(text, i + Len(old), Len(text))

\* replaceUnique, if it replaces: there is the old text, and the new text is in
\* its place.
LEMMA ReplacedAtMatch ==
    ASSUME NEW text \in Text, NEW old \in Text, NEW new \in Text,
           ReplaceUnique(text, old, new).ok
    PROVE  LET r == ReplaceUnique(text, old, new).text
               i == FirstMatch(text, old)
           IN /\ r \in Text
              /\ i \in 1 .. Len(text) /\ OccursAt(text, old, i)
              /\ ReplacedAt(i, r, text, old, new)
<1> DEFINE i == FirstMatch(text, old)
           r == SubSeq(text, 1, i - 1) \o new \o SubSeq(text, i + Len(old), Len(text))
<1>1. old # <<>> /\ CountMatches(text, old) = 1
  BY DEF ReplaceUnique, Refused
<1>2. ReplaceUnique(text, old, new).text = r
  BY <1>1 DEF ReplaceUnique, Edited
<1>3. i \in 1 .. Len(text) /\ OccursAt(text, old, i)
  <2>1. PICK k \in 1 .. Len(text) : OccursAt(text, old, k)
    BY <1>1, CountedIsThere
  <2> QED  BY <2>1, FirstMatchIsPlace
<1> HIDE DEF i
<1>4. i \in 1 .. Len(text) + 1 /\ i + Len(old) \in i .. Len(text) + 1
  BY <1>3, LenProperties DEF Text, OccursAt
<1>5. /\ r \in Text
      /\ SubSeq(r, 1, i - 1) = SubSeq(text, 1, i - 1)
      /\ SubSeq(r, i, i + Len(new) - 1) = new
      /\ SubSeq(r, i + Len(new), Len(r)) = SubSeq(text, i + Len(old), Len(text))
  <2> DEFINE j == i + Len(old)
  <2> SUFFICES /\ r \in Text
               /\ SubSeq(r, 1, i - 1) = SubSeq(text, 1, i - 1)
               /\ SubSeq(r, i, i + Len(new) - 1) = new
               /\ SubSeq(r, i + Len(new), Len(r)) = SubSeq(text, j, Len(text))
    OBVIOUS
  <2>1. r = SubSeq(text, 1, i - 1) \o new \o SubSeq(text, j, Len(text))
        /\ i \in 1 .. Len(text) + 1 /\ j \in i .. Len(text) + 1
    BY <1>4
  <2> HIDE DEF r, j
  <2> QED  BY <2>1, Spliced
<1>6. i = FirstMatch(text, old)
  BY DEF i
<1> HIDE DEF r
<1>7. ReplacedAt(i, r, text, old, new)
  BY <1>5 DEF ReplacedAt
<1> QED  BY <1>2, <1>3, <1>5, <1>6, <1>7

\* replaceUnique accepts a text if and only if the old text, which does not
\* overlap itself, stands at one place in it.
LEMMA AcceptsOnePlace ==
    ASSUME NEW text \in Text, NEW old \in Text, NEW new, old # <<>>,
           ~ \E n \in 1 .. Len(old) - 1 :
                SubSeq(old, 1, n) = SubSeq(old, Len(old) - n + 1, Len(old))
    PROVE  ReplaceUnique(text, old, new).ok
              <=> Cardinality({i \in 1 .. Len(text) : OccursAt(text, old, i)}) = 1
<1>1. ReplaceUnique(text, old, new).ok <=> CountMatches(text, old) = 1
  BY DEF ReplaceUnique, Refused, Edited
<1> QED  BY <1>1, CountIsPlaces DEF PlacesFrom

-----------------------------------------------------------------------------
(* insertAfterLine.                                                        *)

\* The newlines up to a position.
NewLinesUpTo(text, i) == {h \in NewLines(text) : h <= i}

\* They are counted one by one.
LEMMA NewLinesCounted ==
    ASSUME NEW text \in Text
    PROVE  /\ \A i \in 0 .. Len(text) : Cardinality(NewLinesUpTo(text, i)) \in Nat
           /\ Cardinality(NewLinesUpTo(text, 0)) = 0
           /\ NewLinesUpTo(text, Len(text)) = NewLines(text)
           /\ \A i \in 1 .. Len(text) :
                 Cardinality(NewLinesUpTo(text, i)) =
                    IF i \in NewLines(text) THEN Cardinality(NewLinesUpTo(text, i - 1)) + 1
                    ELSE Cardinality(NewLinesUpTo(text, i - 1))
<1>1. Len(text) \in Nat
  BY LenProperties DEF Text
<1>2. IsFiniteSet(NewLines(text)) /\ NewLines(text) \subseteq 1 .. Len(text)
  <2>1. IsFiniteSet(1 .. Len(text))
    BY <1>1, FS_Interval
  <2> QED  BY <2>1, FS_Subset DEF NewLines
<1>3. \A i : IsFiniteSet(NewLinesUpTo(text, i))
  BY <1>2, FS_Subset DEF NewLinesUpTo
<1>4. \A i : Cardinality(NewLinesUpTo(text, i)) \in Nat
  BY <1>3, FS_CardinalityType
<1>5. NewLinesUpTo(text, 0) = {}
  BY <1>2 DEF NewLinesUpTo
<1>6. NewLinesUpTo(text, Len(text)) = NewLines(text)
  BY <1>1, <1>2 DEF NewLinesUpTo
<1>7. ASSUME NEW i \in 1 .. Len(text)
      PROVE  Cardinality(NewLinesUpTo(text, i)) =
                IF i \in NewLines(text) THEN Cardinality(NewLinesUpTo(text, i - 1)) + 1
                ELSE Cardinality(NewLinesUpTo(text, i - 1))
  <2>1. CASE i \in NewLines(text)
    <3>1. NewLinesUpTo(text, i) = NewLinesUpTo(text, i - 1) \cup {i}
      BY <1>1, <1>2, <2>1 DEF NewLinesUpTo
    <3>2. i \notin NewLinesUpTo(text, i - 1)
      BY DEF NewLinesUpTo
    <3>3. Cardinality(NewLinesUpTo(text, i - 1) \cup {i})
             = Cardinality(NewLinesUpTo(text, i - 1)) + 1
      BY <1>3, <3>2, FS_AddElement
    <3> QED  BY <2>1, <3>1, <3>3
  <2>2. CASE i \notin NewLines(text)
    <3>1. NewLinesUpTo(text, i) = NewLinesUpTo(text, i - 1)
      BY <1>1, <1>2, <2>2 DEF NewLinesUpTo
    <3> QED  BY <2>2, <3>1
  <2> QED  BY <2>1, <2>2
<1> QED  BY <1>4, <1>5, <1>6, <1>7, FS_EmptySet

\* The k-th newline is there.
LEMMA NewLineIsThere ==
    ASSUME NEW text \in Text, NEW k \in 1 .. Cardinality(NewLines(text))
    PROVE  /\ NewLineAt(text, k) \in NewLines(text)
           /\ NewLineAt(text, k) \in 1 .. Len(text)
           /\ Cardinality(NewLinesUpTo(text, NewLineAt(text, k))) = k
<1> DEFINE Far == {i \in 0 .. Len(text) : Cardinality(NewLinesUpTo(text, i)) >= k}
<1>1. Len(text) \in Nat /\ k \in Int /\ k >= 1
  BY LenProperties DEF Text
<1>2. Cardinality(NewLines(text)) >= k
  <2>1. Cardinality(NewLinesUpTo(text, Len(text))) \in Nat
    BY <1>1, NewLinesCounted
  <2>2. Cardinality(NewLines(text)) \in Nat
    BY <2>1, NewLinesCounted
  <2> QED  BY <2>2
<1>3. Len(text) \in Far
  BY <1>1, <1>2, NewLinesCounted
<1>4. PICK i \in Far : \A m \in Far : i <= m
  <2>1. Far \subseteq Nat /\ Far # {}
    BY <1>3
  <2> HIDE DEF Far
  <2> QED  BY <2>1, LeastNumber
<1>5. i \in 1 .. Len(text) /\ Cardinality(NewLinesUpTo(text, i)) >= k
  <2>1. i # 0
    BY <1>1, NewLinesCounted
  <2> QED  BY <2>1
<1>6. i - 1 \in 0 .. Len(text) /\ Cardinality(NewLinesUpTo(text, i - 1)) \in Nat
      /\ ~ (Cardinality(NewLinesUpTo(text, i - 1)) >= k)
  <2>1. i - 1 \in 0 .. Len(text)
    BY <1>1, <1>5
  <2>2. i - 1 \notin Far
    BY <1>4, <2>1
  <2> QED  BY <2>1, <2>2, NewLinesCounted
<1>7. i \in NewLines(text) /\ Cardinality(NewLinesUpTo(text, i)) = k
  <2>1. Cardinality(NewLinesUpTo(text, i)) =
           IF i \in NewLines(text) THEN Cardinality(NewLinesUpTo(text, i - 1)) + 1
           ELSE Cardinality(NewLinesUpTo(text, i - 1))
    BY <1>5, NewLinesCounted
  <2> QED  BY <1>1, <1>5, <1>6, <2>1
<1>8. \E m \in NewLines(text) : Cardinality({h \in NewLines(text) : h <= m}) = k
  BY <1>7 DEF NewLinesUpTo
<1>9. /\ NewLineAt(text, k) \in NewLines(text)
      /\ Cardinality({h \in NewLines(text) : h <= NewLineAt(text, k)}) = k
  BY <1>8 DEF NewLineAt
<1> QED  BY <1>9 DEF NewLinesUpTo, NewLines

\* insertAfterLine refuses, or puts the new text somewhere into the text.
LEMMA InsertedSomewhere ==
    ASSUME NEW text \in Text, NEW line \in Int, NEW new \in Text
    PROVE  \/ InsertAfterLine(text, line, new) = Refused
           \/ \E i \in 0 .. Len(text) : InsertAfterLine(text, line, new)
                 = Edited(SubSeq(text, 1, i) \o new \o SubSeq(text, i + 1, Len(text)))
<1>1. Len(text) \in Nat /\ 0 \in 0 .. Len(text) /\ Len(text) \in 0 .. Len(text)
  BY LenProperties DEF Text
<1>2. line \in 1 .. Cardinality(NewLines(text)) => NewLineAt(text, line) \in 0 .. Len(text)
  BY NewLineIsThere
<1> QED  BY <1>1, <1>2 DEF InsertAfterLine

\* Either way its outcome has a text.
LEMMA InsertedIsText ==
    ASSUME NEW text \in Text, NEW line \in Int, NEW new \in Text
    PROVE  InsertAfterLine(text, line, new).text \in Text
<1>1. CASE InsertAfterLine(text, line, new) = Refused
  BY <1>1, EmptySeq DEF Refused, Text
<1>2. ASSUME NEW i \in 0 .. Len(text),
             InsertAfterLine(text, line, new)
                = Edited(SubSeq(text, 1, i) \o new \o SubSeq(text, i + 1, Len(text)))
      PROVE  InsertAfterLine(text, line, new).text \in Text
  <2> DEFINE j == i + 1
             r == SubSeq(text, 1, j - 1) \o new \o SubSeq(text, j, Len(text))
  <2>1. j \in 1 .. Len(text) + 1 /\ j \in j .. Len(text) + 1 /\ j - 1 = i
    BY LenProperties DEF Text
  <2>2. r \in Text
    <3> HIDE DEF j
    <3> QED  BY <2>1, Spliced
  <2>3. r = SubSeq(text, 1, i) \o new \o SubSeq(text, i + 1, Len(text))
    BY <2>1
  <2> HIDE DEF r
  <2> QED  BY <1>2, <2>2, <2>3 DEF Edited
<1> QED  BY <1>1, <1>2, InsertedSomewhere

-----------------------------------------------------------------------------
(* The bounded buffers.                                                    *)

\* The first, and the last, limit characters of a text.
Beginning(text, limit) == IF Len(text) <= limit THEN text ELSE SubSeq(text, 1, limit)
Ending(text, limit) == IF Len(text) <= limit THEN text
                       ELSE SubSeq(text, Len(text) - limit + 1, Len(text))

\* Of one text that is a part of another, a part is a part of the other.
LEMMA ShiftedPart ==
    ASSUME NEW s \in Text, NEW t \in Text, NEW m \in Int, NEW n \in Int, NEW d \in Int,
           1 <= m, n <= Len(s), 1 <= m + d, n + d <= Len(t),
           \A i \in m .. n : s[i] = t[i + d]
    PROVE  SubSeq(s, m, n) = SubSeq(t, m + d, n + d)
<1> DEFINE p == SubSeq(s, m, n)
           q == SubSeq(t, m + d, n + d)
<1>1. /\ p \in Text /\ Len(p) = (IF m <= n THEN n - m + 1 ELSE 0)
      /\ \A i \in 1 .. n - m + 1 : p[i] = s[m + i - 1]
  BY PartOfText
<1>2. /\ q \in Text /\ Len(q) = (IF m + d <= n + d THEN (n + d) - (m + d) + 1 ELSE 0)
      /\ \A i \in 1 .. (n + d) - (m + d) + 1 : q[i] = t[(m + d) + i - 1]
  BY PartOfText
<1> HIDE DEF p, q
<1>3. Len(p) = Len(q)
  BY <1>1, <1>2
<1>4. \A i \in 1 .. Len(p) : p[i] = q[i]
  <2> SUFFICES ASSUME NEW i \in 1 .. Len(p) PROVE p[i] = q[i]
    OBVIOUS
  <2>1. /\ i \in 1 .. n - m + 1 /\ i \in 1 .. (n + d) - (m + d) + 1
        /\ m + i - 1 \in m .. n /\ (m + d) + i - 1 = (m + i - 1) + d
    BY <1>1
  <2>2. p[i] = s[m + i - 1] /\ q[i] = t[(m + d) + i - 1]
    BY <1>1, <1>2, <2>1
  <2> QED  BY <2>1, <2>2
<1>5. p = q
  BY <1>1, <1>2, <1>3, <1>4, SeqEqual DEF Text
<1> QED  BY <1>5 DEF p, q

\* What fits of p after u is the beginning of both.
LEMMA CutAfter ==
    ASSUME NEW u \in Text, NEW p \in Text, NEW k \in Nat, k <= Len(p)
    PROVE  u \o SubSeq(p, 1, k) = SubSeq(u \o p, 1, Len(u) + k)
<1> DEFINE all == u \o p
           q == SubSeq(p, 1, k)
           uq == u \o q
           end == Len(u) + k
<1>1. Len(u) \in Nat /\ Len(p) \in Nat /\ end \in Nat
  BY LenProperties DEF Text
<1>2. /\ all \in Text /\ Len(all) = Len(u) + Len(p)
      /\ \A i \in 1 .. Len(u) + Len(p) : all[i] = IF i <= Len(u) THEN u[i] ELSE p[i - Len(u)]
  BY ConcatProperties DEF Text
<1>3. /\ q \in Text /\ Len(q) = k
      /\ \A i \in 1 .. k : q[i] = p[i]
  <2>1. /\ q \in Text /\ Len(q) = (IF 1 <= k THEN k - 1 + 1 ELSE 0)
        /\ \A i \in 1 .. k - 1 + 1 : q[i] = p[1 + i - 1]
    BY <1>1, PartOfText
  <2> HIDE DEF q
  <2> QED  BY <2>1
<1>4. /\ uq \in Text /\ Len(uq) = Len(u) + Len(q)
      /\ \A i \in 1 .. Len(u) + Len(q) : uq[i] = IF i <= Len(u) THEN u[i] ELSE q[i - Len(u)]
  <2> HIDE DEF q
  <2> QED  BY <1>3, ConcatProperties DEF Text
<1> HIDE DEF all, q, uq
<1>5. \A i \in 1 .. end : uq[i] = all[i]
  <2> SUFFICES ASSUME NEW i \in 1 .. end PROVE uq[i] = all[i]
    OBVIOUS
  <2>1. i \in 1 .. Len(u) + Len(q) /\ i \in 1 .. Len(u) + Len(p)
    BY <1>1, <1>3
  <2>2. CASE i <= Len(u)
    BY <1>2, <1>4, <2>1, <2>2
  <2>3. CASE ~ (i <= Len(u))
    <3>1. i - Len(u) \in 1 .. k
      BY <1>1, <2>3
    <3> QED  BY <1>2, <1>3, <1>4, <2>1, <2>3, <3>1
  <2> QED  BY <2>2, <2>3
<1>6. end <= Len(uq) /\ end <= Len(all) /\ end = Len(uq)
  BY <1>1, <1>2, <1>3, <1>4
<1>7. SubSeq(uq, 1, end) = SubSeq(all, 1, end)
  <2> HIDE DEF end
  <2> QED  BY <1>1, <1>2, <1>4, <1>5, <1>6, SamePart
<1>8. SubSeq(uq, 1, Len(uq)) = uq
  BY <1>4, SubSeqFull DEF Text
<1>9. uq = SubSeq(all, 1, end)
  <2> HIDE DEF end
  <2> QED  BY <1>6, <1>7, <1>8
<1> QED  BY <1>9 DEF all, uq, q

\* A part of the end of a text is a part of the text.
LEMMA CutBefore ==
    ASSUME NEW s \in Text, NEW p \in Text, NEW d \in Nat, d <= Len(s)
    PROVE  LET e == SubSeq(s, d + 1, Len(s)) IN
           /\ e \o p = SubSeq(s \o p, d + 1, Len(s \o p))
           /\ e \in Text /\ Len(e) = Len(s) - d
<1> DEFINE all == s \o p
           e == SubSeq(s, d + 1, Len(s))
           ep == e \o p
           n == Len(s) - d
<1>1. Len(s) \in Nat /\ Len(p) \in Nat /\ n \in Nat
  BY LenProperties DEF Text
<1>2. /\ all \in Text /\ Len(all) = Len(s) + Len(p)
      /\ \A i \in 1 .. Len(s) + Len(p) : all[i] = IF i <= Len(s) THEN s[i] ELSE p[i - Len(s)]
  BY ConcatProperties DEF Text
<1>3. /\ e \in Text /\ Len(e) = n
      /\ \A i \in 1 .. n : e[i] = s[i + d]
  <2>1. /\ e \in Text /\ Len(e) = (IF d + 1 <= Len(s) THEN Len(s) - (d + 1) + 1 ELSE 0)
        /\ \A i \in 1 .. Len(s) - (d + 1) + 1 : e[i] = s[(d + 1) + i - 1]
    BY <1>1, PartOfText
  <2>2. Len(s) - (d + 1) + 1 = n /\ (~ (d + 1 <= Len(s)) => n = 0)
    BY <1>1
  <2>3. \A i \in 1 .. n : (d + 1) + i - 1 = i + d
    BY <1>1
  <2> HIDE DEF e, n
  <2> QED  BY <2>1, <2>2, <2>3
<1>4. /\ ep \in Text /\ Len(ep) = Len(e) + Len(p)
      /\ \A i \in 1 .. Len(e) + Len(p) : ep[i] = IF i <= Len(e) THEN e[i] ELSE p[i - Len(e)]
  <2> HIDE DEF e
  <2> QED  BY <1>3, ConcatProperties DEF Text
<1> HIDE DEF all, e, ep
<1>5. \A i \in 1 .. Len(ep) : ep[i] = all[i + d]
  <2> SUFFICES ASSUME NEW i \in 1 .. Len(ep) PROVE ep[i] = all[i + d]
    OBVIOUS
  <2>1. i \in 1 .. Len(e) + Len(p) /\ i + d \in 1 .. Len(s) + Len(p)
    BY <1>1, <1>3, <1>4
  <2>2. CASE i <= n
    <3>1. i + d <= Len(s) /\ i \in 1 .. n
      BY <1>1, <2>1, <2>2
    <3> HIDE DEF n
    <3> QED  BY <1>2, <1>3, <1>4, <2>1, <2>2, <3>1
  <2>3. CASE ~ (i <= n)
    <3>1. ~ (i + d <= Len(s)) /\ i + d - Len(s) = i - n
      BY <1>1, <2>1, <2>3
    <3> HIDE DEF n
    <3> QED  BY <1>2, <1>3, <1>4, <2>1, <2>3, <3>1
  <2> QED  BY <2>2, <2>3
<1>6. 1 + d = d + 1 /\ Len(ep) + d = Len(all) /\ Len(ep) \in Int /\ d \in Int /\ 1 <= 1 + d
  BY <1>1, <1>2, <1>3, <1>4
<1>7. SubSeq(ep, 1, Len(ep)) = SubSeq(all, 1 + d, Len(ep) + d)
  BY <1>2, <1>4, <1>5, <1>6, ShiftedPart
<1>8. SubSeq(ep, 1, Len(ep)) = ep
  BY <1>4, SubSeqFull DEF Text
<1>9. ep = SubSeq(all, d + 1, Len(all)) /\ e \in Text /\ Len(e) = Len(s) - d
  BY <1>3, <1>6, <1>7, <1>8
<1> QED  BY <1>9 DEF all, ep, e

\* A part that starts later is a part of the part.
LEMMA EndOfEnd ==
    ASSUME NEW s \in Text, NEW d \in Nat, NEW c \in Nat, d + c <= Len(s)
    PROVE  LET e == SubSeq(s, d + 1, Len(s)) IN
           SubSeq(e, c + 1, Len(e)) = SubSeq(s, d + c + 1, Len(s))
<1> DEFINE e == SubSeq(s, d + 1, Len(s))
           n == Len(s) - d
<1>1. Len(s) \in Nat /\ n \in Nat
  BY LenProperties DEF Text
<1>3. /\ e \in Text /\ Len(e) = n
      /\ \A i \in 1 .. n : e[i] = s[i + d]
  <2>1. /\ e \in Text /\ Len(e) = (IF d + 1 <= Len(s) THEN Len(s) - (d + 1) + 1 ELSE 0)
        /\ \A i \in 1 .. Len(s) - (d + 1) + 1 : e[i] = s[(d + 1) + i - 1]
    BY <1>1, PartOfText
  <2>2. Len(s) - (d + 1) + 1 = n /\ (~ (d + 1 <= Len(s)) => n = 0)
    BY <1>1
  <2>3. \A i \in 1 .. n : (d + 1) + i - 1 = i + d
    BY <1>1
  <2> HIDE DEF e, n
  <2> QED  BY <2>1, <2>2, <2>3
<1> HIDE DEF e
<1>4. /\ c + 1 \in Int /\ n \in Int /\ d \in Int /\ 1 <= c + 1 /\ 1 <= (c + 1) + d
      /\ n + d <= Len(s) /\ n <= Len(e) /\ (c + 1) + d = d + c + 1 /\ n + d = Len(s)
      /\ \A i \in c + 1 .. n : i \in 1 .. n
  BY <1>1, <1>3
<1>5. SubSeq(e, c + 1, n) = SubSeq(s, (c + 1) + d, n + d)
  <2> HIDE DEF n
  <2> QED  BY <1>3, <1>4, ShiftedPart
<1>6. SubSeq(e, c + 1, Len(e)) = SubSeq(s, d + c + 1, Len(s))
  BY <1>3, <1>4, <1>5
<1> QED  BY <1>6 DEF e

\* One write to capBuffer, which never holds more than its limit.
LEMMA CapWriteResult ==
    ASSUME NEW u \in Text, NEW p \in Text, NEW limit \in Nat, NEW t \in BOOLEAN, Len(u) <= limit
    PROVE  CapWrite([buf |-> u, truncated |-> t], limit, p)
              = [buf |-> Beginning(u \o p, limit), truncated |-> t \/ Len(u \o p) > limit]
<1> DEFINE k == limit - Len(u)
           all == u \o p
           cap == CapWrite([buf |-> u, truncated |-> t], limit, p)
<1>1. Len(u) \in Nat /\ Len(p) \in Nat /\ k \in Nat /\ Len(u) + k = limit
  BY LenProperties DEF Text
<1>2. Len(all) = Len(u) + Len(p)
  BY ConcatProperties DEF Text
<1>3. cap = [buf |-> u \o (IF Len(p) <= k THEN p ELSE SubSeq(p, 1, k)),
             truncated |-> t \/ Len(p) > k]
  BY DEF CapWrite
<1> HIDE DEF cap
<1>4. CASE Len(p) <= k
  <2>1. Len(all) <= limit /\ ~ (Len(all) > limit) /\ ~ (Len(p) > k)
    BY <1>1, <1>2, <1>4
  <2> HIDE DEF k
  <2>2. cap = [buf |-> u \o p, truncated |-> t]
    BY <1>3, <1>4, <2>1
  <2>3. Beginning(all, limit) = u \o p
    BY <2>1 DEF Beginning
  <2> HIDE DEF all
  <2>4. cap = [buf |-> Beginning(all, limit), truncated |-> t \/ Len(all) > limit]
    BY <2>1, <2>2, <2>3
  <2> QED  BY <2>4 DEF cap, all
<1>5. CASE ~ (Len(p) <= k)
  <2>1. k <= Len(p) /\ ~ (Len(all) <= limit) /\ Len(all) > limit /\ Len(p) > k
    BY <1>1, <1>2, <1>5
  <2> HIDE DEF k
  <2>2. u \o SubSeq(p, 1, k) = SubSeq(all, 1, limit)
    BY <1>1, <2>1, CutAfter
  <2>3. cap = [buf |-> u \o SubSeq(p, 1, k), truncated |-> TRUE]
    BY <1>3, <1>5, <2>1
  <2>4. Beginning(all, limit) = SubSeq(all, 1, limit)
    BY <2>1 DEF Beginning
  <2> HIDE DEF all
  <2>5. cap = [buf |-> Beginning(all, limit), truncated |-> t \/ Len(all) > limit]
    BY <2>1, <2>2, <2>3, <2>4
  <2> QED  BY <2>5 DEF cap, all
<1> QED  BY <1>4, <1>5

\* One write to tailBuffer.
LEMMA TailWriteResult ==
    ASSUME NEW u \in Text, NEW p \in Text, NEW limit \in Nat, NEW t \in BOOLEAN
    PROVE  TailWrite([buf |-> u, truncated |-> t], limit, p)
              = [buf |-> Ending(u \o p, limit), truncated |-> t \/ Len(u \o p) > limit]
<1> DEFINE all == u \o p
<1>1. Len(all) \in Nat
  BY ConcatProperties, LenProperties DEF Text
<1>2. TailWrite([buf |-> u, truncated |-> t], limit, p)
         = [buf |-> IF Len(all) > limit THEN SubSeq(all, Len(all) - limit + 1, Len(all)) ELSE all,
            truncated |-> t \/ Len(all) > limit]
  BY DEF TailWrite
<1>3. (IF Len(all) > limit THEN SubSeq(all, Len(all) - limit + 1, Len(all)) ELSE all)
         = Ending(all, limit)
  <2> HIDE DEF all
  <2>1. Len(all) > limit <=> ~ (Len(all) <= limit)
    BY <1>1
  <2> QED  BY <2>1 DEF Ending
<1> QED  BY <1>2, <1>3

\* The beginning of a text, or a text with more after it.
LEMMA BeginningProperties ==
    ASSUME NEW s \in Text, NEW p \in Text, NEW limit \in Nat
    PROVE  /\ Beginning(s, limit) \in Text
           /\ Len(Beginning(s, limit)) <= limit
           /\ Beginning(Beginning(s, limit) \o p, limit) = Beginning(s \o p, limit)
           /\ (Len(s) > limit \/ Len(Beginning(s, limit) \o p) > limit) = (Len(s \o p) > limit)
<1> DEFINE all == s \o p
           b == Beginning(s, limit)
<1>1. Len(s) \in Nat /\ Len(p) \in Nat
  BY LenProperties DEF Text
<1>2. all \in Text /\ Len(all) = Len(s) + Len(p)
  BY ConcatProperties DEF Text
<1>3. CASE Len(s) <= limit
  <2>1. b = s
    BY <1>3 DEF Beginning
  <2> HIDE DEF b
  <2>2. ~ (Len(s) > limit)
    BY <1>1, <1>3
  <2>3. b \in Text /\ Len(b) <= limit /\ Beginning(b \o p, limit) = Beginning(s \o p, limit)
        /\ (Len(s) > limit \/ Len(b \o p) > limit) = (Len(s \o p) > limit)
    BY <1>3, <2>1, <2>2
  <2> QED  BY <2>3 DEF b
<1>4. CASE ~ (Len(s) <= limit)
  <2>1. b = SubSeq(s, 1, limit)
    BY <1>4 DEF Beginning
  <2>2. b \in Text /\ Len(b) = limit
    <3>1. /\ SubSeq(s, 1, limit) \in Text
          /\ Len(SubSeq(s, 1, limit)) = IF 1 <= limit THEN limit - 1 + 1 ELSE 0
      BY <1>1, <1>4, PartOfText
    <3> HIDE DEF b
    <3> QED  BY <2>1, <3>1
  <2> DEFINE bp == b \o p
  <2>3. /\ bp \in Text /\ Len(bp) = Len(b) + Len(p)
        /\ SubSeq(bp, 1, Len(b)) = b
    <3> HIDE DEF b
    <3> QED  BY <2>2, ConcatParts
  <2>4. SubSeq(s, 1, limit) = SubSeq(all, 1, limit)
    <3>1. \A i \in 1 .. limit : s[i] = all[i]
      BY <1>1, <1>4, ConcatProperties DEF Text
    <3>2. 1 \in Int /\ limit \in Int /\ limit <= Len(s) /\ limit <= Len(all)
      BY <1>1, <1>2, <1>4
    <3> HIDE DEF all
    <3> QED  BY <1>2, <3>1, <3>2, SamePart
  <2> HIDE DEF b, bp, all
  <2>5. Len(all) > limit /\ ~ (Len(all) <= limit) /\ Len(s) > limit
    BY <1>1, <1>2, <1>4
  <2>6. Beginning(all, limit) = SubSeq(all, 1, limit)
    BY <2>5 DEF Beginning
  <2>7. Beginning(bp, limit) = b
    <3>1. CASE Len(p) = 0
      <4>1. Len(bp) = limit /\ limit <= limit
        BY <2>2, <2>3, <3>1
      <4>2. SubSeq(bp, 1, Len(bp)) = bp
        BY <2>3, SubSeqFull DEF Text
      <4> QED  BY <2>2, <2>3, <4>1, <4>2 DEF Beginning
    <3>2. CASE Len(p) # 0
      <4>1. ~ (Len(bp) <= limit)
        BY <1>1, <2>2, <2>3, <3>2
      <4> QED  BY <2>2, <2>3, <4>1 DEF Beginning
    <3> QED  BY <3>1, <3>2
  <2>8. b \in Text /\ Len(b) <= limit /\ Beginning(bp, limit) = Beginning(all, limit)
        /\ (Len(s) > limit \/ Len(bp) > limit) = (Len(all) > limit)
    <3>1. Len(b) <= limit
      BY <2>2
    <3> QED  BY <2>1, <2>2, <2>4, <2>5, <2>6, <2>7, <3>1
  <2> QED  BY <2>8 DEF b, bp, all
<1> QED  BY <1>3, <1>4

\* The end of a text, or a text with more after it.
LEMMA EndingProperties ==
    ASSUME NEW s \in Text, NEW p \in Text, NEW limit \in Nat
    PROVE  /\ Ending(s, limit) \in Text
           /\ Ending(Ending(s, limit) \o p, limit) = Ending(s \o p, limit)
           /\ (Len(s) > limit \/ Len(Ending(s, limit) \o p) > limit) = (Len(s \o p) > limit)
<1> DEFINE all == s \o p
           e == Ending(s, limit)
<1>1. Len(s) \in Nat /\ Len(p) \in Nat
  BY LenProperties DEF Text
<1>2. all \in Text /\ Len(all) = Len(s) + Len(p)
  BY ConcatProperties DEF Text
<1>3. CASE Len(s) <= limit
  <2>1. e = s
    BY <1>3 DEF Ending
  <2> HIDE DEF e
  <2>2. ~ (Len(s) > limit)
    BY <1>1, <1>3
  <2>3. e \in Text /\ Ending(e \o p, limit) = Ending(s \o p, limit)
        /\ (Len(s) > limit \/ Len(e \o p) > limit) = (Len(s \o p) > limit)
    BY <2>1, <2>2
  <2> QED  BY <2>3 DEF e
<1>4. CASE ~ (Len(s) <= limit)
  <2> DEFINE d == Len(s) - limit
             ep == e \o p
             c == Len(p)
  <2>1. d \in Nat /\ d <= Len(s) /\ d + 1 = Len(s) - limit + 1 /\ d + c <= Len(all)
        /\ Len(s) - d = limit /\ Len(s) > limit
    BY <1>1, <1>2, <1>4
  <2>2. e = SubSeq(s, d + 1, Len(s))
    <3> HIDE DEF d
    <3> QED  BY <1>4, <2>1 DEF Ending
  <2>3. ep = SubSeq(all, d + 1, Len(all)) /\ e \in Text /\ Len(e) = limit
    <3> HIDE DEF d, e
    <3> QED  BY <2>1, <2>2, CutBefore
  <2>4. Len(ep) = Len(e) + Len(p)
    <3> HIDE DEF e
    <3> QED  BY <2>3, ConcatProperties DEF Text
  <2>5. SubSeq(ep, c + 1, Len(ep)) = SubSeq(all, d + c + 1, Len(all))
    <3>1. c \in Nat
      BY <1>1
    <3> HIDE DEF d, ep, c, all
    <3> QED  BY <1>2, <2>1, <2>3, <3>1, EndOfEnd
  <2>6. /\ Len(all) > limit /\ ~ (Len(all) <= limit)
        /\ d + c + 1 = Len(all) - limit + 1 /\ c + 1 = Len(ep) - limit + 1
    <3> HIDE DEF ep, all, e
    <3> QED  BY <1>1, <1>2, <1>4, <2>3, <2>4
  <2>7. Ending(all, limit) = SubSeq(all, d + c + 1, Len(all))
    <3> HIDE DEF all, c, d
    <3> QED  BY <2>6 DEF Ending
  <2>8. Ending(ep, limit) = SubSeq(ep, c + 1, Len(ep))
    <3> HIDE DEF e
    <3>1. CASE c = 0
      <4>1. Len(ep) <= limit /\ c + 1 = 1
        <5> HIDE DEF ep
        <5> QED  BY <2>3, <2>4, <3>1
      <4>2. SubSeq(ep, 1, Len(ep)) = ep
        BY <2>3, ConcatProperties, SubSeqFull DEF Text
      <4> HIDE DEF ep, c
      <4> QED  BY <4>1, <4>2 DEF Ending
    <3>2. CASE c # 0
      <4>1. ~ (Len(ep) <= limit)
        <5> HIDE DEF ep
        <5> QED  BY <1>1, <2>3, <2>4, <3>2
      <4> HIDE DEF ep, c
      <4> QED  BY <2>6, <4>1 DEF Ending
    <3> QED  BY <3>1, <3>2
  <2> HIDE DEF all, e, ep, c, d
  <2>9. e \in Text /\ Ending(ep, limit) = Ending(all, limit)
        /\ (Len(s) > limit \/ Len(ep) > limit) = (Len(all) > limit)
    BY <2>1, <2>3, <2>5, <2>6, <2>7, <2>8
  <2> QED  BY <2>9 DEF all, e, ep
<1> QED  BY <1>3, <1>4

\* However a stream is cut into two writes, capBuffer has its beginning and
\* tailBuffer its end, and truncated says whether that is all of it.
LEMMA TwoWrites ==
    ASSUME NEW text \in Text, NEW limit \in Nat, NEW cut \in 0 .. Len(text)
    PROVE  LET first == SubSeq(text, 1, cut)
               rest == SubSeq(text, cut + 1, Len(text))
           IN /\ CapWrite(CapWrite(EmptyBuffer, limit, first), limit, rest)
                   = [buf |-> Beginning(text, limit), truncated |-> Len(text) > limit]
              /\ TailWrite(TailWrite(EmptyBuffer, limit, first), limit, rest)
                   = [buf |-> Ending(text, limit), truncated |-> Len(text) > limit]
<1> DEFINE first == SubSeq(text, 1, cut)
           rest == SubSeq(text, cut + 1, Len(text))
           b == Beginning(first, limit)
           e == Ending(first, limit)
<1>1. Len(text) \in Nat
  BY LenProperties DEF Text
<1>2. first \in Text /\ rest \in Text
  BY <1>1, PartOfText
<1>3. first \o rest = text
  <2>1. SubSeq(text, 1, Len(text)) = text
    BY SubSeqFull DEF Text
  <2>2. /\ text \in Seq(Chars) /\ 1 \in 1 .. Len(text) + 1
        /\ cut \in 1 - 1 .. Len(text) /\ Len(text) \in cut .. Len(text)
    BY <1>1 DEF Text
  <2>3. first \o rest = SubSeq(text, 1, Len(text))
    BY <2>2, ConcatAdjacentSubSeq
  <2> QED  BY <2>1, <2>3
<1> HIDE DEF first, rest
<1>4. <<>> \in Text /\ Len(<<>>) = 0 /\ <<>> \o first = first /\ Len(<<>>) <= limit
  BY <1>2, ConcatEmptySeq, EmptySeq DEF Text
<1>5. CapWrite(EmptyBuffer, limit, first) = [buf |-> b, truncated |-> Len(first) > limit]
  <2>1. CapWrite([buf |-> <<>>, truncated |-> FALSE], limit, first)
          = [buf |-> Beginning(<<>> \o first, limit),
             truncated |-> FALSE \/ Len(<<>> \o first) > limit]
    BY <1>2, <1>4, CapWriteResult
  <2> QED  BY <1>4, <2>1 DEF EmptyBuffer
<1>6. TailWrite(EmptyBuffer, limit, first) = [buf |-> e, truncated |-> Len(first) > limit]
  <2>1. TailWrite([buf |-> <<>>, truncated |-> FALSE], limit, first)
          = [buf |-> Ending(<<>> \o first, limit),
             truncated |-> FALSE \/ Len(<<>> \o first) > limit]
    BY <1>2, <1>4, TailWriteResult
  <2> QED  BY <1>4, <2>1 DEF EmptyBuffer
<1>7. /\ b \in Text /\ Len(b) <= limit /\ Beginning(b \o rest, limit) = Beginning(text, limit)
      /\ (Len(first) > limit \/ Len(b \o rest) > limit) = (Len(text) > limit)
  BY <1>2, <1>3, BeginningProperties
<1>8. /\ e \in Text /\ Ending(e \o rest, limit) = Ending(text, limit)
      /\ (Len(first) > limit \/ Len(e \o rest) > limit) = (Len(text) > limit)
  BY <1>2, <1>3, EndingProperties
<1> DEFINE over == Len(first) > limit
<1> HIDE DEF b, e
<1>9. over \in BOOLEAN
  OBVIOUS
<1>10. CapWrite([buf |-> b, truncated |-> over], limit, rest)
         = [buf |-> Beginning(text, limit), truncated |-> Len(text) > limit]
  <2> HIDE DEF over
  <2>1. CapWrite([buf |-> b, truncated |-> over], limit, rest)
          = [buf |-> Beginning(b \o rest, limit), truncated |-> over \/ Len(b \o rest) > limit]
    BY <1>2, <1>7, <1>9, CapWriteResult
  <2> QED  BY <1>7, <2>1 DEF over
<1>11. TailWrite([buf |-> e, truncated |-> over], limit, rest)
         = [buf |-> Ending(text, limit), truncated |-> Len(text) > limit]
  <2> HIDE DEF over
  <2>1. TailWrite([buf |-> e, truncated |-> over], limit, rest)
          = [buf |-> Ending(e \o rest, limit), truncated |-> over \/ Len(e \o rest) > limit]
    BY <1>2, <1>8, <1>9, TailWriteResult
  <2> QED  BY <1>8, <2>1 DEF over
<1> QED  BY <1>5, <1>6, <1>10, <1>11 DEF first, rest

-----------------------------------------------------------------------------
(* The lines of a text.                                                    *)

\* Up to a later position there are at least as many newlines, and more if
\* there is one at it.
LEMMA NewLinesGrow ==
    ASSUME NEW text \in Text, NEW i \in 0 .. Len(text), NEW j \in 0 .. Len(text), i < j
    PROVE  /\ Cardinality(NewLinesUpTo(text, i)) <= Cardinality(NewLinesUpTo(text, j))
           /\ j \in NewLines(text) =>
                Cardinality(NewLinesUpTo(text, i)) < Cardinality(NewLinesUpTo(text, j))
<1>1. Len(text) \in Nat
  BY LenProperties DEF Text
<1>2. \A h : IsFiniteSet(NewLinesUpTo(text, h))
  <2>1. IsFiniteSet(1 .. Len(text))
    BY <1>1, FS_Interval
  <2>2. \A h : NewLinesUpTo(text, h) \subseteq 1 .. Len(text)
    BY DEF NewLinesUpTo, NewLines
  <2> QED  BY <2>1, <2>2, FS_Subset
<1>3. \A h, m \in 0 .. Len(text) : h <= m =>
         Cardinality(NewLinesUpTo(text, h)) <= Cardinality(NewLinesUpTo(text, m))
  <2> SUFFICES ASSUME NEW h \in 0 .. Len(text), NEW m \in 0 .. Len(text), h <= m
               PROVE  Cardinality(NewLinesUpTo(text, h)) <= Cardinality(NewLinesUpTo(text, m))
    OBVIOUS
  <2>1. NewLinesUpTo(text, h) \subseteq NewLinesUpTo(text, m)
    BY <1>1 DEF NewLinesUpTo, NewLines
  <2> QED  BY <1>2, <2>1, FS_Subset
<1>4. ASSUME j \in NewLines(text)
      PROVE  Cardinality(NewLinesUpTo(text, i)) < Cardinality(NewLinesUpTo(text, j))
  <2>1. /\ j \in 1 .. Len(text) /\ j - 1 \in 0 .. Len(text) /\ i <= j - 1
    BY <1>1
  <2>2. Cardinality(NewLinesUpTo(text, j)) = Cardinality(NewLinesUpTo(text, j - 1)) + 1
    BY <1>4, <2>1, NewLinesCounted
  <2>3. /\ Cardinality(NewLinesUpTo(text, i)) \in Nat
        /\ Cardinality(NewLinesUpTo(text, j - 1)) \in Nat
        /\ Cardinality(NewLinesUpTo(text, i)) <= Cardinality(NewLinesUpTo(text, j - 1))
    BY <1>3, <2>1, NewLinesCounted
  <2> QED  BY <2>2, <2>3
<1> QED  BY <1>1, <1>3, <1>4

\* The newline up to which there are k is the k-th.
LEMMA NewLineIsOnly ==
    ASSUME NEW text \in Text, NEW j \in NewLines(text)
    PROVE  /\ Cardinality(NewLinesUpTo(text, j)) \in 1 .. Cardinality(NewLines(text))
           /\ NewLineAt(text, Cardinality(NewLinesUpTo(text, j))) = j
<1> DEFINE k == Cardinality(NewLinesUpTo(text, j))
           m == NewLineAt(text, k)
<1>1. Len(text) \in Nat /\ j \in 1 .. Len(text)
  BY LenProperties DEF Text, NewLines
<1>2. /\ 0 \in 0 .. Len(text) /\ j \in 0 .. Len(text) /\ Len(text) \in 0 .. Len(text)
      /\ 0 < j /\ j <= Len(text)
  BY <1>1
<1>3. Cardinality(NewLinesUpTo(text, 0)) = 0 /\ NewLinesUpTo(text, Len(text)) = NewLines(text)
  BY NewLinesCounted
<1>4. k \in Nat /\ Cardinality(NewLines(text)) \in Nat
  BY <1>2, <1>3, NewLinesCounted
<1>5. k >= 1
  <2>1. Cardinality(NewLinesUpTo(text, 0)) < k
    BY <1>2, NewLinesGrow
  <2> QED  BY <1>3, <1>4, <2>1
<1>6. k <= Cardinality(NewLines(text))
  <2>1. CASE j = Len(text)
    BY <1>3, <1>4, <2>1
  <2>2. CASE j # Len(text)
    <3>1. j < Len(text)
      BY <1>2, <2>2
    <3> QED  BY <1>2, <1>3, <3>1, NewLinesGrow
  <2> QED  BY <2>1, <2>2
<1>7. k \in 1 .. Cardinality(NewLines(text))
  BY <1>4, <1>5, <1>6
<1>8. m \in NewLines(text) /\ m \in 1 .. Len(text) /\ Cardinality(NewLinesUpTo(text, m)) = k
  <2> HIDE DEF k
  <2> QED  BY <1>7, NewLineIsThere
<1>9. m = j
  <2> HIDE DEF m
  <2>1. m \in 0 .. Len(text)
    BY <1>8
  <2>2. ASSUME m < j PROVE FALSE
    <3>1. Cardinality(NewLinesUpTo(text, m)) < k
      BY <1>2, <2>1, <2>2, NewLinesGrow
    <3> QED  BY <1>4, <1>8, <3>1
  <2>3. ASSUME j < m PROVE FALSE
    <3>1. k < Cardinality(NewLinesUpTo(text, m))
      BY <1>2, <1>8, <2>1, <2>3, NewLinesGrow
    <3> QED  BY <1>4, <1>8, <3>1
  <2> QED  BY <1>1, <1>8, <2>2, <2>3
<1> QED  BY <1>7, <1>9

\* A text that ends its last line has its last newline at its end.
LEMMA LastNewLine ==
    ASSUME NEW text \in Text, text # <<>>, EndsLine(text)
    PROVE  /\ Cardinality(NewLines(text)) \in Nat \ {0}
           /\ NewLineAt(text, Cardinality(NewLines(text))) = Len(text)
<1>1. Len(text) \in Nat \ {0}
  BY EmptySeq DEF Text
<1>2. Len(text) \in NewLines(text)
  BY <1>1 DEF EndsLine, NewLines
<1>3. NewLinesUpTo(text, Len(text)) = NewLines(text)
  BY NewLinesCounted
<1>4. /\ Cardinality(NewLines(text)) \in 1 .. Cardinality(NewLines(text))
      /\ NewLineAt(text, Cardinality(NewLines(text))) = Len(text)
  BY <1>2, <1>3, NewLineIsOnly
<1>5. Cardinality(NewLines(text)) \in Nat
  <2>1. Len(text) \in 0 .. Len(text)
    BY <1>1
  <2> QED  BY <1>3, <2>1, NewLinesCounted
<1> QED  BY <1>4, <1>5

\* A text has a number of newlines, none when it is empty.
LEMMA NewLinesNumber ==
    ASSUME NEW text \in Text
    PROVE  /\ Cardinality(NewLines(text)) \in Nat
           /\ text = <<>> => Cardinality(NewLines(text)) = 0
<1>1. Len(text) \in Nat /\ Len(text) \in 0 .. Len(text)
  BY LenProperties DEF Text
<1>2. NewLinesUpTo(text, Len(text)) = NewLines(text)
  BY NewLinesCounted
<1>3. ASSUME text = <<>> PROVE Len(text) = 0
  BY <1>3, EmptySeq
<1> QED  BY <1>1, <1>2, <1>3, NewLinesCounted

\* The newlines of a concatenation are those of the one text and, further on,
\* those of the other.
LEMMA ConcatNewLines ==
    ASSUME NEW u \in Text, NEW v \in Text
    PROVE  /\ \A i \in 0 .. Len(u) : NewLinesUpTo(u \o v, i) = NewLinesUpTo(u, i)
           /\ \A i \in 0 .. Len(v) : Cardinality(NewLinesUpTo(u \o v, Len(u) + i))
                 = Cardinality(NewLines(u)) + Cardinality(NewLinesUpTo(v, i))
           /\ Cardinality(NewLines(u \o v)) = Cardinality(NewLines(u)) + Cardinality(NewLines(v))
<1> DEFINE c == u \o v
<1>1. /\ c \in Text /\ Len(c) = Len(u) + Len(v)
      /\ \A i \in 1 .. Len(u) + Len(v) : c[i] = IF i <= Len(u) THEN u[i] ELSE v[i - Len(u)]
  BY ConcatProperties DEF Text
<1>2. Len(u) \in Nat /\ Len(v) \in Nat
  BY LenProperties DEF Text
<1>3. Cardinality(NewLines(u)) \in Nat /\ Cardinality(NewLines(v)) \in Nat
  BY NewLinesNumber
<1> HIDE DEF c
<1>4. \A i \in 1 .. Len(u) : i \in NewLines(c) <=> i \in NewLines(u)
  BY <1>1, <1>2 DEF NewLines
<1>5. \A i \in 1 .. Len(v) : Len(u) + i \in NewLines(c) <=> i \in NewLines(v)
  <2> SUFFICES ASSUME NEW i \in 1 .. Len(v)
               PROVE  Len(u) + i \in NewLines(c) <=> i \in NewLines(v)
    OBVIOUS
  <2>1. /\ Len(u) + i \in 1 .. Len(u) + Len(v) /\ ~ (Len(u) + i <= Len(u))
        /\ (Len(u) + i) - Len(u) = i
    BY <1>2
  <2>2. c[Len(u) + i] = v[i]
    BY <1>1, <2>1
  <2> QED  BY <1>1, <2>1, <2>2 DEF NewLines
<1>6. \A i \in 0 .. Len(u) : NewLinesUpTo(c, i) = NewLinesUpTo(u, i)
  <2> SUFFICES ASSUME NEW i \in 0 .. Len(u), NEW h
               PROVE  h \in NewLinesUpTo(c, i) <=> h \in NewLinesUpTo(u, i)
    OBVIOUS
  <2>1. h \in NewLinesUpTo(c, i) => h \in 1 .. Len(u)
    BY <1>1, <1>2 DEF NewLinesUpTo, NewLines
  <2>2. h \in NewLinesUpTo(u, i) => h \in 1 .. Len(u)
    BY DEF NewLinesUpTo, NewLines
  <2> QED  BY <1>4, <2>1, <2>2 DEF NewLinesUpTo
<1> DEFINE S == {n \in Nat : n <= Len(v) =>
                   Cardinality(NewLinesUpTo(c, Len(u) + n))
                      = Cardinality(NewLines(u)) + Cardinality(NewLinesUpTo(v, n))}
<1>7. 0 \in S
  <2>1. /\ Len(u) \in 0 .. Len(u) /\ Len(u) + 0 = Len(u)
    BY <1>2
  <2>2. NewLinesUpTo(c, Len(u)) = NewLines(u)
    BY <1>6, <2>1, NewLinesCounted
  <2>3. Cardinality(NewLinesUpTo(v, 0)) = 0
    BY NewLinesCounted
  <2> QED  BY <1>3, <2>1, <2>2, <2>3
<1>8. ASSUME NEW n \in Nat, n \in S PROVE n + 1 \in S
  <2> SUFFICES ASSUME n + 1 <= Len(v)
               PROVE  Cardinality(NewLinesUpTo(c, Len(u) + (n + 1)))
                        = Cardinality(NewLines(u)) + Cardinality(NewLinesUpTo(v, n + 1))
    OBVIOUS
  <2> DEFINE i == n + 1
             d == Len(u) + i
  <2>1. /\ i \in 1 .. Len(v) /\ d \in 1 .. Len(c) /\ i - 1 = n /\ d - 1 = Len(u) + n
        /\ n \in 0 .. Len(v)
    BY <1>1, <1>2
  <2>2. Cardinality(NewLinesUpTo(c, Len(u) + n))
           = Cardinality(NewLines(u)) + Cardinality(NewLinesUpTo(v, n))
    BY <1>8, <2>1
  <2>3. d \in NewLines(c) <=> i \in NewLines(v)
    BY <1>5, <2>1
  <2>4. Cardinality(NewLinesUpTo(v, n)) \in Nat
    BY <2>1, NewLinesCounted
  <2> HIDE DEF i, d
  <2>5. Cardinality(NewLinesUpTo(c, d)) =
           IF d \in NewLines(c) THEN Cardinality(NewLinesUpTo(c, d - 1)) + 1
           ELSE Cardinality(NewLinesUpTo(c, d - 1))
    BY <1>1, <2>1, NewLinesCounted
  <2>6. Cardinality(NewLinesUpTo(v, i)) =
           IF i \in NewLines(v) THEN Cardinality(NewLinesUpTo(v, i - 1)) + 1
           ELSE Cardinality(NewLinesUpTo(v, i - 1))
    BY <2>1, NewLinesCounted
  <2>7. Cardinality(NewLinesUpTo(c, d)) = Cardinality(NewLines(u)) + Cardinality(NewLinesUpTo(v, i))
    BY <1>3, <2>1, <2>2, <2>3, <2>4, <2>5, <2>6
  <2> QED  BY <2>7 DEF i, d
<1>9. \A i \in 0 .. Len(v) : Cardinality(NewLinesUpTo(c, Len(u) + i))
         = Cardinality(NewLines(u)) + Cardinality(NewLinesUpTo(v, i))
  <2>1. \A n \in Nat : n \in S
    <3> HIDE DEF S
    <3> QED  BY <1>7, <1>8, NumberInduction
  <2>2. \A i \in 0 .. Len(v) : i \in Nat /\ i <= Len(v)
    BY <1>2
  <2> QED  BY <2>1, <2>2
<1>10. Cardinality(NewLines(c)) = Cardinality(NewLines(u)) + Cardinality(NewLines(v))
  <2>1. NewLinesUpTo(c, Len(u) + Len(v)) = NewLines(c) /\ NewLinesUpTo(v, Len(v)) = NewLines(v)
    BY <1>1, NewLinesCounted
  <2>2. Len(v) \in 0 .. Len(v)
    BY <1>2
  <2>3. Cardinality(NewLinesUpTo(c, Len(u) + Len(v)))
           = Cardinality(NewLines(u)) + Cardinality(NewLinesUpTo(v, Len(v)))
    BY <1>9, <2>2
  <2> QED  BY <2>1, <2>3
<1> QED  BY <1>6, <1>9, <1>10 DEF c

\* So are the positions of the k-th.
LEMMA ConcatNewLineAt ==
    ASSUME NEW u \in Text, NEW v \in Text
    PROVE  /\ \A k \in 1 .. Cardinality(NewLines(u)) :
                 NewLineAt(u \o v, k) = NewLineAt(u, k)
           /\ \A k \in 1 .. Cardinality(NewLines(v)) :
                 NewLineAt(u \o v, Cardinality(NewLines(u)) + k) = Len(u) + NewLineAt(v, k)
<1> DEFINE c == u \o v
<1>1. /\ c \in Text /\ Len(c) = Len(u) + Len(v)
      /\ \A i \in 1 .. Len(u) + Len(v) : c[i] = IF i <= Len(u) THEN u[i] ELSE v[i - Len(u)]
  BY ConcatProperties DEF Text
<1>2. Len(u) \in Nat /\ Len(v) \in Nat
  BY LenProperties DEF Text
<1>3. /\ \A i \in 0 .. Len(u) : NewLinesUpTo(c, i) = NewLinesUpTo(u, i)
      /\ \A i \in 0 .. Len(v) : Cardinality(NewLinesUpTo(c, Len(u) + i))
            = Cardinality(NewLines(u)) + Cardinality(NewLinesUpTo(v, i))
  BY ConcatNewLines
<1> HIDE DEF c
<1>4. ASSUME NEW k \in 1 .. Cardinality(NewLines(u)) PROVE NewLineAt(c, k) = NewLineAt(u, k)
  <2>1. PICK j \in 1 .. Len(u) : /\ j = NewLineAt(u, k) /\ j \in NewLines(u)
                                 /\ Cardinality(NewLinesUpTo(u, j)) = k
    BY NewLineIsThere
  <2>2. j \in 0 .. Len(u) /\ j \in 1 .. Len(u) + Len(v) /\ j <= Len(u)
    BY <1>2
  <2>3. j \in NewLines(c)
    BY <1>1, <2>1, <2>2 DEF NewLines
  <2>4. Cardinality(NewLinesUpTo(c, j)) = k
    BY <1>3, <2>1, <2>2
  <2> QED  BY <1>1, <2>1, <2>3, <2>4, NewLineIsOnly
<1>5. ASSUME NEW k \in 1 .. Cardinality(NewLines(v))
      PROVE  NewLineAt(c, Cardinality(NewLines(u)) + k) = Len(u) + NewLineAt(v, k)
  <2>1. PICK j \in 1 .. Len(v) : /\ j = NewLineAt(v, k) /\ j \in NewLines(v)
                                 /\ Cardinality(NewLinesUpTo(v, j)) = k
    BY NewLineIsThere
  <2>2. /\ j \in 0 .. Len(v) /\ Len(u) + j \in 1 .. Len(u) + Len(v) /\ ~ (Len(u) + j <= Len(u))
        /\ (Len(u) + j) - Len(u) = j
    BY <1>2
  <2>3. Len(u) + j \in NewLines(c)
    BY <1>1, <2>1, <2>2 DEF NewLines
  <2>4. Cardinality(NewLinesUpTo(c, Len(u) + j)) = Cardinality(NewLines(u)) + k
    BY <1>3, <2>1, <2>2
  <2> QED  BY <1>1, <2>1, <2>3, <2>4, NewLineIsOnly
<1> QED  BY <1>4, <1>5 DEF c

\* How many lines a text has, and where the k-th begins and ends.
LineCount(text) ==
    IF EndsLine(text) THEN Cardinality(NewLines(text)) ELSE Cardinality(NewLines(text)) + 1
LineStart(text, k) == IF k = 1 THEN 1 ELSE NewLineAt(text, k - 1) + 1
LineEnd(text, k) ==
    IF k > Cardinality(NewLines(text)) THEN Len(text) ELSE NewLineAt(text, k) - 1

\* splitDisplayLines returns a text for every line.
LEMMA LinesAreTexts ==
    ASSUME NEW text \in Text
    PROVE  /\ LineCount(text) \in Nat
           /\ DisplayLines(text) \in Seq(Text) /\ Len(DisplayLines(text)) = LineCount(text)
           /\ \A k \in 1 .. LineCount(text) :
                 /\ DisplayLines(text)[k] = SubSeq(text, LineStart(text, k), LineEnd(text, k))
                 /\ LineStart(text, k) \in Int /\ LineStart(text, k) >= 1
                 /\ LineEnd(text, k) \in Int /\ LineEnd(text, k) <= Len(text)
<1> DEFINE seen == Cardinality(NewLines(text))
           lines == DisplayLines(text)
           line(k) == SubSeq(text, LineStart(text, k), LineEnd(text, k))
<1>1. Len(text) \in Nat /\ seen \in Nat /\ LineCount(text) \in Nat
      /\ LineCount(text) <= seen + 1
  BY LenProperties, NewLinesNumber DEF Text, LineCount
<1>2. lines = [k \in 1 .. LineCount(text) |-> line(k)]
  BY DEF DisplayLines, LineCount, LineStart, LineEnd
<1>3. ASSUME NEW k \in 1 .. LineCount(text)
      PROVE  /\ LineStart(text, k) \in Int /\ LineStart(text, k) >= 1
             /\ LineEnd(text, k) \in Int /\ LineEnd(text, k) <= Len(text)
             /\ line(k) \in Text
  <2>1. k # 1 => k - 1 \in 1 .. seen
    BY <1>1
  <2>2. ~ (k > seen) => k \in 1 .. seen
    BY <1>1
  <2>3. k # 1 => NewLineAt(text, k - 1) \in 1 .. Len(text)
    BY <2>1, NewLineIsThere
  <2>4. ~ (k > seen) => NewLineAt(text, k) \in 1 .. Len(text)
    BY <2>2, NewLineIsThere
  <2>5. /\ LineStart(text, k) \in Int /\ LineStart(text, k) >= 1
        /\ LineEnd(text, k) \in Int /\ LineEnd(text, k) <= Len(text)
    BY <1>1, <2>3, <2>4 DEF LineStart, LineEnd
  <2> QED  BY <2>5, PartOfText
<1> HIDE DEF line, lines
<1>4. lines \in [1 .. LineCount(text) -> Text]
  BY <1>2, <1>3
<1>5. lines \in Seq(Text)
  BY <1>1, <1>4, SeqDef
<1>6. Len(lines) = LineCount(text)
  BY <1>1, <1>4
<1> QED  BY <1>1, <1>2, <1>3, <1>5, <1>6 DEF lines, line

\* Behind a text that ends its last line, the lines of another are counted on.
LEMMA ConcatLineCount ==
    ASSUME NEW u \in Text, NEW v \in Text, EndsLine(u)
    PROVE  /\ LineCount(u) = Cardinality(NewLines(u))
           /\ LineCount(u \o v) = LineCount(u) + LineCount(v)
           /\ EndsLine(v) => EndsLine(u \o v)
<1> DEFINE c == u \o v
<1>1. /\ c \in Text /\ Len(c) = Len(u) + Len(v)
      /\ \A i \in 1 .. Len(u) + Len(v) : c[i] = IF i <= Len(u) THEN u[i] ELSE v[i - Len(u)]
  BY ConcatProperties DEF Text
<1>2. /\ Cardinality(NewLines(c)) = Cardinality(NewLines(u)) + Cardinality(NewLines(v))
      /\ Cardinality(NewLines(u)) \in Nat /\ Cardinality(NewLines(v)) \in Nat
  BY ConcatNewLines, NewLinesNumber
<1>3. CASE v = <<>>
  <2>1. c = u
    BY <1>3, ConcatEmptySeq DEF Text
  <2>2. EndsLine(v) /\ Cardinality(NewLines(v)) = 0
    BY <1>3, NewLinesNumber DEF EndsLine
  <2> QED  BY <1>2, <2>1, <2>2 DEF LineCount
<1>4. CASE v # <<>>
  <2>1. Len(v) \in Nat \ {0} /\ Len(u) \in Nat
    BY <1>4, EmptySeq, LenProperties DEF Text
  <2>2. /\ Len(u) + Len(v) \in 1 .. Len(u) + Len(v) /\ ~ (Len(u) + Len(v) <= Len(u))
        /\ (Len(u) + Len(v)) - Len(u) = Len(v)
    BY <2>1
  <2>3. c[Len(c)] = v[Len(v)]
    <3> HIDE DEF c
    <3> QED  BY <1>1, <2>2
  <2>4. c # <<>>
    <3> HIDE DEF c
    <3>1. Len(c) # 0
      BY <1>1, <2>1
    <3> QED  BY <3>1, EmptySeq
  <2>5. EndsLine(c) <=> EndsLine(v)
    <3> HIDE DEF c
    <3> QED  BY <1>4, <2>3, <2>4 DEF EndsLine
  <2> HIDE DEF c
  <2>6. LineCount(c) = LineCount(u) + LineCount(v)
    BY <1>2, <2>5 DEF LineCount
  <2> QED  BY <2>5, <2>6 DEF LineCount, c
<1> QED  BY <1>3, <1>4

\* The lines of a text behind one that ends its last line are the lines of the
\* one and then those of the other.
LEMMA ConcatLines ==
    ASSUME NEW u \in Text, NEW v \in Text, EndsLine(u)
    PROVE  DisplayLines(u \o v) = DisplayLines(u) \o DisplayLines(v)
<1> DEFINE c == u \o v
           nu == Cardinality(NewLines(u))
           nv == Cardinality(NewLines(v))
<1>1. /\ c \in Text /\ Len(c) = Len(u) + Len(v)
      /\ \A i \in 1 .. Len(u) + Len(v) : c[i] = IF i <= Len(u) THEN u[i] ELSE v[i - Len(u)]
  BY ConcatProperties DEF Text
<1>2. Len(u) \in Nat /\ Len(v) \in Nat /\ nu \in Nat /\ nv \in Nat
      /\ Cardinality(NewLines(c)) = nu + nv
  BY LenProperties, NewLinesNumber, ConcatNewLines DEF Text
<1>3. LineCount(u) = nu /\ LineCount(c) = nu + LineCount(v) /\ LineCount(v) \in nv .. nv + 1
  BY <1>2, ConcatLineCount DEF LineCount
<1>4. /\ \A k \in 1 .. nu : NewLineAt(c, k) = NewLineAt(u, k)
      /\ \A k \in 1 .. nv : NewLineAt(c, nu + k) = Len(u) + NewLineAt(v, k)
  BY ConcatNewLineAt
<1>5. /\ \A k \in 1 .. nu : NewLineAt(u, k) \in 1 .. Len(u)
      /\ \A k \in 1 .. nv : NewLineAt(v, k) \in 1 .. Len(v)
  BY NewLineIsThere
<1>6. /\ u = <<>> => nu = 0 /\ Len(u) = 0
      /\ u # <<>> => nu # 0 /\ NewLineAt(u, nu) = Len(u)
  BY EmptySeq, NewLinesNumber, LastNewLine
<1> HIDE DEF c, nu, nv
<1>7. ASSUME NEW k \in 1 .. nu
      PROVE  SubSeq(c, LineStart(c, k), LineEnd(c, k)) = SubSeq(u, LineStart(u, k), LineEnd(u, k))
  <2>1. LineStart(c, k) = LineStart(u, k)
    <3>1. k # 1 => k - 1 \in 1 .. nu
      BY <1>2
    <3> QED  BY <1>4, <3>1 DEF LineStart
  <2>2. LineEnd(c, k) = LineEnd(u, k)
    <3>1. ~ (k > nu) /\ ~ (k > nu + nv)
      BY <1>2
    <3> QED  BY <1>2, <1>4, <3>1 DEF LineEnd, nu
  <2> DEFINE m == LineStart(u, k)
             n == LineEnd(u, k)
  <2>3. m \in Int /\ 1 <= m /\ n \in Int /\ n <= Len(u)
    BY <1>3, LinesAreTexts
  <2> HIDE DEF m, n
  <2>4. n <= Len(c) /\ \A i \in m .. n : c[i] = u[i]
    BY <1>1, <1>2, <2>3
  <2>5. SubSeq(c, m, n) = SubSeq(u, m, n)
    BY <1>1, <2>3, <2>4, SamePart
  <2> QED  BY <2>1, <2>2, <2>5 DEF m, n
<1>8. ASSUME NEW k \in 1 .. LineCount(v)
      PROVE  SubSeq(c, LineStart(c, nu + k), LineEnd(c, nu + k))
                = SubSeq(v, LineStart(v, k), LineEnd(v, k))
  <2> DEFINE m == LineStart(v, k)
             n == LineEnd(v, k)
             d == Len(u)
  <2>1. LineStart(c, nu + k) = m + d
    <3>1. CASE k = 1 /\ nu = 0
      <4>1. d = 0 /\ nu + k = 1 /\ m = 1
        BY <1>6, <3>1 DEF LineStart
      <4> QED  BY <4>1 DEF LineStart
    <3>2. CASE k = 1 /\ nu # 0
      <4>1. /\ nu + k # 1 /\ (nu + k) - 1 = nu /\ nu \in 1 .. nu /\ m = 1
        BY <1>2, <3>2 DEF LineStart
      <4>2. NewLineAt(c, nu) = Len(u)
        BY <1>4, <1>6, <3>2, <4>1
      <4> QED  BY <1>2, <4>1, <4>2 DEF LineStart
    <3>3. CASE k # 1
      <4>1. /\ nu + k # 1 /\ (nu + k) - 1 = nu + (k - 1) /\ k - 1 \in 1 .. nv
        BY <1>2, <1>3, <3>3
      <4>2. /\ LineStart(c, nu + k) = NewLineAt(c, nu + (k - 1)) + 1
            /\ m = NewLineAt(v, k - 1) + 1
        BY <3>3, <4>1 DEF LineStart
      <4>3. NewLineAt(v, k - 1) \in 1 .. Len(v)
            /\ NewLineAt(c, nu + (k - 1)) = Len(u) + NewLineAt(v, k - 1)
        BY <1>4, <1>5, <4>1
      <4> QED  BY <1>2, <4>2, <4>3
    <3> QED  BY <3>1, <3>2, <3>3
  <2>2. LineEnd(c, nu + k) = n + d
    <3>1. nu + k > nu + nv <=> k > nv
      BY <1>2, <1>3
    <3>2. CASE k > nv
      BY <1>1, <1>2, <3>1, <3>2 DEF LineEnd, nv
    <3>3. CASE ~ (k > nv)
      <4>1. k \in 1 .. nv
        BY <1>2, <1>3, <3>3
      <4>2. /\ LineEnd(c, nu + k) = NewLineAt(c, nu + k) - 1
            /\ n = NewLineAt(v, k) - 1
        BY <1>2, <3>1, <3>3 DEF LineEnd, nv
      <4>3. NewLineAt(v, k) \in 1 .. Len(v) /\ NewLineAt(c, nu + k) = Len(u) + NewLineAt(v, k)
        BY <1>4, <1>5, <4>1
      <4> QED  BY <1>2, <4>2, <4>3
    <3> QED  BY <3>2, <3>3
  <2>3. m \in Int /\ 1 <= m /\ n \in Int /\ n <= Len(v)
    BY LinesAreTexts
  <2> HIDE DEF m, n
  <2>4. 1 <= m + d /\ n + d <= Len(c) /\ d \in Int
    BY <1>1, <1>2, <2>3
  <2>5. \A i \in m .. n : v[i] = c[i + d]
    <3> SUFFICES ASSUME NEW i \in m .. n PROVE v[i] = c[i + d]
      OBVIOUS
    <3>1. i + d \in 1 .. Len(u) + Len(v) /\ ~ (i + d <= Len(u)) /\ (i + d) - Len(u) = i
      BY <1>2, <2>3
    <3> QED  BY <1>1, <3>1
  <2>6. SubSeq(v, m, n) = SubSeq(c, m + d, n + d)
    <3> HIDE DEF d
    <3> QED  BY <1>1, <2>3, <2>4, <2>5, ShiftedPart
  <2> QED  BY <2>1, <2>2, <2>6 DEF m, n
<1> DEFINE lc == DisplayLines(c)
           lu == DisplayLines(u)
           lv == DisplayLines(v)
<1>9. /\ lc \in Seq(Text) /\ Len(lc) = nu + LineCount(v)
      /\ lu \in Seq(Text) /\ Len(lu) = nu
      /\ lv \in Seq(Text) /\ Len(lv) = LineCount(v)
  BY <1>1, <1>3, LinesAreTexts
<1>10. /\ lu \o lv \in Seq(Text) /\ Len(lu \o lv) = nu + LineCount(v)
       /\ \A k \in 1 .. nu + LineCount(v) :
             (lu \o lv)[k] = IF k <= nu THEN lu[k] ELSE lv[k - nu]
  <2> DEFINE l == lu \o lv
  <2> HIDE DEF lc, lu, lv
  <2>1. /\ l \in Seq(Text) /\ Len(l) = Len(lu) + Len(lv)
        /\ \A k \in 1 .. Len(lu) + Len(lv) :
              l[k] = IF k <= Len(lu) THEN lu[k] ELSE lv[k - Len(lu)]
    BY <1>9, ConcatProperties
  <2> HIDE DEF l
  <2>2. /\ l \in Seq(Text) /\ Len(l) = nu + LineCount(v)
        /\ \A k \in 1 .. nu + LineCount(v) : l[k] = IF k <= nu THEN lu[k] ELSE lv[k - nu]
    BY <1>9, <2>1
  <2> QED  BY <2>2 DEF l
<1>11. \A k \in 1 .. nu + LineCount(v) : lc[k] = (lu \o lv)[k]
  <2> SUFFICES ASSUME NEW k \in 1 .. nu + LineCount(v) PROVE lc[k] = (lu \o lv)[k]
    OBVIOUS
  <2>1. lc[k] = SubSeq(c, LineStart(c, k), LineEnd(c, k))
    BY <1>1, <1>3, LinesAreTexts
  <2>2. CASE k <= nu
    <3>1. k \in 1 .. nu
      BY <2>2
    <3>2. lu[k] = SubSeq(u, LineStart(u, k), LineEnd(u, k))
      BY <1>3, <3>1, LinesAreTexts
    <3> HIDE DEF lc, lu, lv
    <3> QED  BY <1>7, <1>10, <2>1, <2>2, <3>1, <3>2
  <2>3. CASE ~ (k <= nu)
    <3> DEFINE j == k - nu
    <3>1. j \in 1 .. LineCount(v) /\ nu + j = k
      BY <1>2, <1>3, <2>3
    <3> HIDE DEF j
    <3>2. lv[j] = SubSeq(v, LineStart(v, j), LineEnd(v, j))
      BY <3>1, LinesAreTexts
    <3> HIDE DEF lc, lu, lv
    <3>3. lc[k] = lv[j]
      BY <1>8, <2>1, <3>1, <3>2
    <3> QED  BY <1>10, <2>3, <3>3 DEF j
  <2> QED  BY <2>2, <2>3
<1> HIDE DEF lc, lu, lv
<1>12. lc = lu \o lv
  BY <1>9, <1>10, <1>11, SeqEqual
<1> QED  BY <1>12 DEF c, lc, lu, lv

\* Of a concatenation, the parts are the two sequences.
LEMMA ConcatCut ==
    ASSUME NEW S, NEW s \in Seq(S), NEW t \in Seq(S)
    PROVE  /\ SubSeq(s \o t, 1, Len(s)) = s
           /\ SubSeq(s \o t, Len(s) + 1, Len(s \o t)) = t
<1> DEFINE c == s \o t
<1>1. /\ c \in Seq(S) /\ Len(c) = Len(s) + Len(t)
      /\ \A i \in 1 .. Len(s) + Len(t) : c[i] = IF i <= Len(s) THEN s[i] ELSE t[i - Len(s)]
      /\ Len(s) \in Nat /\ Len(t) \in Nat
  BY ConcatProperties, LenProperties
<1> HIDE DEF c
<1>2. SubSeq(c, 1, Len(s)) = s
  <2> DEFINE p == SubSeq(c, 1, Len(s))
  <2>1. \A i \in 1 .. Len(s) : c[i] \in S
    BY <1>1, ElementOfSeq
  <2>2. /\ p \in Seq(S) /\ Len(p) = Len(s)
        /\ \A i \in 1 .. Len(s) : p[i] = c[i]
    BY <1>1, <2>1, SubSeqProperties
  <2> HIDE DEF p
  <2>3. p = s
    BY <1>1, <2>2, SeqEqual
  <2> QED  BY <2>3 DEF p
<1>3. SubSeq(c, Len(s) + 1, Len(c)) = t
  <2> DEFINE m == Len(s) + 1
             n == Len(c)
             p == SubSeq(c, m, n)
  <2>1. m \in Int /\ n \in Int /\ n - m + 1 = Len(t) /\ (m <= n <=> Len(t) # 0)
    BY <1>1
  <2>2. \A i \in m .. n : c[i] \in S
    <3>1. \A i \in m .. n : i \in 1 .. Len(c)
      BY <1>1
    <3> HIDE DEF m, n
    <3> QED  BY <1>1, <3>1, ElementOfSeq
  <2>3. /\ p \in Seq(S) /\ Len(p) = (IF m <= n THEN n - m + 1 ELSE 0)
        /\ \A i \in 1 .. n - m + 1 : p[i] = c[m + i - 1]
    <3> HIDE DEF m, n
    <3> QED  BY <2>1, <2>2, SubSeqProperties
  <2>4. \A i \in 1 .. Len(t) : p[i] = t[i]
    <3> SUFFICES ASSUME NEW i \in 1 .. Len(t) PROVE p[i] = t[i]
      OBVIOUS
    <3>1. /\ i \in 1 .. n - m + 1 /\ m + i - 1 \in 1 .. Len(s) + Len(t)
          /\ ~ (m + i - 1 <= Len(s)) /\ (m + i - 1) - Len(s) = i
      BY <1>1
    <3>2. p[i] = c[m + i - 1]
      BY <2>3, <3>1
    <3> HIDE DEF m, n, p
    <3> QED  BY <1>1, <3>1, <3>2
  <2> HIDE DEF m, n, p
  <2>5. Len(p) = Len(t)
    BY <1>1, <2>1, <2>3
  <2>6. p = t
    BY <2>3, <2>4, <2>5, SeqEqual
  <2> QED  BY <2>6 DEF p, m, n
<1> QED  BY <1>2, <1>3 DEF c

\* A text cut at a position is two texts.
LEMMA CutInTwo ==
    ASSUME NEW text \in Text, NEW i \in 0 .. Len(text)
    PROVE  /\ SubSeq(text, 1, i) \in Text /\ Len(SubSeq(text, 1, i)) = i
           /\ \A h \in 1 .. i : SubSeq(text, 1, i)[h] = text[h]
           /\ SubSeq(text, i + 1, Len(text)) \in Text
           /\ text = SubSeq(text, 1, i) \o SubSeq(text, i + 1, Len(text))
<1> DEFINE first == 1
           next == i + 1
           last == Len(text)
<1>1. /\ first \in Int /\ 1 <= first /\ next \in Int /\ 1 <= next
      /\ i \in Int /\ i <= Len(text) /\ last \in Int /\ last <= Len(text)
      /\ first \in 1 .. Len(text) + 1 /\ i \in first - 1 .. Len(text) /\ last \in i .. Len(text)
  BY LenProperties DEF Text
<1> HIDE DEF next, last
<1>2. /\ SubSeq(text, 1, i) \in Text /\ Len(SubSeq(text, 1, i)) = (IF 1 <= i THEN i - 1 + 1 ELSE 0)
      /\ \A h \in 1 .. i - 1 + 1 : SubSeq(text, 1, i)[h] = text[1 + h - 1]
  BY <1>1, PartOfText
<1>3. SubSeq(text, next, last) \in Text
  BY <1>1, PartOfText
<1>4. SubSeq(text, first, i) \o SubSeq(text, i + 1, last) = SubSeq(text, first, last)
  <2> HIDE DEF first
  <2> QED  BY <1>1, ConcatAdjacentSubSeq DEF Text
<1>5. SubSeq(text, 1, last) = text
  BY SubSeqFull DEF Text, last
<1>6. Len(SubSeq(text, 1, i)) = i /\ \A h \in 1 .. i : SubSeq(text, 1, i)[h] = text[h]
  <2> DEFINE u == SubSeq(text, 1, i)
  <2>1. /\ i - 1 + 1 = i /\ \A h \in 1 .. i : 1 + h - 1 = h
        /\ (IF 1 <= i THEN i - 1 + 1 ELSE 0) = i
    BY <1>1
  <2>2. Len(u) = i /\ \A h \in 1 .. i : u[h] = text[1 + h - 1]
    BY <1>2, <2>1
  <2> HIDE DEF u
  <2>3. Len(u) = i /\ \A h \in 1 .. i : u[h] = text[h]
    BY <2>1, <2>2
  <2> QED  BY <2>3 DEF u
<1>7. text = SubSeq(text, 1, i) \o SubSeq(text, i + 1, Len(text))
  BY <1>4, <1>5 DEF last
<1> QED  BY <1>2, <1>3, <1>6, <1>7 DEF next, last

\* insertAfterLine, when the line in front ends, cuts the text behind that line.
LEMMA CutBetweenLines ==
    ASSUME NEW text \in Text, NEW line \in 0 .. LineCount(text),
           NEW new \in Text, line < LineCount(text) \/ EndsLine(text)
    PROVE  \E u, v \in Text :
              /\ text = u \o v /\ EndsLine(u) /\ LineCount(u) = line
              /\ InsertAfterLine(text, line, new) = Edited(u \o new \o v)
<1> DEFINE seen == Cardinality(NewLines(text))
<1>1. Len(text) \in Nat /\ seen \in Nat /\ line \in Int /\ 0 <= line /\ line <= seen
  <2>1. Len(text) \in Nat /\ seen \in Nat
    BY LenProperties, NewLinesNumber DEF Text
  <2> HIDE DEF seen
  <2>2. LineCount(text) = IF EndsLine(text) THEN seen ELSE seen + 1
    BY DEF LineCount, seen
  <2> QED  BY <2>1, <2>2
<1>2. \E i \in 0 .. Len(text) :
         /\ Cardinality(NewLinesUpTo(text, i)) = line
         /\ i # 0 => text[i] = NewLine
         /\ InsertAfterLine(text, line, new)
               = Edited(SubSeq(text, 1, i) \o new \o SubSeq(text, i + 1, Len(text)))
  <2>1. CASE line = 0
    <3>1. InsertAfterLine(text, line, new)
             = Edited(SubSeq(text, 1, 0) \o new \o SubSeq(text, 0 + 1, Len(text)))
      BY <2>1 DEF InsertAfterLine
    <3>2. 0 \in 0 .. Len(text) /\ Cardinality(NewLinesUpTo(text, 0)) = 0
      BY <1>1, NewLinesCounted
    <3> QED  BY <2>1, <3>1, <3>2
  <2>2. CASE line # 0
    <3>1. line \in 1 .. seen
      BY <1>1, <2>2
    <3>2. PICK i \in 1 .. Len(text) : /\ i = NewLineAt(text, line) /\ i \in NewLines(text)
                                      /\ Cardinality(NewLinesUpTo(text, i)) = line
      BY <3>1, NewLineIsThere
    <3>3. InsertAfterLine(text, line, new)
             = Edited(SubSeq(text, 1, i) \o new \o SubSeq(text, i + 1, Len(text)))
      BY <2>2, <3>1, <3>2 DEF InsertAfterLine
    <3>4. text[i] = NewLine /\ i \in 0 .. Len(text)
      BY <3>2 DEF NewLines
    <3> QED  BY <3>2, <3>3, <3>4
  <2> QED  BY <2>1, <2>2
<1>3. PICK i \in 0 .. Len(text) :
         /\ Cardinality(NewLinesUpTo(text, i)) = line
         /\ i # 0 => text[i] = NewLine
         /\ InsertAfterLine(text, line, new)
               = Edited(SubSeq(text, 1, i) \o new \o SubSeq(text, i + 1, Len(text)))
  BY <1>2
<1> DEFINE u == SubSeq(text, 1, i)
           v == SubSeq(text, i + 1, Len(text))
<1>4. /\ u \in Text /\ Len(u) = i /\ \A h \in 1 .. i : u[h] = text[h]
      /\ v \in Text
  BY CutInTwo
<1>5. text = u \o v
  BY CutInTwo
<1> HIDE DEF u, v
<1>6. EndsLine(u)
  <2>1. CASE i = 0
    BY <1>4, <2>1, EmptySeq DEF EndsLine, Text
  <2>2. CASE i # 0
    <3>1. i \in 1 .. i
      BY <2>2
    <3> QED  BY <1>3, <1>4, <2>2, <3>1 DEF EndsLine
  <2> QED  BY <2>1, <2>2
<1>7. LineCount(u) = line
  <2>1. NewLinesUpTo(u \o v, i) = NewLinesUpTo(u, i)
    <3>1. i \in 0 .. Len(u)
      BY <1>4
    <3> QED  BY <1>4, <3>1, ConcatNewLines
  <2>2. NewLinesUpTo(u, i) = NewLines(u)
    BY <1>4, NewLinesCounted
  <2> QED  BY <1>3, <1>5, <1>6, <2>1, <2>2 DEF LineCount
<1> QED  BY <1>3, <1>4, <1>5, <1>6, <1>7 DEF u, v

\* What is inserted behind a line that ends, and ends its own last line, is
\* shown behind that line, and the other lines are shown as they were.
LEMMA InsertedLinesShown ==
    ASSUME NEW text \in Text, NEW line \in 0 .. LineCount(text),
           line < LineCount(text) \/ EndsLine(text),
           NEW new \in Text, EndsLine(new)
    PROVE  LET after == InsertAfterLine(text, line, new)
               lines == DisplayLines(text)
           IN /\ after.ok /\ after.text \in Text
              /\ DisplayLines(after.text) =
                    SubSeq(lines, 1, line) \o DisplayLines(new)
                       \o SubSeq(lines, line + 1, Len(lines))
              /\ Len(DisplayLines(after.text)) = Len(lines) + Len(DisplayLines(new))
              /\ \A k \in line + 1 .. line + Len(DisplayLines(new)) :
                    DisplayLines(after.text)[k] = DisplayLines(new)[k - line]
<1>1. PICK u \in Text, v \in Text :
         /\ text = u \o v /\ EndsLine(u) /\ LineCount(u) = line
         /\ InsertAfterLine(text, line, new) = Edited(u \o new \o v)
  BY CutBetweenLines
<1> DEFINE r == u \o new \o v
           lu == DisplayLines(u)
           ln == DisplayLines(new)
           lv == DisplayLines(v)
           lt == DisplayLines(text)
           lr == DisplayLines(r)
<1>2. u \o new \in Text /\ r \in Text
  BY ConcatProperties DEF Text
<1>3. lt = lu \o lv
  BY <1>1, ConcatLines
<1>4. lr = (lu \o ln) \o lv
  <2>1. EndsLine(u \o new)
    BY <1>1, ConcatLineCount
  <2>2. DisplayLines(u \o new) = lu \o ln
    BY <1>1, ConcatLines
  <2>3. DisplayLines((u \o new) \o v) = DisplayLines(u \o new) \o lv
    BY <1>2, <2>1, ConcatLines
  <2> QED  BY <2>2, <2>3
<1>5. /\ lu \in Seq(Text) /\ Len(lu) = line
      /\ ln \in Seq(Text) /\ lv \in Seq(Text)
      /\ Len(ln) \in Nat /\ Len(lv) \in Nat /\ line \in Nat
  BY <1>1, LinesAreTexts
<1>6. InsertAfterLine(text, line, new).ok /\ InsertAfterLine(text, line, new).text = r
  BY <1>1 DEF Edited
<1> HIDE DEF lu, ln, lv, lt, lr
<1>7. SubSeq(lt, 1, line) = lu /\ SubSeq(lt, line + 1, Len(lt)) = lv
  BY <1>3, <1>5, ConcatCut
<1>8. /\ lu \o ln \in Seq(Text) /\ Len(lu \o ln) = line + Len(ln)
      /\ \A k \in 1 .. line + Len(ln) :
            (lu \o ln)[k] = IF k <= line THEN lu[k] ELSE ln[k - line]
      /\ Len(lt) = line + Len(lv)
  BY <1>3, <1>5, ConcatProperties
<1>9. /\ Len(lr) = line + Len(ln) + Len(lv)
      /\ \A k \in 1 .. line + Len(ln) + Len(lv) :
            lr[k] = IF k <= line + Len(ln) THEN (lu \o ln)[k] ELSE lv[k - (line + Len(ln))]
  <2> DEFINE w == lu \o ln
  <2>1. w \in Seq(Text) /\ Len(w) = line + Len(ln) /\ lr = w \o lv
    BY <1>4, <1>8
  <2> HIDE DEF w
  <2>2. /\ Len(lr) = Len(w) + Len(lv)
        /\ \A k \in 1 .. Len(w) + Len(lv) :
              lr[k] = IF k <= Len(w) THEN w[k] ELSE lv[k - Len(w)]
    BY <1>5, <2>1, ConcatProperties
  <2> QED  BY <2>1, <2>2 DEF w
<1>10. \A k \in line + 1 .. line + Len(ln) : lr[k] = ln[k - line]
  <2> SUFFICES ASSUME NEW k \in line + 1 .. line + Len(ln) PROVE lr[k] = ln[k - line]
    OBVIOUS
  <2>1. /\ k \in 1 .. line + Len(ln) + Len(lv) /\ k \in 1 .. line + Len(ln)
        /\ k <= line + Len(ln) /\ ~ (k <= line)
    BY <1>5
  <2> QED  BY <1>8, <1>9, <2>1
<1>11. Len(lr) = Len(lt) + Len(ln)
  BY <1>5, <1>8, <1>9
<1> HIDE DEF r
<1> QED  BY <1>2, <1>4, <1>6, <1>7, <1>10, <1>11 DEF lu, ln, lv, lt, lr
===============================================================================
