------------------------- MODULE DistinctSequences -------------------------
(***************************************************************************)
(* Lemmas about lists that hold no element twice, which is what the linked *)
(* lists of the code are: the ring of hybrid_list and the buckets of       *)
(* timer_manager.                                                          *)
(***************************************************************************)
EXTENDS Integers, SequencesExt, SequenceTheorems, WellFoundedInduction, TLAPS

\* A list of elements of S, none of them twice.
Distinct(s, S) == s \in Seq(S) /\ \A i, j \in 1..Len(s) : s[i] = s[j] => i = j

\* Linking a new element in before the sentinel.
LEMMA AppendDistinct ==
  ASSUME NEW S, NEW s, Distinct(s, S), NEW e \in S, e \notin ToSet(s)
  PROVE  /\ Distinct(Append(s, e), S)
         /\ ToSet(Append(s, e)) = ToSet(s) \cup {e}
<1> DEFINE r == Append(s, e)
<1>1. /\ s \in Seq(S) /\ Len(s) \in Nat
      /\ r \in Seq(S) /\ Len(r) = Len(s) + 1
      /\ \A i \in 1..Len(s) : r[i] = s[i]
      /\ r[Len(s) + 1] = e
  BY DEF Distinct
<1>2. \A i \in 1..Len(s) : s[i] # e
  BY <1>1 DEF ToSet
<1>3. Distinct(r, S)
  BY <1>1, <1>2 DEF Distinct
<1>4. ToSet(r) = ToSet(s) \cup {e}
  <2>1. DOMAIN r = 1..Len(s) \cup {Len(s) + 1} /\ DOMAIN s = 1..Len(s)
    BY <1>1
  <2> HIDE DEF r
  <2> QED BY <1>1, <2>1 DEF ToSet
<1> QED BY <1>3, <1>4

\* Unlinking the first element.
LEMMA TailDistinct ==
  ASSUME NEW S, NEW s, Distinct(s, S), s # <<>>
  PROVE  /\ Head(s) \in ToSet(s)
         /\ Distinct(Tail(s), S)
         /\ ToSet(Tail(s)) = ToSet(s) \ {Head(s)}
<1> DEFINE r == Tail(s)
<1>1. /\ s \in Seq(S) /\ Len(s) \in Nat /\ Len(s) > 0
      /\ r \in Seq(S) /\ Len(r) = Len(s) - 1
      /\ \A i \in 1..Len(r) : r[i] = s[i + 1]
      /\ Head(s) = s[1]
  BY EmptySeq DEF Distinct
<1>2. Distinct(r, S)
  BY <1>1 DEF Distinct
<1>3. DOMAIN s = 1..Len(s) /\ DOMAIN r = 1..Len(r)
  BY <1>1
<1> HIDE DEF r
<1>4. ASSUME NEW x \in ToSet(s), x # Head(s)
      PROVE  x \in ToSet(r)
  <2>1. PICK i \in 1..Len(s) : s[i] = x
    BY <1>3 DEF ToSet
  <2>2. i - 1 \in 1..Len(r) /\ (i - 1) + 1 = i
    BY <1>1, <1>4, <2>1
  <2>3. r[i - 1] = x
    BY <1>1, <2>1, <2>2
  <2> QED BY <1>3, <2>2, <2>3 DEF ToSet
<1>5. ASSUME NEW x \in ToSet(r)
      PROVE  x \in ToSet(s) /\ x # Head(s)
  <2>1. PICK i \in 1..Len(r) : r[i] = x
    BY <1>3 DEF ToSet
  <2>2. i + 1 \in 1..Len(s) /\ i + 1 # 1 /\ s[i + 1] = x
    BY <1>1, <2>1
  <2>3. 1 \in 1..Len(s)
    BY <1>1
  <2> QED BY <1>1, <1>3, <2>2, <2>3 DEF Distinct, ToSet
<1>6. Head(s) \in ToSet(s)
  BY <1>1, <1>3 DEF ToSet
<1> QED BY <1>2, <1>4, <1>5, <1>6 DEF r

\* The least of a set of naturals.
LEMMA MinIsLeast ==
  ASSUME NEW I \in SUBSET Nat, I # {}
  PROVE  Min(I) \in I /\ \A j \in I : Min(I) =< j
<1> DEFINE R == {ss \in Nat \X Nat : ss[1] < ss[2]}
<1>1. IsWellFoundedOn(R, Nat)
  BY NatLessThanWellFounded DEF OpToRel
<1>2. PICK i \in I : \A j \in I : ~(<<j, i>> \in R)
  <2> HIDE DEF R
  <2> QED BY <1>1, WFMin
<1>3. \A j \in I : i =< j
  <2> TAKE j \in I
  <2>1. i \in Nat /\ j \in Nat /\ ~(j < i)
    BY <1>2
  <2> QED BY <2>1
<1> QED BY <1>3 DEF Min

\* The same, for an induction by least counterexample.
LEMMA LeastOf ==
  ASSUME NEW T \in SUBSET Nat, T # {}
  PROVE  \E i \in T : \A j \in T : ~(j < i)
<1>1. PICK i \in T : \A j \in T : i =< j
  BY MinIsLeast, Zenon
<1>2. i \in Nat /\ \A j \in T : j \in Nat
  BY <1>1
<1> QED BY <1>1, <1>2

\* A list without its element number n.
LEMMA RemoveAtPlaces ==
  ASSUME NEW S, NEW s \in Seq(S), NEW n \in 1..Len(s)
  PROVE  /\ RemoveAt(s, n) \in Seq(S)
         /\ Len(RemoveAt(s, n)) = Len(s) - 1
         /\ \A i \in 1..n - 1 : RemoveAt(s, n)[i] = s[i]
         /\ \A i \in n..Len(s) - 1 : RemoveAt(s, n)[i] = s[i + 1]
<1> DEFINE a == SubSeq(s, 1, n - 1)
           b == SubSeq(s, n + 1, Len(s))
<1>1. Len(s) \in Nat /\ n \in Int /\ n >= 1 /\ n <= Len(s)
  OBVIOUS
<1>2. (\A i \in 1..n - 1 : s[i] \in S) /\ (\A i \in n + 1..Len(s) : s[i] \in S)
  BY <1>1
<1>3. /\ a \in Seq(S)
      /\ Len(a) = IF 1 <= n - 1 THEN n - 1 - 1 + 1 ELSE 0
      /\ \A i \in 1..n - 1 - 1 + 1 : a[i] = s[1 + i - 1]
  BY <1>1, <1>2, SubSeqProperties
<1>4. /\ b \in Seq(S)
      /\ Len(b) = IF n + 1 <= Len(s) THEN Len(s) - (n + 1) + 1 ELSE 0
      /\ \A i \in 1..Len(s) - (n + 1) + 1 : b[i] = s[n + 1 + i - 1]
  BY <1>1, <1>2, SubSeqProperties
<1>5. RemoveAt(s, n) = a \o b
  BY DEF RemoveAt
<1> HIDE DEF a, b
<1>6. Len(a) = n - 1 /\ \A i \in 1..n - 1 : a[i] = s[i]
  BY <1>1, <1>3
<1>7. Len(b) = Len(s) - n /\ \A i \in 1..Len(s) - n : b[i] = s[n + i]
  BY <1>1, <1>4
<1>8. /\ a \o b \in Seq(S) /\ Len(a \o b) = Len(a) + Len(b)
      /\ \A i \in 1..Len(a) + Len(b) : (a \o b)[i] = IF i <= Len(a) THEN a[i] ELSE b[i - Len(a)]
  BY <1>3, <1>4, ConcatProperties
<1>9. ASSUME NEW i \in 1..n - 1
      PROVE  (a \o b)[i] = s[i]
  BY <1>1, <1>6, <1>7, <1>8
<1>10. ASSUME NEW i \in n..Len(s) - 1
       PROVE  (a \o b)[i] = s[i + 1]
  <2>1. /\ i - (n - 1) \in 1..Len(s) - n /\ n + (i - (n - 1)) = i + 1
        /\ i \in 1..Len(a) + Len(b) /\ ~(i <= Len(a))
    BY <1>1, <1>6, <1>7
  <2> QED BY <1>6, <1>7, <1>8, <2>1
<1>11. Len(a) + Len(b) = Len(s) - 1
  BY <1>1, <1>6, <1>7
<1> QED BY <1>5, <1>8, <1>9, <1>10, <1>11, SMTT(60)

\* RemoveFirst removes the element it finds.
LEMMA RemovesOne ==
  ASSUME NEW s, NEW e, Len(s) \in Nat, \E i \in 1..Len(s) : s[i] = e
  PROVE  \E n \in 1..Len(s) : RemoveFirst(s, e) = RemoveAt(s, n) /\ s[n] = e
<1> DEFINE I == {i \in 1..Len(s) : s[i] = e}
<1>1. I # {} /\ I \in SUBSET Nat
  OBVIOUS
<1>2. Min(I) \in I
  BY <1>1, MinIsLeast
<1>3. SelectInSeq(s, LAMBDA v : v = e) = Min(I)
  BY <1>1 DEF SelectInSeq
<1> QED BY <1>2, <1>3 DEF RemoveFirst

\* Unlinking one element.
LEMMA RemoveDistinct ==
  ASSUME NEW S, NEW s, Distinct(s, S), NEW e
  PROVE  /\ Distinct(RemoveFirst(s, e), S)
         /\ ToSet(RemoveFirst(s, e)) = ToSet(s) \ {e}
<1>1. s \in Seq(S) /\ Len(s) \in Nat /\ DOMAIN s = 1..Len(s)
  BY DEF Distinct
<1>2. CASE \E i \in 1..Len(s) : s[i] = e
  <2>1. PICK n \in 1..Len(s) : RemoveFirst(s, e) = RemoveAt(s, n) /\ s[n] = e
    BY <1>1, <1>2, RemovesOne
  <2> DEFINE r == RemoveAt(s, n)
  <2>2. RemoveFirst(s, e) = r
    BY <2>1
  <2>3. /\ r \in Seq(S) /\ Len(r) = Len(s) - 1
        /\ \A i \in 1..n - 1 : r[i] = s[i]
        /\ \A i \in n..Len(s) - 1 : r[i] = s[i + 1]
    BY <1>1, <2>1, RemoveAtPlaces
  <2> HIDE DEF r
  <2>4. Distinct(r, S)
    <3> DEFINE from(i) == IF i < n THEN i ELSE i + 1
    <3>1. \A i \in 1..Len(r) : from(i) \in 1..Len(s) /\ r[i] = s[from(i)]
      BY <1>1, <2>1, <2>3, SMTT(60)
    <3>2. \A i, j \in 1..Len(r) : from(i) = from(j) => i = j
      BY <1>1, <2>1, <2>3
    <3> HIDE DEF from
    <3>3. ASSUME NEW i \in 1..Len(r), NEW j \in 1..Len(r), r[i] = r[j]
          PROVE  i = j
      <4>1. /\ from(i) \in 1..Len(s) /\ from(j) \in 1..Len(s)
            /\ s[from(i)] = s[from(j)]
        BY <3>1, <3>3
      <4>2. from(i) = from(j)
        BY <4>1 DEF Distinct
      <4> QED BY <3>2, <4>2
    <3> QED BY <2>3, <3>3 DEF Distinct
  <2>5. DOMAIN r = 1..Len(s) - 1
    BY <1>1, <2>3
  <2>6. ASSUME NEW x \in ToSet(s), x # e
        PROVE  x \in ToSet(r)
    <3>1. PICK i \in 1..Len(s) : s[i] = x
      BY <1>1 DEF ToSet
    <3>2. CASE i < n
      <4>1. i \in 1..n - 1 /\ i \in 1..Len(s) - 1
        BY <1>1, <2>1, <3>1, <3>2
      <4>2. r[i] = x
        BY <2>3, <3>1, <4>1
      <4> QED BY <2>5, <4>1, <4>2 DEF ToSet
    <3>3. CASE i > n
      <4>1. i - 1 \in n..Len(s) - 1 /\ (i - 1) + 1 = i /\ i - 1 \in 1..Len(s) - 1
        BY <1>1, <2>1, <3>3
      <4>2. r[i - 1] = x
        BY <2>3, <3>1, <4>1
      <4> QED BY <2>5, <4>1, <4>2 DEF ToSet
    <3>4. i # n
      BY <2>1, <2>6, <3>1
    <3> QED BY <2>1, <3>2, <3>3, <3>4
  <2>7. ASSUME NEW x \in ToSet(r)
        PROVE  x \in ToSet(s) /\ x # e
    <3>1. PICK i \in 1..Len(s) - 1 : r[i] = x
      BY <2>5 DEF ToSet
    <3>2. PICK j \in 1..Len(s) : s[j] = x /\ j # n
      <4>1. CASE i < n
        BY <1>1, <2>1, <2>3, <3>1, <4>1
      <4>2. CASE i >= n
        <5>1. i \in n..Len(s) - 1 /\ i + 1 \in 1..Len(s) /\ i + 1 # n
          BY <1>1, <2>1, <4>2
        <5> QED BY <2>3, <3>1, <5>1
      <4> QED BY <2>1, <4>1, <4>2
    <3> QED BY <1>1, <2>1, <3>2 DEF Distinct, ToSet
  <2> QED BY <2>2, <2>4, <2>6, <2>7
<1>3. CASE ~ \E i \in 1..Len(s) : s[i] = e
  BY <1>1, <1>3 DEF RemoveFirst, ToSet
<1> QED BY <1>2, <1>3

\* Unlinking another element than the first.
LEMMA RemoveKeepsHead ==
  ASSUME NEW S, NEW s, Distinct(s, S), s # <<>>, NEW e, e # Head(s)
  PROVE  RemoveFirst(s, e) # <<>> /\ Head(RemoveFirst(s, e)) = Head(s)
<1>1. s \in Seq(S) /\ Len(s) \in Nat /\ Len(s) > 0 /\ Head(s) = s[1]
  BY EmptySeq DEF Distinct
<1>2. CASE \E i \in 1..Len(s) : s[i] = e
  <2>1. PICK n \in 1..Len(s) : RemoveFirst(s, e) = RemoveAt(s, n) /\ s[n] = e
    BY <1>1, <1>2, RemovesOne
  <2>2. n # 1 /\ n > 1
    BY <1>1, <2>1
  <2>3. /\ RemoveAt(s, n) \in Seq(S) /\ Len(RemoveAt(s, n)) = Len(s) - 1
        /\ \A i \in 1..n - 1 : RemoveAt(s, n)[i] = s[i]
    BY <1>1, <2>1, RemoveAtPlaces
  <2>4. RemoveAt(s, n)[1] = s[1] /\ Len(RemoveAt(s, n)) > 0
    BY <1>1, <2>1, <2>2, <2>3
  <2>5. RemoveAt(s, n) # <<>>
    BY <2>4
  <2> QED BY <1>1, <2>1, <2>3, <2>4, <2>5
<1>3. CASE ~ \E i \in 1..Len(s) : s[i] = e
  BY <1>3 DEF RemoveFirst
<1> QED BY <1>2, <1>3

\* What is left after unlinking an element is in the order it was in.
LEMMA RemoveKeepsOrder ==
  ASSUME NEW S, NEW s, Distinct(s, S), NEW e,
         NEW i \in 1..Len(RemoveFirst(s, e)), NEW j \in 1..Len(RemoveFirst(s, e)), i < j
  PROVE  \E k, l \in 1..Len(s) : /\ k < l
                                 /\ s[k] = RemoveFirst(s, e)[i] /\ s[l] = RemoveFirst(s, e)[j]
<1>1. s \in Seq(S) /\ Len(s) \in Nat
  BY DEF Distinct
<1>2. CASE \E n \in 1..Len(s) : s[n] = e
  <2>1. PICK n \in 1..Len(s) : RemoveFirst(s, e) = RemoveAt(s, n)
    BY <1>1, <1>2, RemovesOne
  <2> DEFINE r == RemoveAt(s, n)
             from(m) == IF m < n THEN m ELSE m + 1
  <2>2. /\ Len(r) = Len(s) - 1
        /\ \A m \in 1..n - 1 : r[m] = s[m]
        /\ \A m \in n..Len(s) - 1 : r[m] = s[m + 1]
    BY <1>1, RemoveAtPlaces
  <2> HIDE DEF r
  <2>3. \A m \in 1..Len(r) : from(m) \in 1..Len(s) /\ r[m] = s[from(m)]
    BY <1>1, <2>2
  <2>4. i \in 1..Len(r) /\ j \in 1..Len(r) /\ from(i) < from(j)
    BY <1>1, <2>1, <2>2 DEF r
  <2> QED BY <2>1, <2>3, <2>4 DEF r
<1>3. CASE ~ \E n \in 1..Len(s) : s[n] = e
  BY <1>3 DEF RemoveFirst
<1> QED BY <1>2, <1>3
=============================================================================
