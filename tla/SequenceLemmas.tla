--------------------------- MODULE SequenceLemmas ---------------------------
(***************************************************************************)
(* Facts about natural numbers and sequences that the proofs of several    *)
(* components need: the least and the greatest element of a set, the       *)
(* elements of a sequence that has grown or shrunk by one.                 *)
(***************************************************************************)
EXTENDS Integers, SequencesExt, FiniteSetTheorems, SequenceTheorems, WellFoundedInduction, TLAPS

\* A non-empty set of natural numbers has a least element.
LEMMA LeastElement ==
  ASSUME NEW S \in SUBSET Nat, S # {}
  PROVE  \E m \in S : \A k \in S : m <= k
<1> DEFINE R == OpToRel(<, Nat)
<1>1. \A x, y \in Nat : <<y, x>> \in R <=> y < x
  BY DEF OpToRel
<1>2. IsWellFoundedOn(R, Nat)
  BY NatLessThanWellFounded
<1> HIDE DEF R
<1>3. PICK m \in S : \A k \in S : ~(<<k, m>> \in R)
  BY <1>2, WFMin
<1>4. ASSUME NEW k \in S PROVE m <= k
  <2>1. k \in Nat /\ m \in Nat /\ ~(k < m)
    BY <1>1, <1>3
  <2> QED BY <2>1
<1> QED BY <1>4

\* Min finds it.
LEMMA MinProperties ==
  ASSUME NEW S \in SUBSET Nat, S # {}
  PROVE  Min(S) \in S /\ Min(S) \in Nat /\ \A k \in S : Min(S) <= k
  BY LeastElement DEF Min

\* A bounded set has a greatest element, and Max finds it.
LEMMA MaxProperties ==
  ASSUME NEW S \in SUBSET Nat, S # {}, NEW n \in Nat, \A k \in S : k <= n
  PROVE  Max(S) \in S /\ Max(S) \in Nat /\ \A k \in S : k <= Max(S)
<1> DEFINE D == {n - k : k \in S}
<1>1. D \in SUBSET Nat /\ D # {}
  <2>1. \A k \in S : n - k \in Nat
    OBVIOUS
  <2> QED BY <2>1
<1>2. PICK m \in D : \A d \in D : m <= d
  BY <1>1, LeastElement
<1>3. PICK g \in S : m = n - g
  OBVIOUS
<1>4. \A k \in S : k <= g
  <2> TAKE k \in S
  <2>1. n - k \in D /\ m <= n - k
    BY <1>2
  <2> QED BY <1>3, <2>1
<1>5. \A k \in S : g >= k
  BY <1>4
<1>6. Max(S) \in S /\ \A k \in S : Max(S) >= k
  BY <1>5 DEF Max
<1> QED BY <1>6

\* A set of natural numbers that holds 0 and the successor of each of its
\* elements below n holds every number up to n.
LEMMA UpTo ==
  ASSUME NEW n \in Nat, NEW S, 0 \in S, \A k \in 0..(n - 1) : k \in S => k + 1 \in S
  PROVE  0..n \subseteq S
<1> SUFFICES ASSUME (0..n) \ S # {} PROVE FALSE
  OBVIOUS
<1>1. (0..n) \ S \in SUBSET Nat
  OBVIOUS
<1>2. PICK m \in (0..n) \ S : \A k \in (0..n) \ S : m <= k
  BY <1>1, LeastElement
<1>3. m # 0 /\ m - 1 \in 0..(n - 1) /\ m - 1 \in 0..n
  OBVIOUS
<1>4. m - 1 \in S
  BY <1>2, <1>3
<1> QED BY <1>3, <1>4

-----------------------------------------------------------------------------
\* The elements of a sequence are its values.
LEMMA RangeIs ==
  ASSUME NEW S, NEW s \in Seq(S)
  PROVE  /\ Range(s) = {s[i] : i \in 1..Len(s)} /\ Range(s) \subseteq S
         /\ \A x : x \in Range(s) <=> \E i \in 1..Len(s) : s[i] = x
<1>1. DOMAIN s = 1..Len(s) /\ \A i \in 1..Len(s) : s[i] \in S
  OBVIOUS
<1> QED BY <1>1 DEF Range

\* A new first element.
LEMMA ConsProperties ==
  ASSUME NEW S, NEW s \in Seq(S), NEW e \in S
  PROVE  /\ <<e>> \o s \in Seq(S) /\ Len(<<e>> \o s) = Len(s) + 1
         /\ \A i \in 1..(Len(s) + 1) : (<<e>> \o s)[i] = IF i = 1 THEN e ELSE s[i - 1]
         /\ Range(<<e>> \o s) = {e} \union Range(s)
<1>1. /\ <<e>> \o s \in Seq(S) /\ Len(<<e>> \o s) = Len(s) + 1
      /\ \A i \in 1..(Len(s) + 1) : (<<e>> \o s)[i] = IF i = 1 THEN e ELSE s[i - 1]
  OBVIOUS
<1> HIDE DEF Range
<1> DEFINE r == <<e>> \o s
<1>2. r[1] = e /\ \A i \in 1..Len(s) : r[i + 1] = s[i]
  BY <1>1
<1>3. \A i \in 2..Len(r) : r[i] = s[i - 1] /\ i - 1 \in 1..Len(s)
  BY <1>1
<1>4. Len(s) \in Nat /\ Len(r) = Len(s) + 1 /\ r \in Seq(S)
  BY <1>1
<1> HIDE DEF r
<1>5. ASSUME NEW x \in Range(r) PROVE x \in {e} \union Range(s)
  <2>1. PICK i \in 1..Len(r) : r[i] = x
    BY <1>4, RangeIs
  <2>2. CASE i = 1
    BY <1>2, <2>1, <2>2
  <2>3. CASE i # 1
    BY <1>3, <1>4, <2>1, <2>3, RangeIs
  <2> QED BY <2>2, <2>3
<1>6. ASSUME NEW x \in {e} \union Range(s) PROVE x \in Range(r)
  <2>1. CASE x = e
    BY <1>2, <1>4, <2>1, RangeIs
  <2>2. CASE x \in Range(s)
    <3>1. PICK i \in 1..Len(s) : s[i] = x
      BY <2>2, RangeIs
    <3>2. i + 1 \in 1..Len(r) /\ r[i + 1] = x
      BY <1>2, <1>4, <3>1
    <3> QED BY <1>4, <3>2, RangeIs
  <2> QED BY <2>1, <2>2
<1> QED BY <1>1, <1>5, <1>6 DEF r

\* A part of a sequence.
LEMMA SubSeqIs ==
  ASSUME NEW S, NEW s \in Seq(S), NEW a \in Int, NEW b \in Int, 1 <= a, b <= Len(s)
  PROVE  /\ SubSeq(s, a, b) \in Seq(S)
         /\ Len(SubSeq(s, a, b)) = IF a <= b THEN b - a + 1 ELSE 0
         /\ \A k \in 1..(b - a + 1) : SubSeq(s, a, b)[k] = s[a + k - 1]
  BY SubSeqProperties

\* One element taken out.
LEMMA RemoveAtProperties ==
  ASSUME NEW S, NEW s \in Seq(S), NEW i \in 1..Len(s)
  PROVE  /\ RemoveAt(s, i) \in Seq(S) /\ Len(RemoveAt(s, i)) = Len(s) - 1
         /\ \A k \in 1..(Len(s) - 1) : RemoveAt(s, i)[k] = IF k < i THEN s[k] ELSE s[k + 1]
<1> DEFINE a == SubSeq(s, 1, i - 1)
           b == SubSeq(s, i + 1, Len(s))
<1>1. Len(s) \in Nat /\ i \in Nat
  OBVIOUS
<1>2. a \in Seq(S) /\ Len(a) = i - 1 /\ \A k \in 1..(i - 1) : a[k] = s[k]
  BY <1>1, SubSeqIs
<1>3. b \in Seq(S) /\ Len(b) = Len(s) - i /\ \A k \in 1..(Len(s) - i) : b[k] = s[i + k]
  BY <1>1, SubSeqIs
<1>4. RemoveAt(s, i) = a \o b
  BY DEF RemoveAt
<1> HIDE DEF a, b
<1>5. a \o b \in Seq(S) /\ Len(a \o b) = Len(s) - 1
  <2>1. a \o b \in Seq(S) /\ Len(a \o b) = Len(a) + Len(b)
    BY <1>2, <1>3, ConcatProperties
  <2> QED BY <1>1, <1>2, <1>3, <2>1
<1>6. ASSUME NEW k \in 1..(Len(s) - 1) PROVE (a \o b)[k] = IF k < i THEN s[k] ELSE s[k + 1]
  <2>1. CASE k < i
    BY <1>1, <1>2, <1>3, <2>1
  <2>2. CASE ~(k < i)
    <3>1. (a \o b)[k] = b[k - (i - 1)]
      BY <1>1, <1>2, <1>3, <2>2
    <3>2. k - (i - 1) \in 1..(Len(s) - i)
      BY <1>1, <2>2
    <3> QED BY <1>1, <1>3, <2>2, <3>1, <3>2
  <2> QED BY <2>1, <2>2
<1> QED BY <1>4, <1>5, <1>6

\* RemoveFirst takes out one occurrence of the element, if there is one; when
\* no other element occurs twice, it takes out nothing else.
LEMMA RemoveFirstProperties ==
  ASSUME NEW S, NEW s \in Seq(S), NEW e
  PROVE  /\ RemoveFirst(s, e) \in Seq(S)
         /\ Range(RemoveFirst(s, e)) \subseteq Range(s)
         /\ Range(s) \ {e} \subseteq Range(RemoveFirst(s, e))
         /\ (\A i, j \in 1..Len(s) : s[i] = e /\ s[j] = e => i = j) => e \notin Range(RemoveFirst(s, e))
         /\ \A x : (\A i, j \in 1..Len(s) : s[i] = x /\ s[j] = x => i = j)
                     => \A i, j \in 1..Len(RemoveFirst(s, e)) :
                          RemoveFirst(s, e)[i] = x /\ RemoveFirst(s, e)[j] = x => i = j
<1> DEFINE r == RemoveFirst(s, e)
           I == {i \in 1..Len(s) : s[i] = e}
<1>1. CASE I = {}
  <2>1. r = s
    BY <1>1 DEF RemoveFirst
  <2>2. e \notin Range(s)
    BY <1>1, RangeIs
  <2> QED BY <2>1, <2>2
<1>2. CASE I # {}
  <2>1. PICK m \in 1..Len(s) : m = Min(I) /\ s[m] = e
    <3>1. I \in SUBSET Nat
      OBVIOUS
    <3> QED BY <1>2, <3>1, MinProperties
  <2>2. r = RemoveAt(s, m)
    BY <1>2, <2>1 DEF RemoveFirst, SelectInSeq
  <2>3. /\ r \in Seq(S) /\ Len(r) = Len(s) - 1
        /\ \A k \in 1..(Len(s) - 1) : r[k] = IF k < m THEN s[k] ELSE s[k + 1]
    BY <2>2, RemoveAtProperties
  <2>4. Len(s) \in Nat /\ m \in Nat
    OBVIOUS
  <2> DEFINE f(k) == IF k < m THEN k ELSE k + 1
  <2>5. \A k \in 1..Len(r) : f(k) \in 1..Len(s) /\ f(k) # m /\ r[k] = s[f(k)]
    BY <2>3, <2>4
  <2>6. \A k \in 1..Len(s) : k # m => \E l \in 1..Len(r) : r[l] = s[k]
    <3> TAKE k \in 1..Len(s)
    <3> HAVE k # m
    <3>1. CASE k < m
      BY <2>3, <2>4, <3>1
    <3>2. CASE ~(k < m)
      <4>1. k - 1 \in 1..(Len(s) - 1) /\ ~(k - 1 < m)
        BY <2>4, <3>2
      <4>2. r[k - 1] = s[k]
        BY <2>3, <2>4, <4>1
      <4> QED BY <2>3, <4>1, <4>2
    <3> QED BY <3>1, <3>2
  <2>7. \A k, l \in 1..Len(r) : f(k) = f(l) => k = l
    BY <2>3, <2>4
  <2> HIDE DEF r, f
  <2>8. Range(r) \subseteq Range(s)
    <3> SUFFICES ASSUME NEW x \in Range(r) PROVE x \in Range(s)
      OBVIOUS
    <3>1. PICK k \in 1..Len(r) : r[k] = x
      BY <2>3, RangeIs
    <3> QED BY <2>5, <3>1, RangeIs
  <2>9. Range(s) \ {e} \subseteq Range(r)
    <3> SUFFICES ASSUME NEW x \in Range(s), x # e PROVE x \in Range(r)
      OBVIOUS
    <3>1. PICK k \in 1..Len(s) : s[k] = x
      BY RangeIs
    <3>2. k # m
      BY <2>1, <3>1
    <3> QED BY <2>3, <2>6, <3>1, <3>2, RangeIs
  <2>10. ASSUME \A i, j \in 1..Len(s) : s[i] = e /\ s[j] = e => i = j, e \in Range(r)
         PROVE  FALSE
    <3>1. PICK k \in 1..Len(r) : r[k] = e
      BY <2>3, <2>10, RangeIs
    <3> QED BY <2>1, <2>5, <2>10, <3>1
  <2>11. ASSUME NEW x, \A i, j \in 1..Len(s) : s[i] = x /\ s[j] = x => i = j,
                NEW i \in 1..Len(r), NEW j \in 1..Len(r), r[i] = x, r[j] = x
         PROVE  i = j
    BY <2>5, <2>7, <2>11
  <2> QED BY <2>3, <2>8, <2>9, <2>10, <2>11 DEF r
<1> QED BY <1>1, <1>2
=============================================================================
