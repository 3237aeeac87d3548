--------------------------- MODULE SequenceLemmas ---------------------------
(***************************************************************************)
(* Lemmas about the operations on sequences that the modules share: the    *)
(* community modules define them, and prove nothing about them.            *)
(***************************************************************************)
EXTENDS SequencesExt, SequenceTheorems, WellFoundedInduction, TLAPS

-----------------------------------------------------------------------------
\* A set of natural numbers that is not empty has a least element.
LEMMA LeastOf ==
  ASSUME NEW I, I \subseteq Nat, I # {}
  PROVE  Min(I) \in I /\ \A j \in I : Min(I) <= j
<1>1. PICK i \in I : \A j \in I : <<j, i>> \notin OpToRel(<, Nat)
  BY NatLessThanWellFounded, WFMin, Zenon
<1>2. \A j \in I : ~(j < i)
  BY <1>1, Zenon DEF OpToRel
<1>3. ASSUME NEW j \in I PROVE i <= j
  <2>1. i \in Nat /\ j \in Nat /\ ~(j < i)
    BY <1>2
  <2> QED BY <2>1
<1> QED BY <1>1, <1>3 DEF Min

\* The greatest element, when it is known.
LEMMA GreatestOf ==
  ASSUME NEW S, S \subseteq Int, NEW m \in S, \A x \in S : m >= x
  PROVE  Max(S) = m
<1>1. \A y \in S : (\A x \in S : y >= x) => y = m
  <2> SUFFICES ASSUME NEW y \in S, \A x \in S : y >= x PROVE y = m
    OBVIOUS
  <2>1. y \in Int /\ m \in Int /\ y >= m /\ m >= y
    OBVIOUS
  <2> QED BY <2>1
<1>2. \E y \in S : \A x \in S : y >= x
  OBVIOUS
<1>3. Max(S) \in S /\ \A x \in S : Max(S) >= x
  BY <1>2 DEF Max
<1> QED BY <1>1, <1>3

\* What holds of 0, and of k + 1 if it holds of k, holds up to n.
LEMMA HoldsUpTo ==
  ASSUME NEW n \in Nat, NEW S, 0 \in S, \A k \in 0..n - 1 : k \in S => k + 1 \in S
  PROVE  \A k \in 0..n : k \in S
<1> DEFINE I == {k \in 0..n : k \notin S}
           m == Min(I)
<1> SUFFICES ASSUME I # {} PROVE FALSE
  OBVIOUS
<1>1. I \subseteq Nat
  OBVIOUS
<1>2. m \in I /\ \A j \in I : m <= j
  <2> HIDE DEF I
  <2> QED BY <1>1, LeastOf
<1> HIDE DEF m
<1>3. m # 0 /\ m \in 0..n /\ m \notin S
  BY <1>2
<1>4. m - 1 \in 0..n - 1 /\ m - 1 \notin I
  BY <1>2, <1>3
<1>5. (m - 1) + 1 \in S
  BY <1>4
<1> QED BY <1>3, <1>5

-----------------------------------------------------------------------------
\* InsertAt moves what is at the position and behind it by one.
LEMMA InsertAtProperties ==
  ASSUME NEW T, NEW s \in Seq(T), NEW t \in T, NEW k \in 1..Len(s) + 1
  PROVE  /\ InsertAt(s, k, t) \in Seq(T)
         /\ Len(InsertAt(s, k, t)) = Len(s) + 1
         /\ \A i \in 1..Len(s) + 1 : InsertAt(s, k, t)[i] =
              IF i < k THEN s[i] ELSE IF i = k THEN t ELSE s[i - 1]
<1> DEFINE a == SubSeq(s, 1, k - 1)
           b == SubSeq(s, k, Len(s))
<1>0. Len(s) \in Nat /\ \A i \in 1..Len(s) : s[i] \in T
  BY ElementOfSeq, LenProperties
<1>1. a \in Seq(T) /\ Len(a) = k - 1 /\ \A i \in 1..k - 1 : a[i] = s[i]
  <2>1. \A i \in 1..k - 1 : s[i] \in T
    BY <1>0
  <2> QED
    BY <2>1, <1>0, SubSeqProperties, k - 1 \in Int, 1 \in Int
<1>2. /\ b \in Seq(T) /\ Len(b) = Len(s) + 1 - k
      /\ \A i \in 1..Len(s) + 1 - k : b[i] = s[k + i - 1]
  <2>1. \A i \in k..Len(s) : s[i] \in T
    BY <1>0
  <2> QED
    BY <2>1, <1>0, SubSeqProperties, k \in Int, Len(s) \in Int
<1> HIDE DEF a, b
<1>3. <<t>> \in Seq(T) /\ Len(<<t>>) = 1 /\ <<t>>[1] = t
  OBVIOUS
<1> DEFINE c == a \o <<t>>
           d == c \o b
<1>4. /\ c \in Seq(T) /\ Len(c) = k
      /\ \A i \in 1..k : c[i] = IF i <= k - 1 THEN a[i] ELSE t
  BY <1>1, <1>3, ConcatProperties
<1> HIDE DEF c
<1>5. /\ d \in Seq(T) /\ Len(d) = Len(c) + Len(b)
      /\ \A i \in 1..Len(c) + Len(b) : d[i] =
           IF i <= Len(c) THEN c[i] ELSE b[i - Len(c)]
  BY <1>2, <1>4, ConcatProperties, Zenon
<1>6. InsertAt(s, k, t) = d
  BY DEF InsertAt, a, b, c
<1> HIDE DEF d
<1>7. Len(d) = Len(s) + 1
  BY <1>0, <1>2, <1>4, <1>5
<1>8. ASSUME NEW i \in 1..Len(s) + 1
      PROVE  d[i] = IF i < k THEN s[i] ELSE IF i = k THEN t ELSE s[i - 1]
  <2>1. d[i] = IF i <= k THEN c[i] ELSE b[i - k]
    BY <1>0, <1>2, <1>4, <1>5
  <2>2. CASE i <= k
    BY <2>1, <2>2, <1>0, <1>1, <1>4
  <2>3. CASE i > k
    <3>1. i - k \in 1..Len(s) + 1 - k /\ k + (i - k) - 1 = i - 1
      BY <2>3, <1>0
    <3>2. b[i - k] = s[k + (i - k) - 1]
      BY <3>1, <1>2
    <3>3. d[i] = b[i - k]
      BY <2>1, <2>3, <1>0
    <3>4. d[i] = s[i - 1]
      BY <3>1, <3>2, <3>3
    <3> QED
      BY <2>3, <3>4, <1>0
  <2> QED
    BY <2>2, <2>3, <1>0
<1> QED
  BY <1>5, <1>6, <1>7, <1>8

\* RemoveAt moves what is behind the position back by one.
LEMMA RemoveAtProperties ==
  ASSUME NEW T, NEW s \in Seq(T), NEW k \in 1..Len(s)
  PROVE  /\ RemoveAt(s, k) \in Seq(T)
         /\ Len(RemoveAt(s, k)) = Len(s) - 1
         /\ \A i \in 1..Len(s) - 1 : RemoveAt(s, k)[i] =
              IF i < k THEN s[i] ELSE s[i + 1]
<1> DEFINE a == SubSeq(s, 1, k - 1)
           b == SubSeq(s, k + 1, Len(s))
<1>0. Len(s) \in Nat /\ \A i \in 1..Len(s) : s[i] \in T
  BY ElementOfSeq, LenProperties
<1>1. a \in Seq(T) /\ Len(a) = k - 1 /\ \A i \in 1..k - 1 : a[i] = s[i]
  <2>1. \A i \in 1..k - 1 : s[i] \in T
    BY <1>0
  <2> QED
    BY <2>1, <1>0, SubSeqProperties, k - 1 \in Int, 1 \in Int
<1>2. /\ b \in Seq(T) /\ Len(b) = Len(s) - k
      /\ \A i \in 1..Len(s) - k : b[i] = s[k + i]
  <2>1. \A i \in k + 1..Len(s) : s[i] \in T
    BY <1>0
  <2> QED
    BY <2>1, <1>0, SubSeqProperties, k + 1 \in Int, Len(s) \in Int
<1> HIDE DEF a, b
<1> DEFINE d == a \o b
<1>3. /\ d \in Seq(T) /\ Len(d) = Len(a) + Len(b)
      /\ \A i \in 1..Len(a) + Len(b) : d[i] =
           IF i <= Len(a) THEN a[i] ELSE b[i - Len(a)]
  BY <1>1, <1>2, ConcatProperties, Zenon
<1>4. RemoveAt(s, k) = d
  BY DEF RemoveAt, a, b
<1> HIDE DEF d
<1>5. Len(d) = Len(s) - 1
  BY <1>0, <1>1, <1>2, <1>3
<1>6. ASSUME NEW i \in 1..Len(s) - 1
      PROVE  d[i] = IF i < k THEN s[i] ELSE s[i + 1]
  <2>1. d[i] = IF i <= k - 1 THEN a[i] ELSE b[i - (k - 1)]
    BY <1>0, <1>1, <1>2, <1>3
  <2>2. CASE i < k
    BY <2>1, <2>2, <1>0, <1>1
  <2>3. CASE i >= k
    <3>1. i - (k - 1) \in 1..Len(s) - k /\ k + (i - (k - 1)) = i + 1
      BY <2>3, <1>0
    <3>2. b[i - (k - 1)] = s[k + (i - (k - 1))]
      BY <3>1, <1>2
    <3>3. d[i] = b[i - (k - 1)]
      BY <2>1, <2>3, <1>0
    <3>4. d[i] = s[i + 1]
      BY <3>1, <3>2, <3>3
    <3> QED
      BY <2>3, <3>4, <1>0
  <2> QED
    BY <2>2, <2>3, <1>0
<1> QED
  BY <1>3, <1>4, <1>5, <1>6

\* An element that is new to the sequence can be inserted anywhere.
LEMMA InsertKeepsInjective ==
  ASSUME NEW T, NEW s \in Seq(T), IsInjective(s), NEW t \in T,
         \A i \in 1..Len(s) : s[i] # t, NEW k \in 1..Len(s) + 1
  PROVE  IsInjective(InsertAt(s, k, t))
<1> DEFINE new == InsertAt(s, k, t)
<1>0. Len(s) \in Nat /\ DOMAIN s = 1..Len(s)
  BY LenProperties
<1>1. /\ new \in Seq(T) /\ Len(new) = Len(s) + 1
      /\ \A i \in 1..Len(s) + 1 :
           new[i] = IF i < k THEN s[i] ELSE IF i = k THEN t ELSE s[i - 1]
  BY InsertAtProperties
<1> HIDE DEF new
<1>2. DOMAIN new = 1..Len(s) + 1
  BY <1>1, LenProperties
<1>3. SUFFICES ASSUME NEW i \in 1..Len(s) + 1, NEW j \in 1..Len(s) + 1,
                      new[i] = new[j]
               PROVE  i = j
  BY <1>2 DEF IsInjective, new
<1>4. \A m, n \in 1..Len(s) : s[m] = s[n] => m = n
  BY <1>0 DEF IsInjective
<1>5. CASE i = k \/ j = k
  BY <1>0, <1>1, <1>3, <1>5
<1>6. CASE i # k /\ j # k
  BY <1>0, <1>1, <1>3, <1>4, <1>6
<1> QED
  BY <1>5, <1>6

\* ... and so it can be added at the end.
LEMMA AppendKeepsInjective ==
  ASSUME NEW T, NEW s \in Seq(T), IsInjective(s), NEW t \in T,
         \A i \in 1..Len(s) : s[i] # t
  PROVE  /\ Append(s, t) \in Seq(T) /\ Len(Append(s, t)) = Len(s) + 1
         /\ IsInjective(Append(s, t))
         /\ \A i \in 1..Len(s) : Append(s, t)[i] = s[i]
<1> DEFINE new == Append(s, t)
<1>0. Len(s) \in Nat /\ DOMAIN s = 1..Len(s)
  BY LenProperties
<1>1. /\ new \in Seq(T) /\ Len(new) = Len(s) + 1
      /\ \A i \in 1..Len(s) : new[i] = s[i]
      /\ new[Len(s) + 1] = t
  BY AppendProperties
<1> HIDE DEF new
<1>2. \A i \in DOMAIN new : i \in 1..Len(s) \/ i = Len(s) + 1
  BY <1>0, <1>1, LenProperties
<1>3. \A m, n \in 1..Len(s) : s[m] = s[n] => m = n
  BY <1>0 DEF IsInjective
<1>4. \A i, j \in DOMAIN new : new[i] = new[j] => i = j
  BY <1>1, <1>2, <1>3
<1> QED
  BY <1>1, <1>4 DEF IsInjective, new

\* What remains when an element is removed has no repeats and not that element.
LEMMA RemoveKeepsInjective ==
  ASSUME NEW T, NEW s \in Seq(T), IsInjective(s), NEW k \in 1..Len(s)
  PROVE  /\ IsInjective(RemoveAt(s, k))
         /\ \A i \in 1..Len(s) - 1 : RemoveAt(s, k)[i] # s[k]
<1> DEFINE new == RemoveAt(s, k)
<1>0. Len(s) \in Nat /\ DOMAIN s = 1..Len(s)
  BY LenProperties
<1>1. /\ new \in Seq(T) /\ Len(new) = Len(s) - 1
      /\ \A i \in 1..Len(s) - 1 : new[i] = IF i < k THEN s[i] ELSE s[i + 1]
  BY RemoveAtProperties
<1> HIDE DEF new
<1>2. DOMAIN new = 1..Len(s) - 1
  BY <1>1, LenProperties
<1>3. \A m, n \in 1..Len(s) : s[m] = s[n] => m = n
  BY <1>0 DEF IsInjective
<1> DEFINE From(i) == IF i < k THEN i ELSE i + 1
<1>a. \A i \in 1..Len(s) - 1 : From(i) \in 1..Len(s) /\ From(i) # k
  BY <1>0
<1>b. \A i \in 1..Len(s) - 1 : new[i] = s[From(i)]
  BY <1>1
<1>c. \A i, j \in 1..Len(s) - 1 : From(i) = From(j) => i = j
  BY <1>0
<1> HIDE DEF From
<1>4. \A i, j \in 1..Len(s) - 1 : new[i] = new[j] => i = j
  BY <1>3, <1>a, <1>b, <1>c
<1>5. \A i \in 1..Len(s) - 1 : new[i] # s[k]
  BY <1>3, <1>a, <1>b
<1> QED
  BY <1>2, <1>4, <1>5 DEF IsInjective, new

-----------------------------------------------------------------------------
\* t begins with s.
Extends(t, s) == Len(s) <= Len(t) /\ \A i \in 1..Len(s) : t[i] = s[i]

\* What extends an extension extends.
LEMMA ExtendsTransitive ==
  ASSUME NEW T, NEW r \in Seq(T), NEW s \in Seq(T), NEW t \in Seq(T),
         Extends(t, s), Extends(s, r)
  PROVE  Extends(t, r)
<1>1. Len(r) \in Nat /\ Len(s) \in Nat /\ Len(t) \in Nat
  BY LenProperties
<1> QED BY <1>1 DEF Extends

\* To begin with a sequence is to have it as a prefix.
LEMMA ExtendsIsPrefix ==
  ASSUME NEW T, NEW s \in Seq(T), NEW t \in Seq(T), Extends(t, s)
  PROVE  IsPrefix(s, t)
<1> DEFINE n == Len(s)
           a == SubSeq(s, 1, n)
           b == SubSeq(t, 1, n)
<1>1. n \in Nat /\ Len(t) \in Nat /\ n <= Len(t)
  BY LenProperties DEF Extends
<1>2. \A i \in 1..n : s[i] \in T /\ t[i] \in T /\ t[i] = s[i]
  BY <1>1, ElementOfSeq DEF Extends
<1>3. a \in Seq(T) /\ Len(a) = n /\ \A i \in 1..n : a[i] = s[i]
  BY <1>1, <1>2, SubSeqProperties, 1 \in Int
<1>4. b \in Seq(T) /\ Len(b) = n /\ \A i \in 1..n : b[i] = t[i]
  BY <1>1, <1>2, SubSeqProperties, 1 \in Int
<1> HIDE DEF a, b, n
<1>5. a = b
  BY <1>2, <1>3, <1>4, SeqEqual
<1> QED BY <1>1, <1>5 DEF IsPrefix, a, b, n

\* An extension contains what the sequence did.
LEMMA ContainsKept ==
  ASSUME NEW T, NEW s \in Seq(T), NEW t \in Seq(T), Extends(t, s), NEW e,
         Contains(s, e)
  PROVE  Contains(t, e)
<1>1. Len(s) \in Nat /\ Len(t) \in Nat
  BY LenProperties
<1> QED BY <1>1 DEF Extends, Contains
=============================================================================
