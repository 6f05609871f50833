----------------------------- MODULE SeqLemmas -----------------------------
(***************************************************************************)
(* Facts about the list operations of the models: removing an entry,       *)
(* inserting one at a position, appending one, and the least element of a  *)
(* set of naturals, which the CHOOSE of those operations picks.            *)
(***************************************************************************)
EXTENDS Integers, Sequences, SequencesExt, SequenceTheorems,
        WellFoundedInduction, TLAPS

(* Every non-empty set of naturals has a least element.                    *)
LEMMA NatHasMin ==
    ASSUME NEW T \in SUBSET Nat, T # {}
    PROVE  \E x \in T : \A y \in T : x <= y
<1>1. \E x \in T : \A y \in T : ~(<<y, x>> \in OpToRel(<, Nat))
  BY NatLessThanWellFounded, WFMin
<1>2. PICK x \in T : \A y \in T : ~(<<y, x>> \in OpToRel(<, Nat))
  BY <1>1
<1>3. \A y \in T : x <= y
  <2> SUFFICES ASSUME NEW y \in T, y < x PROVE FALSE
    OBVIOUS
  <2>1. <<y, x>> \in OpToRel(<, Nat)
    BY DEF OpToRel
  <2> QED BY <2>1, <1>2
<1> QED BY <1>3

(* Every non-empty set of numbers up to n has a greatest element.          *)
LEMMA BoundedHasMax ==
    ASSUME NEW n \in Nat, NEW T \in SUBSET (1..n), T # {}
    PROVE  \E x \in T : \A y \in T : y <= x
<1> DEFINE U == {k \in Nat : \A y \in T : y <= k}
<1>1. n \in U
  OBVIOUS
<1>2. PICK m \in U : \A k \in U : m <= k
  BY <1>1, NatHasMin
<1>3. m \in T
  <2> SUFFICES ASSUME m \notin T PROVE FALSE
    OBVIOUS
  <2>1. \A y \in T : y <= m - 1 /\ m - 1 \in Nat
    BY <1>2
  <2>2. m - 1 \in U
    BY <2>1
  <2> QED BY <2>2, <1>2
<1> QED BY <1>2, <1>3

(* The parts before and after position k, put together.                    *)
LEMMA RemovedShape ==
    ASSUME NEW S, NEW s \in Seq(S), NEW k \in 1..Len(s)
    PROVE  LET r == SubSeq(s, 1, k - 1) \o SubSeq(s, k + 1, Len(s)) IN
           /\ r \in Seq(S)
           /\ Len(r) = Len(s) - 1
           /\ \A i \in 1..(Len(s) - 1) : r[i] = IF i < k THEN s[i] ELSE s[i + 1]
<1> DEFINE a == SubSeq(s, 1, k - 1)
           b == SubSeq(s, k + 1, Len(s))
<1>1. Len(s) \in Nat
  OBVIOUS
<1>5. /\ a \in Seq(S) /\ Len(a) = k - 1
      /\ \A i \in 1..(k - 1) : a[i] = s[i]
  <2>1. \A i \in 1..(k - 1) : s[i] \in S
    BY <1>1, ElementOfSeq
  <2> QED BY <2>1, <1>1, SubSeqProperties
<1>6. /\ b \in Seq(S) /\ Len(b) = Len(s) - k
      /\ \A i \in 1..(Len(s) - k) : b[i] = s[k + i]
  <2>1. \A i \in (k + 1)..Len(s) : s[i] \in S
    BY <1>1, ElementOfSeq
  <2>2. /\ b \in Seq(S)
        /\ Len(b) = IF k + 1 <= Len(s) THEN Len(s) - (k + 1) + 1 ELSE 0
        /\ \A i \in 1..(Len(s) - (k + 1) + 1) : b[i] = s[(k + 1) + i - 1]
    BY <2>1, <1>1, SubSeqProperties
  <2> QED BY <2>2, <1>1
<1> HIDE DEF a, b
<1>7. /\ a \o b \in Seq(S)
      /\ Len(a \o b) = Len(s) - 1
      /\ \A i \in 1..(Len(s) - 1) :
            (a \o b)[i] = IF i <= Len(a) THEN a[i] ELSE b[i - Len(a)]
  <2>1. /\ a \o b \in Seq(S)
        /\ Len(a \o b) = Len(a) + Len(b)
        /\ \A i \in 1..(Len(a) + Len(b)) :
              (a \o b)[i] = IF i <= Len(a) THEN a[i] ELSE b[i - Len(a)]
    BY <1>5, <1>6, ConcatProperties
  <2>2. Len(a) + Len(b) = Len(s) - 1
    BY <1>1, <1>5, <1>6
  <2> QED BY <2>1, <2>2
<1>8. \A i \in 1..(Len(s) - 1) : (a \o b)[i] = IF i < k THEN s[i] ELSE s[i + 1]
  <2> SUFFICES ASSUME NEW i \in 1..(Len(s) - 1)
               PROVE  (a \o b)[i] = IF i < k THEN s[i] ELSE s[i + 1]
    OBVIOUS
  <2>1. CASE i < k
    BY <2>1, <1>1, <1>5, <1>7
  <2>2. CASE ~(i < k)
    <3>1. i - (k - 1) \in 1..(Len(s) - k) /\ k + (i - (k - 1)) = i + 1
      BY <2>2, <1>1
    <3> QED BY <3>1, <2>2, <1>1, <1>5, <1>6, <1>7
  <2> QED BY <2>1, <2>2
<1> QED BY <1>7, <1>8 DEF a, b

(* RemoveFirst() unlinks one occurrence and closes the gap.                *)
LEMMA RemoveFirstShape ==
    ASSUME NEW S, NEW s \in Seq(S), NEW e, Contains(s, e)
    PROVE  /\ RemoveFirst(s, e) \in Seq(S)
           /\ Len(RemoveFirst(s, e)) = Len(s) - 1
           /\ \E k \in 1..Len(s) :
                /\ s[k] = e
                /\ \A i \in 1..(Len(s) - 1) :
                      RemoveFirst(s, e)[i] = IF i < k THEN s[i] ELSE s[i + 1]
<1> DEFINE I == {i \in 1..Len(s) : s[i] = e}
           k == SelectInSeq(s, LAMBDA v : v = e)
<1>1. Len(s) \in Nat /\ I # {} /\ I \in SUBSET Nat
  BY DEF Contains
<1>2. k \in I
  <2>1. k = Min(I)
    BY <1>1 DEF SelectInSeq
  <2> QED BY <2>1, <1>1, NatHasMin DEF Min
<1>3. RemoveFirst(s, e) = SubSeq(s, 1, k - 1) \o SubSeq(s, k + 1, Len(s))
  BY <1>1 DEF RemoveFirst, RemoveAt, Contains
<1> HIDE DEF k
<1>4. k \in 1..Len(s) /\ s[k] = e
  BY <1>2
<1> QED BY <1>3, <1>4, RemovedShape

(* Taking the first entry off a list.                                      *)
LEMMA TailShape ==
    ASSUME NEW S, NEW s \in Seq(S), s # <<>>
    PROVE  /\ Len(s) \in Nat \ {0} /\ Head(s) = s[1] /\ s[1] \in S
           /\ Tail(s) \in Seq(S) /\ Len(Tail(s)) = Len(s) - 1
           /\ \A i \in 1..(Len(s) - 1) : Tail(s)[i] = s[i + 1]
  OBVIOUS

(* On a list without duplicates RemoveFirst() removes exactly e and keeps  *)
(* the order of the others.                                                *)
LEMMA RemoveFirstProperties ==
    ASSUME NEW S, NEW s \in Seq(S), NEW e, IsInjective(s)
    PROVE  LET r == RemoveFirst(s, e) IN
           /\ r \in Seq(S)
           /\ IsInjective(r)
           /\ Len(r) = IF Contains(s, e) THEN Len(s) - 1 ELSE Len(s)
           /\ \A x : Contains(r, x) <=> Contains(s, x) /\ x # e
           /\ ~Contains(s, e) => r = s
           /\ \A i, j \in DOMAIN r : i < j =>
                 \E k, l \in DOMAIN s : k < l /\ r[i] = s[k] /\ r[j] = s[l]
<1> DEFINE r == RemoveFirst(s, e)
<1>0. Len(s) \in Nat /\ DOMAIN s = 1..Len(s)
  BY LenProperties
<1>1. CASE ~Contains(s, e)
  <2>1. r = s
    BY <1>1 DEF RemoveFirst, Contains
  <2> QED BY <2>1, <1>1, <1>0
<1>2. CASE Contains(s, e)
  <2>1. r \in Seq(S) /\ Len(r) = Len(s) - 1
    BY <1>2, RemoveFirstShape
  <2>2. PICK k \in 1..Len(s) :
          /\ s[k] = e
          /\ \A i \in 1..(Len(s) - 1) : r[i] = IF i < k THEN s[i] ELSE s[i + 1]
    BY <1>2, RemoveFirstShape
  <2> HIDE DEF r
  <2>3. DOMAIN r = 1..(Len(s) - 1)
    BY <2>1, LenProperties
  <2>4. IsInjective(r)
    BY <1>0, <2>2, <2>3 DEF IsInjective
  <2>5. ASSUME NEW x, Contains(r, x) PROVE Contains(s, x) /\ x # e
    <3>1. PICK i \in 1..(Len(s) - 1) : r[i] = x
      BY <2>1, <2>5 DEF Contains
    <3> DEFINE n == IF i < k THEN i ELSE i + 1
    <3>2. n \in 1..Len(s) /\ n # k /\ s[n] = x
      BY <3>1, <2>2, <1>0
    <3>3. s[n] # s[k]
      BY <3>2, <1>0 DEF IsInjective
    <3> QED BY <3>2, <3>3, <2>2 DEF Contains
  <2>6. ASSUME NEW x, Contains(s, x), x # e PROVE Contains(r, x)
    <3>1. PICK i \in 1..Len(s) : s[i] = x
      BY <2>6 DEF Contains
    <3>2. CASE i < k
      BY <3>1, <3>2, <1>0, <2>1, <2>2 DEF Contains
    <3>3. CASE i > k
      <4>1. i - 1 \in 1..(Len(s) - 1) /\ r[i - 1] = s[i]
        BY <3>3, <1>0, <2>2
      <4> QED BY <4>1, <3>1, <2>1 DEF Contains
    <3> QED BY <3>1, <3>2, <3>3, <2>2, <2>6, <1>0
  <2>7. ASSUME NEW i \in DOMAIN r, NEW j \in DOMAIN r, i < j
        PROVE  \E m, l \in DOMAIN s : m < l /\ r[i] = s[m] /\ r[j] = s[l]
    <3> DEFINE up(n) == IF n < k THEN n ELSE n + 1
    <3>1. up(i) \in DOMAIN s /\ up(j) \in DOMAIN s /\ up(i) < up(j)
      BY <1>0, <2>3, <2>7, <2>2
    <3>2. r[i] = s[up(i)] /\ r[j] = s[up(j)]
      BY <1>0, <2>3, <2>2
    <3> QED BY <3>1, <3>2
  <2> QED BY <1>2, <2>1, <2>4, <2>5, <2>6, <2>7 DEF r
<1> QED BY <1>1, <1>2

(* InsertAt() shifts the entries from position i on.                       *)
LEMMA InsertAtShape ==
    ASSUME NEW S, NEW s \in Seq(S), NEW e \in S, NEW i \in 1..Len(s)
    PROVE  /\ InsertAt(s, i, e) \in Seq(S)
           /\ Len(InsertAt(s, i, e)) = Len(s) + 1
           /\ \A j \in 1..(Len(s) + 1) :
                 InsertAt(s, i, e)[j] = IF j < i THEN s[j]
                                       ELSE IF j = i THEN e ELSE s[j - 1]
<1> DEFINE a == SubSeq(s, 1, i - 1)
           m == <<e>>
           b == SubSeq(s, i, Len(s))
<1>1. Len(s) \in Nat
  OBVIOUS
<1>2. /\ a \in Seq(S) /\ Len(a) = i - 1
      /\ \A j \in 1..(i - 1) : a[j] = s[j]
  <2>1. \A j \in 1..(i - 1) : s[j] \in S
    BY <1>1, ElementOfSeq
  <2> QED BY <2>1, <1>1, SubSeqProperties
<1>3. /\ b \in Seq(S) /\ Len(b) = Len(s) - i + 1
      /\ \A j \in 1..(Len(s) - i + 1) : b[j] = s[i + j - 1]
  <2>1. \A j \in i..Len(s) : s[j] \in S
    BY <1>1, ElementOfSeq
  <2> QED BY <2>1, <1>1, SubSeqProperties
<1>4. m \in Seq(S) /\ Len(m) = 1 /\ m[1] = e
  OBVIOUS
<1> HIDE DEF a, b, m
<1>5. /\ a \o m \in Seq(S) /\ Len(a \o m) = i
      /\ \A j \in 1..i : (a \o m)[j] = IF j < i THEN s[j] ELSE e
  <2>1. /\ a \o m \in Seq(S) /\ Len(a \o m) = Len(a) + Len(m)
        /\ \A j \in 1..(Len(a) + Len(m)) :
              (a \o m)[j] = IF j <= Len(a) THEN a[j] ELSE m[j - Len(a)]
    BY <1>2, <1>4, ConcatProperties
  <2> QED BY <2>1, <1>1, <1>2, <1>4
<1>6. /\ (a \o m) \o b \in Seq(S) /\ Len((a \o m) \o b) = Len(s) + 1
      /\ \A j \in 1..(Len(s) + 1) :
            ((a \o m) \o b)[j] = IF j <= i THEN (a \o m)[j] ELSE b[j - i]
  <2> DEFINE c == a \o m
  <2>0. c \in Seq(S) /\ Len(c) = i
    BY <1>5
  <2> HIDE DEF c
  <2>1. /\ c \o b \in Seq(S) /\ Len(c \o b) = Len(c) + Len(b)
        /\ \A j \in 1..(Len(c) + Len(b)) :
              (c \o b)[j] = IF j <= Len(c) THEN c[j] ELSE b[j - Len(c)]
    BY <2>0, <1>3, ConcatProperties
  <2>2. Len(c) + Len(b) = Len(s) + 1
    BY <1>1, <1>3, <2>0
  <2> QED BY <2>0, <2>1, <2>2 DEF c
<1>7. \A j \in 1..(Len(s) + 1) :
         ((a \o m) \o b)[j] = IF j < i THEN s[j] ELSE IF j = i THEN e ELSE s[j - 1]
  <2> SUFFICES ASSUME NEW j \in 1..(Len(s) + 1)
               PROVE  ((a \o m) \o b)[j] = IF j < i THEN s[j]
                                          ELSE IF j = i THEN e ELSE s[j - 1]
    OBVIOUS
  <2>1. CASE j <= i
    BY <2>1, <1>1, <1>5, <1>6
  <2>2. CASE ~(j <= i)
    <3>1. j - i \in 1..(Len(s) - i + 1) /\ i + (j - i) - 1 = j - 1
      BY <2>2, <1>1
    <3> QED BY <3>1, <2>2, <1>1, <1>3, <1>6
  <2> QED BY <2>1, <2>2
<1>8. InsertAt(s, i, e) = (a \o m) \o b
  BY DEF InsertAt, a, b, m
<1> QED BY <1>6, <1>7, <1>8

(* Appending an entry that is not on the list keeps it free of duplicates. *)
LEMMA AppendInjectiveProperties ==
    ASSUME NEW S, NEW s \in Seq(S), NEW e \in S, IsInjective(s), ~Contains(s, e)
    PROVE  /\ Append(s, e) \in Seq(S)
           /\ IsInjective(Append(s, e))
           /\ Len(Append(s, e)) = Len(s) + 1
           /\ \A x : Contains(Append(s, e), x) <=> Contains(s, x) \/ x = e
<1> DEFINE r == Append(s, e)
<1>1. /\ Len(s) \in Nat /\ DOMAIN s = 1..Len(s)
      /\ r \in Seq(S) /\ Len(r) = Len(s) + 1
      /\ \A i \in 1..Len(s) : r[i] = s[i]
      /\ r[Len(s) + 1] = e
  BY AppendProperties, LenProperties
<1>2. DOMAIN r = 1..(Len(s) + 1)
  BY <1>1, LenProperties
<1> HIDE DEF r
<1>3. IsInjective(r)
  BY <1>1, <1>2 DEF IsInjective, Contains
<1>4. \A x : Contains(r, x) <=> Contains(s, x) \/ x = e
  BY <1>1 DEF Contains
<1> QED BY <1>1, <1>3, <1>4 DEF r

(* Inserting an entry that is not on the list keeps it free of duplicates. *)
LEMMA InsertAtProperties ==
    ASSUME NEW S, NEW s \in Seq(S), NEW e \in S, NEW i \in 1..Len(s),
           IsInjective(s), ~Contains(s, e)
    PROVE  /\ IsInjective(InsertAt(s, i, e))
           /\ \A x : Contains(InsertAt(s, i, e), x) <=> Contains(s, x) \/ x = e
<1> DEFINE r == InsertAt(s, i, e)
<1>1. /\ Len(s) \in Nat /\ DOMAIN s = 1..Len(s)
      /\ r \in Seq(S) /\ Len(r) = Len(s) + 1
      /\ \A j \in 1..(Len(s) + 1) :
            r[j] = IF j < i THEN s[j] ELSE IF j = i THEN e ELSE s[j - 1]
  BY InsertAtShape, LenProperties
<1>2. DOMAIN r = 1..(Len(s) + 1)
  BY <1>1, LenProperties
<1> HIDE DEF r
<1>3. \A j \in 1..(Len(s) + 1) : j # i => r[j] # e
  BY <1>1 DEF Contains
<1>4. IsInjective(r)
  <2> SUFFICES ASSUME NEW x \in 1..(Len(s) + 1), NEW y \in 1..(Len(s) + 1), r[x] = r[y]
               PROVE  x = y
    BY <1>2 DEF IsInjective
  <2>1. CASE x = i \/ y = i
    BY <2>1, <1>1, <1>3
  <2>2. CASE x # i /\ y # i
    <3> DEFINE d(n) == IF n < i THEN n ELSE n - 1
    <3>1. d(x) \in DOMAIN s /\ d(y) \in DOMAIN s
      BY <2>2, <1>1
    <3>2. s[d(x)] = s[d(y)]
      BY <2>2, <1>1
    <3>3. d(x) = d(y)
      BY <3>1, <3>2 DEF IsInjective
    <3> QED BY <3>3, <2>2, <1>1
  <2> QED BY <2>1, <2>2
<1>5. ASSUME NEW x, Contains(r, x) PROVE Contains(s, x) \/ x = e
  <2>1. PICK j \in 1..(Len(s) + 1) : r[j] = x
    BY <1>1, <1>5 DEF Contains
  <2>2. CASE j < i
    BY <2>1, <2>2, <1>1 DEF Contains
  <2>3. CASE j = i
    BY <2>1, <2>3, <1>1
  <2>4. CASE j > i
    <3>1. j - 1 \in 1..Len(s) /\ s[j - 1] = x
      BY <2>1, <2>4, <1>1
    <3> QED BY <3>1 DEF Contains
  <2> QED BY <2>2, <2>3, <2>4, <1>1
<1>6. ASSUME NEW x, Contains(s, x) \/ x = e PROVE Contains(r, x)
  <2>1. CASE x = e
    <3>1. i \in 1..Len(r) /\ r[i] = e
      BY <1>1
    <3> QED BY <3>1, <2>1 DEF Contains
  <2>2. CASE Contains(s, x)
    <3>1. PICK j \in 1..Len(s) : s[j] = x
      BY <2>2 DEF Contains
    <3>2. CASE j < i
      BY <3>1, <3>2, <1>1 DEF Contains
    <3>3. CASE ~(j < i)
      <4>1. j + 1 \in 1..Len(r) /\ r[j + 1] = s[j]
        BY <3>3, <1>1
      <4> QED BY <4>1, <3>1 DEF Contains
    <3> QED BY <3>2, <3>3
  <2> QED BY <2>1, <2>2, <1>6
<1> QED BY <1>4, <1>5, <1>6 DEF r
=============================================================================
