----------------------------- MODULE ListLemmas -----------------------------
(****************************************************************************)
(* What the operations on GLists and queues do to the set of elements of a  *)
(* list without duplicates, and to their order.                             *)
(****************************************************************************)
EXTENDS Integers, Sequences, SequencesExt, SequenceTheorems, TLAPS

(* No element is twice in a list. *)
NoDup(s) == \A i, j \in 1 .. Len(s) : s[i] = s[j] => i = j

(* What removing the only occurrence of an element leaves. *)
LEMMA RemoveAtSet ==
  ASSUME NEW S, NEW s \in Seq(S), NEW k \in 1 .. Len(s), NoDup(s)
  PROVE  /\ RemoveAt(s, k) \in Seq(S) /\ NoDup(RemoveAt(s, k))
         /\ ToSet(RemoveAt(s, k)) = ToSet(s) \ {s[k]}
<1> DEFINE a == SubSeq(s, 1, k - 1)
           b == SubSeq(s, k + 1, Len(s))
           r == RemoveAt(s, k)
<1>1. Len(s) \in Nat /\ k \in Nat
  OBVIOUS
<1>2. a \in Seq(S) /\ Len(a) = k - 1 /\ \A i \in 1 .. k - 1 : a[i] = s[i]
  OBVIOUS
<1>3. b \in Seq(S) /\ Len(b) = Len(s) - k /\ \A i \in 1 .. Len(s) - k : b[i] = s[k + i]
  OBVIOUS
<1> HIDE DEF a, b
<1>4. r = a \o b
  BY DEF RemoveAt, a, b
<1> HIDE DEF r
<1>c. /\ Len(a \o b) = Len(a) + Len(b) /\ a \o b \in Seq(S)
      /\ \A i \in 1 .. Len(a) + Len(b) : (a \o b)[i] = IF i <= Len(a) THEN a[i] ELSE b[i - Len(a)]
  BY <1>2, <1>3, ConcatProperties
<1>5. r \in Seq(S) /\ Len(r) = Len(s) - 1 /\ DOMAIN r = 1 .. Len(s) - 1
  BY <1>1, <1>2, <1>3, <1>4, <1>c
<1>6. ASSUME NEW i \in 1 .. Len(s) - 1 PROVE r[i] = IF i < k THEN s[i] ELSE s[i + 1]
  <2>1. r[i] = IF i <= k - 1 THEN a[i] ELSE b[i - (k - 1)]
    BY <1>1, <1>2, <1>3, <1>4, <1>c
  <2>2. CASE i < k
    BY <1>1, <1>2, <2>1, <2>2
  <2>3. CASE ~(i < k)
    <3>1. i - (k - 1) \in 1 .. Len(s) - k /\ k + (i - (k - 1)) = i + 1
      BY <1>1, <2>3
    <3> QED BY <1>1, <1>3, <2>1, <2>3, <3>1
  <2> QED BY <2>2, <2>3
<1>7. NoDup(r)
  BY <1>5, <1>6 DEF NoDup
<1>8. ToSet(r) \subseteq ToSet(s) \ {s[k]}
  BY <1>5, <1>6 DEF NoDup, ToSet
<1>9. ToSet(s) \ {s[k]} \subseteq ToSet(r)
  <2> SUFFICES ASSUME NEW i \in 1 .. Len(s), i # k PROVE s[i] \in ToSet(r)
    BY DEF ToSet
  <2>1. CASE i < k
    BY <1>5, <1>6, <2>1 DEF ToSet
  <2>2. CASE i > k
    <3>1. i - 1 \in 1 .. Len(s) - 1 /\ r[i - 1] = s[i]
      BY <1>6, <2>2
    <3> QED BY <1>5, <3>1 DEF ToSet
  <2> QED BY <2>1, <2>2
<1> QED BY <1>5, <1>7, <1>8, <1>9 DEF r

(* g_list_remove on a list without duplicates. *)
LEMMA RemoveFirstSet ==
  ASSUME NEW S, NEW s \in Seq(S), NEW e, NoDup(s)
  PROVE  /\ RemoveFirst(s, e) \in Seq(S) /\ NoDup(RemoveFirst(s, e))
         /\ ToSet(RemoveFirst(s, e)) = ToSet(s) \ {e}
<1>1. CASE \E i \in 1 .. Len(s) : s[i] = e
  <2> DEFINE I == {i \in 1 .. Len(s) : s[i] = e}
  <2>1. PICK k \in 1 .. Len(s) : s[k] = e
    BY <1>1
  <2>2. I = {k}
    BY <2>1 DEF NoDup
  <2>3. Min(I) = k
    BY <2>2 DEF Min
  <2>4. SelectInSeq(s, LAMBDA v : v = e) = k
    BY <2>2, <2>3 DEF SelectInSeq
  <2>5. RemoveFirst(s, e) = RemoveAt(s, k)
    BY <2>1, <2>4 DEF RemoveFirst
  <2> QED BY <2>1, <2>5, RemoveAtSet
<1>2. CASE ~\E i \in 1 .. Len(s) : s[i] = e
  BY <1>2 DEF RemoveFirst, ToSet
<1> QED BY <1>1, <1>2

(* The other operations on the lists. *)
LEMMA AppendSet ==
    ASSUME NEW S, NEW s \in Seq(S), NEW x \in S
    PROVE  /\ Append(s, x) \in Seq(S) /\ ToSet(Append(s, x)) = ToSet(s) \union {x}
           /\ NoDup(s) /\ x \notin ToSet(s) => NoDup(Append(s, x))
<1> DEFINE r == Append(s, x)
<1>1. r \in Seq(S) /\ Len(r) = Len(s) + 1 /\ r[Len(s) + 1] = x /\ \A i \in 1 .. Len(s) : r[i] = s[i]
  OBVIOUS
<1>2. DOMAIN r = 1 .. Len(s) + 1 /\ DOMAIN s = 1 .. Len(s) /\ Len(s) \in Nat
  BY <1>1
<1> HIDE DEF r
<1>3. ToSet(r) = ToSet(s) \union {x}
  BY <1>1, <1>2 DEF ToSet
<1>4. ASSUME NoDup(s), x \notin ToSet(s) PROVE NoDup(r)
  BY <1>1, <1>2, <1>4 DEF NoDup, ToSet
<1> QED BY <1>1, <1>3, <1>4 DEF r

(* The first element of a list is taken away. *)
LEMMA HeadTailSet ==
    ASSUME NEW S, NEW s \in Seq(S), s # <<>>
    PROVE  /\ Head(s) \in S /\ Head(s) \in ToSet(s) /\ Tail(s) \in Seq(S) /\ ToSet(Tail(s)) \subseteq ToSet(s)
           /\ NoDup(s) => NoDup(Tail(s)) /\ ToSet(Tail(s)) = ToSet(s) \ {Head(s)}
<1> DEFINE r == Tail(s)
<1>1. r \in Seq(S) /\ Len(r) = Len(s) - 1 /\ \A i \in 1 .. Len(r) : r[i] = s[i + 1]
  BY HeadTailProperties
<1>2. Head(s) = s[1] /\ Head(s) \in S /\ Len(s) \in Nat /\ Len(s) >= 1
  OBVIOUS
<1>3. DOMAIN r = 1 .. Len(s) - 1 /\ DOMAIN s = 1 .. Len(s)
  BY <1>1
<1> HIDE DEF r
<1>4. Head(s) \in ToSet(s) /\ ToSet(r) \subseteq ToSet(s)
  BY <1>1, <1>2, <1>3 DEF ToSet
<1>5. ASSUME NoDup(s) PROVE NoDup(r) /\ ToSet(r) = ToSet(s) \ {Head(s)}
  <2>1. NoDup(r)
    BY <1>1, <1>2, <1>3, <1>5 DEF NoDup
  <2>2. Head(s) \notin ToSet(r)
    BY <1>1, <1>2, <1>3, <1>5 DEF NoDup, ToSet
  <2>3. ASSUME NEW i \in 1 .. Len(s), i # 1 PROVE s[i] \in ToSet(r)
    <3>1. i - 1 \in 1 .. Len(s) - 1 /\ r[i - 1] = s[i]
      BY <1>1, <1>2, <2>3
    <3> QED BY <1>3, <3>1 DEF ToSet
  <2>4. ToSet(s) \ {Head(s)} \subseteq ToSet(r)
    BY <1>2, <1>3, <2>3 DEF ToSet
  <2> QED BY <1>4, <2>1, <2>2, <2>4
<1> QED BY <1>1, <1>2, <1>4, <1>5 DEF r

(* g_list_prepend. *)
LEMMA PrependSet ==
    ASSUME NEW S, NEW s \in Seq(S), NEW x \in S
    PROVE  /\ <<x>> \o s \in Seq(S) /\ ToSet(<<x>> \o s) = ToSet(s) \union {x}
           /\ NoDup(s) /\ x \notin ToSet(s) => NoDup(<<x>> \o s)
<1> DEFINE r == <<x>> \o s
<1>1. <<x>> \in Seq(S) /\ Len(<<x>>) = 1 /\ <<x>>[1] = x
  OBVIOUS
<1>2. /\ r \in Seq(S) /\ Len(r) = 1 + Len(s)
      /\ \A i \in 1 .. 1 + Len(s) : r[i] = IF i <= 1 THEN <<x>>[i] ELSE s[i - 1]
  BY <1>1, ConcatProperties
<1>3. DOMAIN r = 1 .. Len(s) + 1 /\ DOMAIN s = 1 .. Len(s) /\ Len(s) \in Nat
  BY <1>2
<1> HIDE DEF r
<1>4. r[1] = x /\ \A i \in 1 .. Len(s) : r[i + 1] = s[i]
  BY <1>1, <1>2, <1>3
<1>5. \A i \in 1 .. Len(s) + 1 : i = 1 \/ (i - 1 \in 1 .. Len(s) /\ r[i] = s[i - 1])
  BY <1>2, <1>3
<1>6. ToSet(r) \subseteq ToSet(s) \union {x}
  BY <1>3, <1>4, <1>5 DEF ToSet
<1>7. x \in ToSet(r) /\ ToSet(s) \subseteq ToSet(r)
  BY <1>3, <1>4 DEF ToSet
<1>8. ASSUME NoDup(s), x \notin ToSet(s) PROVE NoDup(r)
  <2> SUFFICES ASSUME NEW i \in 1 .. Len(s) + 1, NEW j \in 1 .. Len(s) + 1, r[i] = r[j] PROVE i = j
    BY <1>2, <1>3 DEF NoDup
  <2>1. \A k \in 1 .. Len(s) : s[k] # x
    BY <1>3, <1>8 DEF ToSet
  <2>2. CASE i = 1 \/ j = 1
    BY <1>3, <1>4, <1>5, <2>1, <2>2
  <2>3. CASE i # 1 /\ j # 1
    <3>1. i - 1 \in 1 .. Len(s) /\ j - 1 \in 1 .. Len(s) /\ s[i - 1] = s[j - 1]
      BY <1>3, <1>5, <2>3
    <3>2. i - 1 = j - 1
      BY <1>8, <3>1 DEF NoDup
    <3> QED BY <3>2
  <2> QED BY <2>2, <2>3
<1> QED BY <1>2, <1>6, <1>7, <1>8 DEF r

(* An empty list. *)
LEMMA NothingListed == ToSet(<<>>) = {} /\ NoDup(<<>>)
  BY DEF ToSet, NoDup
(* The elements of r stand in s in the same order. *)
OrderKept(r, s) ==
    \A i, j \in 1 .. Len(r) : i <= j =>
        \E k, l \in 1 .. Len(s) : k <= l /\ r[i] = s[k] /\ r[j] = s[l]

(* Removing an element leaves the others in order. *)
LEMMA RemoveFirstOrder ==
    ASSUME NEW S, NEW s \in Seq(S), NEW e, NoDup(s)
    PROVE  OrderKept(RemoveFirst(s, e), s)
<1>1. CASE \E i \in 1 .. Len(s) : s[i] = e
  <2> DEFINE I == {i \in 1 .. Len(s) : s[i] = e}
  <2>1. PICK k \in 1 .. Len(s) : s[k] = e
    BY <1>1
  <2>2. I = {k}
    BY <2>1 DEF NoDup
  <2>3. Min(I) = k
    BY <2>2 DEF Min
  <2>4. SelectInSeq(s, LAMBDA v : v = e) = k
    BY <2>2, <2>3 DEF SelectInSeq
  <2>5. RemoveFirst(s, e) = RemoveAt(s, k)
    BY <2>1, <2>4 DEF RemoveFirst
  <2> DEFINE a == SubSeq(s, 1, k - 1)
             b == SubSeq(s, k + 1, Len(s))
             r == RemoveAt(s, k)
  <2>6. Len(s) \in Nat /\ k \in Nat
    OBVIOUS
  <2>7. a \in Seq(S) /\ Len(a) = k - 1 /\ \A i \in 1 .. k - 1 : a[i] = s[i]
    OBVIOUS
  <2>8. b \in Seq(S) /\ Len(b) = Len(s) - k /\ \A i \in 1 .. Len(s) - k : b[i] = s[k + i]
    OBVIOUS
  <2> HIDE DEF a, b
  <2>9. r = a \o b
    BY DEF RemoveAt, a, b
  <2> HIDE DEF r
  <2>10. /\ Len(a \o b) = Len(a) + Len(b)
         /\ \A i \in 1 .. Len(a) + Len(b) : (a \o b)[i] = IF i <= Len(a) THEN a[i] ELSE b[i - Len(a)]
    BY <2>7, <2>8, ConcatProperties
  <2>11. Len(r) = Len(s) - 1
    BY <2>6, <2>7, <2>8, <2>9, <2>10
  <2>12. ASSUME NEW i \in 1 .. Len(s) - 1
         PROVE  \/ i < k /\ r[i] = s[i]
                \/ i >= k /\ i + 1 \in 1 .. Len(s) /\ r[i] = s[i + 1]
    <3>1. r[i] = IF i <= k - 1 THEN a[i] ELSE b[i - (k - 1)]
      BY <2>6, <2>7, <2>8, <2>9, <2>10
    <3>2. CASE i < k
      BY <2>6, <2>7, <3>1, <3>2
    <3>3. CASE ~(i < k)
      <4>1. i - (k - 1) \in 1 .. Len(s) - k /\ k + (i - (k - 1)) = i + 1
        BY <2>6, <3>3
      <4> QED BY <2>6, <2>8, <3>1, <3>3, <4>1
    <3> QED BY <3>2, <3>3
  <2>13. OrderKept(r, s)
    <3> SUFFICES ASSUME NEW i \in 1 .. Len(r), NEW j \in 1 .. Len(r), i <= j
                 PROVE  \E m, n \in 1 .. Len(s) : m <= n /\ r[i] = s[m] /\ r[j] = s[n]
      BY DEF OrderKept
    <3>0. i \in 1 .. Len(s) - 1 /\ j \in 1 .. Len(s) - 1
      BY <2>11
    <3>1. CASE j < k
      <4>1. r[j] = s[j] /\ r[i] = s[i] /\ i \in 1 .. Len(s) /\ j \in 1 .. Len(s)
        BY <3>0, <2>6, <2>12, <3>1
      <4> QED BY <4>1
    <3>2. CASE j >= k /\ i < k
      <4>1. i <= j + 1 /\ j + 1 \in 1 .. Len(s) /\ r[j] = s[j + 1] /\ r[i] = s[i] /\ i \in 1 .. Len(s)
        BY <3>0, <2>6, <2>12, <3>2
      <4> QED BY <4>1
    <3>3. CASE j >= k /\ i >= k
      <4>1. /\ i + 1 <= j + 1 /\ j + 1 \in 1 .. Len(s) /\ r[j] = s[j + 1] /\ r[i] = s[i + 1]
            /\ i + 1 \in 1 .. Len(s)
        BY <3>0, <2>6, <2>12, <3>3
      <4> QED BY <4>1
    <3> QED BY <2>6, <3>1, <3>2, <3>3
  <2> QED BY <2>5, <2>13 DEF r
<1>2. CASE ~\E i \in 1 .. Len(s) : s[i] = e
  BY <1>2 DEF RemoveFirst, OrderKept
<1> QED BY <1>1, <1>2

(* g_list_insert_sorted: an element is put before the n-th one. *)
LEMMA InsertAtSet ==
    ASSUME NEW S, NEW s \in Seq(S), NEW n \in 1 .. Len(s) + 1, NEW e \in S
    PROVE  /\ InsertAt(s, n, e) \in Seq(S) /\ Len(InsertAt(s, n, e)) = Len(s) + 1
           /\ \A i \in 1 .. Len(s) + 1 : \/ i < n /\ i \in 1 .. Len(s) /\ InsertAt(s, n, e)[i] = s[i]
                                         \/ i = n /\ InsertAt(s, n, e)[i] = e
                                         \/ i > n /\ i - 1 \in 1 .. Len(s) /\ InsertAt(s, n, e)[i] = s[i - 1]
           /\ ToSet(InsertAt(s, n, e)) = ToSet(s) \union {e}
           /\ NoDup(s) /\ e \notin ToSet(s) => NoDup(InsertAt(s, n, e))
<1> DEFINE a == SubSeq(s, 1, n - 1)
           b == SubSeq(s, n, Len(s))
           c == a \o <<e>>
           r == InsertAt(s, n, e)
<1>1. Len(s) \in Nat /\ n \in Nat /\ DOMAIN s = 1 .. Len(s)
  OBVIOUS
<1>2. a \in Seq(S) /\ Len(a) = n - 1 /\ \A i \in 1 .. n - 1 : a[i] = s[i]
  OBVIOUS
<1>3. b \in Seq(S) /\ Len(b) = Len(s) - n + 1 /\ \A i \in 1 .. Len(s) - n + 1 : b[i] = s[n + i - 1]
  OBVIOUS
<1> HIDE DEF a, b
<1>4. c \in Seq(S) /\ Len(c) = n /\ c[n] = e /\ \A i \in 1 .. n - 1 : c[i] = s[i]
  <2>1. <<e>> \in Seq(S) /\ Len(<<e>>) = 1 /\ <<e>>[1] = e
    OBVIOUS
  <2>2. c \in Seq(S) /\ Len(c) = Len(a) + 1 /\ \A i \in 1 .. Len(a) + 1 : c[i] = IF i <= Len(a) THEN a[i] ELSE <<e>>[i - Len(a)]
    BY <1>2, <2>1, ConcatProperties
  <2>3. c[n] = <<e>>[1]
    BY <1>1, <1>2, <2>2
  <2> QED BY <1>1, <1>2, <2>1, <2>2, <2>3
<1>5. r = c \o b
  BY DEF InsertAt, a, b
<1> HIDE DEF c, r
<1>6. /\ r \in Seq(S) /\ Len(r) = Len(c) + Len(b)
      /\ \A i \in 1 .. Len(c) + Len(b) : r[i] = IF i <= Len(c) THEN c[i] ELSE b[i - Len(c)]
  BY <1>3, <1>4, <1>5, ConcatProperties
<1>7. Len(r) = Len(s) + 1 /\ DOMAIN r = 1 .. Len(s) + 1
  BY <1>1, <1>3, <1>4, <1>6
<1>8. ASSUME NEW i \in 1 .. Len(s) + 1
      PROVE  \/ i < n /\ i \in 1 .. Len(s) /\ r[i] = s[i]
             \/ i = n /\ r[i] = e
             \/ i > n /\ i - 1 \in 1 .. Len(s) /\ r[i] = s[i - 1]
  <2>1. r[i] = IF i <= n THEN c[i] ELSE b[i - n]
    BY <1>1, <1>3, <1>4, <1>6
  <2>2. CASE i < n
    BY <1>1, <1>4, <2>1, <2>2
  <2>3. CASE i = n
    BY <1>1, <1>4, <2>1, <2>3
  <2>4. CASE i > n
    <3>1. i - n \in 1 .. Len(s) - n + 1 /\ n + (i - n) - 1 = i - 1
      BY <1>1, <2>4
    <3> QED BY <1>1, <1>3, <2>1, <2>4, <3>1
  <2> QED BY <1>1, <2>2, <2>3, <2>4
<1>9. ToSet(r) \subseteq ToSet(s) \union {e}
  BY <1>1, <1>7, <1>8 DEF ToSet
<1>10. e \in ToSet(r)
  <2>1. n \in 1 .. Len(s) + 1 /\ r[n] = e
    BY <1>1, <1>8
  <2> QED BY <1>7, <2>1 DEF ToSet
<1>11. ASSUME NEW i \in 1 .. Len(s) PROVE s[i] \in ToSet(r)
  <2>1. CASE i < n
    BY <1>1, <1>7, <1>8, <2>1 DEF ToSet
  <2>2. CASE i >= n
    <3>1. i + 1 \in 1 .. Len(s) + 1 /\ r[i + 1] = s[i]
      <4>1. i + 1 \in 1 .. Len(s) + 1 /\ i + 1 > n /\ (i + 1) - 1 = i
        BY <1>1, <2>2
      <4> QED BY <1>8, <4>1
    <3> QED BY <1>7, <3>1 DEF ToSet
  <2> QED BY <1>1, <2>1, <2>2
<1>12. ToSet(r) = ToSet(s) \union {e}
  BY <1>1, <1>9, <1>10, <1>11 DEF ToSet
<1>13. ASSUME NoDup(s), e \notin ToSet(s) PROVE NoDup(r)
  <2>1. \A k \in 1 .. Len(s) : s[k] # e
    BY <1>1, <1>13 DEF ToSet
  <2> SUFFICES ASSUME NEW i \in 1 .. Len(s) + 1, NEW j \in 1 .. Len(s) + 1, r[i] = r[j] PROVE i = j
    BY <1>7 DEF NoDup
  <2>2. \A k, l \in 1 .. Len(s) : s[k] = s[l] => k = l
    BY <1>13 DEF NoDup
  <2> QED BY <1>1, <1>8, <2>1, <2>2
<1>14. /\ r \in Seq(S) /\ Len(r) = Len(s) + 1
       /\ \A i \in 1 .. Len(s) + 1 : \/ i < n /\ i \in 1 .. Len(s) /\ r[i] = s[i]
                                     \/ i = n /\ r[i] = e
                                     \/ i > n /\ i - 1 \in 1 .. Len(s) /\ r[i] = s[i - 1]
       /\ ToSet(r) = ToSet(s) \union {e}
       /\ NoDup(s) /\ e \notin ToSet(s) => NoDup(r)
  <2>1. \A i \in 1 .. Len(s) + 1 : \/ i < n /\ i \in 1 .. Len(s) /\ r[i] = s[i]
                                   \/ i = n /\ r[i] = e
                                   \/ i > n /\ i - 1 \in 1 .. Len(s) /\ r[i] = s[i - 1]
    BY <1>8
  <2>2. NoDup(s) /\ e \notin ToSet(s) => NoDup(r)
    BY <1>13
  <2>3. r \in Seq(S) /\ Len(r) = Len(s) + 1
    BY <1>6, <1>7
  <2> QED BY <1>12, <2>1, <2>2, <2>3
<1> QED BY <1>14 DEF r
=============================================================================
