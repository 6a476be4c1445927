--------------------------- MODULE RmpListProofs ---------------------------
(***************************************************************************)
(* What the list operations of the kernel and of the allocator do to the   *)
(* elements of a list and to their order: RMP_List_Ins at the tail         *)
(* (Append) or before a node (InsertAt), RMP_List_Del (RemoveFirst).       *)
(***************************************************************************)
EXTENDS Integers, SequencesExt, SequenceTheorems, WellFoundedInduction, TLAPS

\* Every nonempty set of naturals has a least element.
LEMMA LeastNat ==
  ASSUME NEW S \in SUBSET Nat, S # {}
  PROVE  \E m \in S : \A n \in S : m <= n
<1>1. PICK m \in S : \A n \in S : ~ (<<n, m>> \in OpToRel(<, Nat))
  BY NatLessThanWellFounded, WFMin
<1>2. ASSUME NEW n \in S, n < m
      PROVE  <<n, m>> \in OpToRel(<, Nat)
  BY <1>2 DEF OpToRel
<1>3. \A n \in S : ~(n < m)
  BY <1>1, <1>2
<1>. QED  BY <1>3

\* Min of a nonempty set of naturals.
LEMMA MinOfNats ==
  ASSUME NEW S \in SUBSET Nat, S # {}
  PROVE  Min(S) \in S /\ \A n \in S : Min(S) <= n
BY LeastNat DEF Min

\* Membership in the set of a list's elements.
LEMMA ToSetLemma ==
  ASSUME NEW T, NEW s \in Seq(T), NEW x
  PROVE  /\ x \in ToSet(s) <=> \E i \in 1..Len(s) : s[i] = x
         /\ ToSet(s) \subseteq T
BY DEF ToSet

\* RMP_List_Ins at the tail adds the thread to the list.
LEMMA AppendLemma ==
  ASSUME NEW T, NEW s \in Seq(T), NEW t \in T
  PROVE  /\ Append(s, t) \in Seq(T)
         /\ ToSet(Append(s, t)) = ToSet(s) \cup {t}
         /\ IsInjective(s) /\ t \notin ToSet(s) => IsInjective(Append(s, t))
         /\ s # <<>> => Head(Append(s, t)) = Head(s)
<1>1. ToSet(Append(s, t)) = ToSet(s) \cup {t}
  <2>1. \A i \in 1..Len(s) : Append(s, t)[i] = s[i]  OBVIOUS
  <2>2. Append(s, t)[Len(s) + 1] = t  OBVIOUS
  <2>3. DOMAIN Append(s, t) = 1..(Len(s) + 1) /\ DOMAIN s = 1..Len(s)  OBVIOUS
  <2>. QED  BY <2>1, <2>2, <2>3 DEF ToSet
<1>2. ASSUME IsInjective(s), t \notin ToSet(s)  PROVE IsInjective(Append(s, t))
  BY <1>2 DEF IsInjective, ToSet
<1>. QED  BY <1>1, <1>2

\* Where the elements of a list are after the removal of its m-th.
LEMMA RemoveAtLemma ==
  ASSUME NEW T, NEW s \in Seq(T), NEW m \in 1..Len(s)
  PROVE  LET r == RemoveAt(s, m)
         IN  /\ r \in Seq(T)
             /\ Len(r) = Len(s) - 1
             /\ \A i \in 1..(Len(s) - 1) :
                   r[i] = IF i < m THEN s[i] ELSE s[i + 1]
<1> DEFINE r == RemoveAt(s, m)
           u == SubSeq(s, 1, m - 1)
           v == SubSeq(s, m + 1, Len(s))
<1>1. /\ u \in Seq(T) /\ Len(u) = m - 1
      /\ \A i \in 1..(m - 1) : u[i] = s[i]
  OBVIOUS
<1>2. /\ v \in Seq(T) /\ Len(v) = Len(s) - m
      /\ \A i \in 1..(Len(s) - m) : v[i] = s[i + m]
  OBVIOUS
<1>3. r = u \o v  BY DEF RemoveAt
<1> HIDE DEF u, v
<1>4. /\ u \o v \in Seq(T) /\ Len(u \o v) = Len(u) + Len(v)
      /\ \A i \in 1..(Len(u) + Len(v)) :
            (u \o v)[i] = IF i <= Len(u) THEN u[i] ELSE v[i - Len(u)]
  BY <1>1, <1>2, ConcatProperties
<1> HIDE DEF r
<1>. QED  BY <1>1, <1>2, <1>3, <1>4 DEF r

\* RMP_List_Del removes the thread, keeps the others and their order.
LEMMA RemoveLemma ==
  ASSUME NEW T, NEW s \in Seq(T), NEW t, IsInjective(s)
  PROVE  /\ RemoveFirst(s, t) \in Seq(T)
         /\ ToSet(RemoveFirst(s, t)) = ToSet(s) \ {t}
         /\ IsInjective(RemoveFirst(s, t))
         /\ s # <<>> /\ Head(s) # t =>
               /\ RemoveFirst(s, t) # <<>>
               /\ Head(RemoveFirst(s, t)) = Head(s)
<1>1. CASE \A i \in 1..Len(s) : s[i] # t
  <2>1. RemoveFirst(s, t) = s  BY <1>1 DEF RemoveFirst
  <2>2. t \notin ToSet(s)  BY <1>1 DEF ToSet
  <2>. QED  BY <2>1, <2>2
<1>2. CASE \E i \in 1..Len(s) : s[i] = t
  <2> DEFINE I == {i \in 1..Len(s) : s[i] = t}
             m == Min(I)
             r == RemoveAt(s, m)
  <2>1. m \in 1..Len(s) /\ s[m] = t
    <3>1. I \in SUBSET Nat /\ I # {}  BY <1>2
    <3>2. m \in I  BY <3>1, MinOfNats
    <3>. QED  BY <3>2
  <2>2. RemoveFirst(s, t) = r
    BY <1>2 DEF RemoveFirst, SelectInSeq
  <2> HIDE DEF m
  <2>3. /\ r \in Seq(T)
        /\ Len(r) = Len(s) - 1
        /\ \A i \in 1..(Len(s) - 1) : r[i] = IF i < m THEN s[i] ELSE s[i + 1]
    BY <2>1, RemoveAtLemma
  <2>4. ToSet(r) = ToSet(s) \ {t}
    <3>1. ASSUME NEW i \in 1..Len(s), s[i] # t
          PROVE  \E j \in 1..Len(r) : r[j] = s[i]
      <4>1. CASE i < m  BY <4>1, <2>1, <2>3
      <4>2. CASE i > m
        <5>1. i - 1 \in 1..Len(r) /\ r[i - 1] = s[i]
          BY <4>2, <2>1, <2>3
        <5>. QED  BY <5>1
      <4>. QED  BY <4>1, <4>2, <3>1, <2>1
    <3>2. ASSUME NEW j \in 1..Len(r)
          PROVE  \E i \in 1..Len(s) : i # m /\ s[i] = r[j]
      <4>1. CASE j < m  BY <4>1, <2>1, <2>3
      <4>2. CASE j >= m
        <5>1. j + 1 \in 1..Len(s) /\ j + 1 # m /\ r[j] = s[j + 1]
          BY <4>2, <2>1, <2>3
        <5>. QED  BY <5>1
      <4>. QED  BY <4>1, <4>2, <2>1, <2>3
    <3>3. \A i \in 1..Len(s) : i # m => s[i] # t
      BY <2>1 DEF IsInjective
    <3>4. ASSUME NEW x  PROVE x \in ToSet(r) <=> x \in ToSet(s) \ {t}
      <4>1. x \in ToSet(r) <=> \E j \in 1..Len(r) : r[j] = x
        BY <2>3, ToSetLemma
      <4>2. x \in ToSet(s) <=> \E i \in 1..Len(s) : s[i] = x
        BY ToSetLemma
      <4> HIDE DEF r
      <4>. QED  BY <3>1, <3>2, <3>3, <4>1, <4>2
    <3>. QED  BY <3>4
  <2>5. IsInjective(r)
    <3> DEFINE g(i) == IF i < m THEN i ELSE i + 1
    <3>1. ASSUME NEW i \in 1..Len(r)
          PROVE  g(i) \in 1..Len(s) /\ r[i] = s[g(i)]
      BY <2>1, <2>3
    <3>2. ASSUME NEW i \in 1..Len(r), NEW j \in 1..Len(r), g(i) = g(j)
          PROVE  i = j
      BY <3>2, <2>1, <2>3
    <3>3. DOMAIN r = 1..Len(r) /\ DOMAIN s = 1..Len(s)  BY <2>3
    <3> HIDE DEF g, r
    <3>. QED  BY <3>1, <3>2, <3>3 DEF IsInjective
  <2>6. s # <<>> /\ Head(s) # t => r # <<>> /\ Head(r) = Head(s)
    BY <2>1, <2>3
  <2>. QED  BY <2>2, <2>3, <2>4, <2>5, <2>6
<1>. QED  BY <1>1, <1>2

\* Where the elements of a list are after an insertion at position i.
LEMMA InsertAtLemma ==
  ASSUME NEW T, NEW s \in Seq(T), NEW t \in T, NEW i \in 1..(Len(s) + 1)
  PROVE  LET r == InsertAt(s, i, t)
         IN  /\ r \in Seq(T)
             /\ Len(r) = Len(s) + 1
             /\ \A j \in 1..(Len(s) + 1) :
                   r[j] = IF j < i THEN s[j] ELSE IF j = i THEN t ELSE s[j - 1]
<1> DEFINE r == InsertAt(s, i, t)
<1>1. /\ r \in Seq(T)
      /\ Len(r) = Len(s) + 1
      /\ \A j \in 1..(Len(s) + 1) :
            r[j] = IF j < i THEN s[j] ELSE IF j = i THEN t ELSE s[j - 1]
  <2> DEFINE u == SubSeq(s, 1, i - 1)
             v == SubSeq(s, i, Len(s))
             w == u \o <<t>>
  <2>1. /\ u \in Seq(T) /\ Len(u) = i - 1
        /\ \A j \in 1..(i - 1) : u[j] = s[j]
    OBVIOUS
  <2>2. /\ v \in Seq(T) /\ Len(v) = Len(s) - i + 1
        /\ \A j \in 1..(Len(s) - i + 1) : v[j] = s[j + i - 1]
    OBVIOUS
  <2>3. r = w \o v  BY DEF InsertAt
  <2> HIDE DEF u, v
  <2>4. /\ w \in Seq(T) /\ Len(w) = i
        /\ \A j \in 1..i : w[j] = IF j < i THEN s[j] ELSE t
    <3>1. <<t>> \in Seq(T) /\ Len(<<t>>) = 1 /\ <<t>>[1] = t  OBVIOUS
    <3>. QED  BY <2>1, <3>1, ConcatProperties
  <2> HIDE DEF w
  <2>5. /\ w \o v \in Seq(T) /\ Len(w \o v) = Len(w) + Len(v)
        /\ \A j \in 1..(Len(w) + Len(v)) :
              (w \o v)[j] = IF j <= Len(w) THEN w[j] ELSE v[j - Len(w)]
    BY <2>2, <2>4, ConcatProperties
  <2>. QED  BY <2>2, <2>3, <2>4, <2>5
<1>. QED  BY <1>1

\* RMP_List_Ins before position i adds the thread to the list.
LEMMA InsertLemma ==
  ASSUME NEW T, NEW s \in Seq(T), NEW t \in T, NEW i \in 1..(Len(s) + 1)
  PROVE  /\ InsertAt(s, i, t) \in Seq(T)
         /\ ToSet(InsertAt(s, i, t)) = ToSet(s) \cup {t}
         /\ IsInjective(s) /\ t \notin ToSet(s) => IsInjective(InsertAt(s, i, t))
<1> DEFINE r == InsertAt(s, i, t)
<1>1. /\ r \in Seq(T)
      /\ Len(r) = Len(s) + 1
      /\ \A j \in 1..(Len(s) + 1) :
            r[j] = IF j < i THEN s[j] ELSE IF j = i THEN t ELSE s[j - 1]
  BY InsertAtLemma
<1> HIDE DEF r
<1>2. ToSet(r) = ToSet(s) \cup {t}
  <2>1. ASSUME NEW j \in 1..Len(s)  PROVE \E l \in 1..Len(r) : r[l] = s[j]
    <3>1. CASE j < i  BY <3>1, <1>1
    <3>2. CASE j >= i
      <4>1. j + 1 \in 1..Len(r) /\ r[j + 1] = s[j]  BY <3>2, <1>1
      <4>. QED  BY <4>1
    <3>. QED  BY <3>1, <3>2
  <2>2. ASSUME NEW l \in 1..Len(r)
        PROVE  r[l] = t \/ \E j \in 1..Len(s) : s[j] = r[l]
    <3>1. CASE l < i  BY <3>1, <1>1
    <3>2. CASE l = i  BY <3>2, <1>1
    <3>3. CASE l > i
      <4>1. l - 1 \in 1..Len(s) /\ r[l] = s[l - 1]  BY <3>3, <1>1
      <4>. QED  BY <4>1
    <3>. QED  BY <3>1, <3>2, <3>3
  <2>3. r[i] = t /\ i \in 1..Len(r)  BY <1>1
  <2>4. ASSUME NEW x  PROVE x \in ToSet(r) <=> x \in ToSet(s) \cup {t}
    <3>1. x \in ToSet(r) <=> \E l \in 1..Len(r) : r[l] = x
      BY <1>1, ToSetLemma
    <3>2. x \in ToSet(s) <=> \E j \in 1..Len(s) : s[j] = x
      BY ToSetLemma
    <3>. QED  BY <2>1, <2>2, <2>3, <3>1, <3>2
  <2>. QED  BY <2>4
<1>3. ASSUME IsInjective(s), t \notin ToSet(s)  PROVE IsInjective(r)
  <2>1. \A j \in 1..Len(s) : s[j] # t  BY <1>3, ToSetLemma
  <2>2. SUFFICES ASSUME NEW j \in 1..Len(r), NEW l \in 1..Len(r), r[j] = r[l]
                 PROVE  j = l
    BY <1>1 DEF IsInjective
  <2>3. \A n \in 1..Len(r) : n # i =>
           LET m == IF n < i THEN n ELSE n - 1
           IN  m \in 1..Len(s) /\ r[n] = s[m]
    BY <1>1
  <2>4. r[i] = t  BY <1>1
  <2>5. \A m, n \in 1..Len(s) : s[m] = s[n] => m = n
    BY <1>3 DEF IsInjective
  <2>6. CASE j # i /\ l # i
    <3>1. (IF j < i THEN j ELSE j - 1) = (IF l < i THEN l ELSE l - 1)
      BY <2>2, <2>3, <2>5, <2>6
    <3>. QED  BY <2>6, <3>1, <1>1
  <2>. QED  BY <2>1, <2>2, <2>3, <2>4, <2>6
<1>. QED  BY <1>1, <1>2, <1>3 DEF r

\* a is somewhere before b on q.
Before(q, a, b) == \E i, j \in 1..Len(q) : i < j /\ q[i] = a /\ q[j] = b

\* RMP_List_Del keeps the order of the others.
LEMMA RemoveOrder ==
  ASSUME NEW T, NEW s \in Seq(T), NEW t
  PROVE  LET r == RemoveFirst(s, t)
         IN  /\ r \in Seq(T)
             /\ ToSet(r) \subseteq ToSet(s)
             /\ \A a, b : Before(r, a, b) => Before(s, a, b)
<1>1. CASE \A i \in 1..Len(s) : s[i] # t
  <2>1. RemoveFirst(s, t) = s  BY <1>1 DEF RemoveFirst
  <2>. QED  BY <2>1
<1>2. CASE \E i \in 1..Len(s) : s[i] = t
  <2> DEFINE I == {i \in 1..Len(s) : s[i] = t}
             m == Min(I)
             r == RemoveAt(s, m)
             g(i) == IF i < m THEN i ELSE i + 1
  <2>1. m \in 1..Len(s)
    <3>1. I \in SUBSET Nat /\ I # {}  BY <1>2
    <3>2. m \in I  BY <3>1, MinOfNats
    <3>. QED  BY <3>2
  <2>2. RemoveFirst(s, t) = r
    BY <1>2 DEF RemoveFirst, SelectInSeq
  <2> HIDE DEF m
  <2>3. /\ r \in Seq(T) /\ Len(r) = Len(s) - 1
        /\ \A i \in 1..(Len(s) - 1) : r[i] = IF i < m THEN s[i] ELSE s[i + 1]
    BY <2>1, RemoveAtLemma
  <2> HIDE DEF r
  <2>4. \A i \in 1..Len(r) : g(i) \in 1..Len(s) /\ r[i] = s[g(i)]
    BY <2>1, <2>3
  <2>5. \A i, j \in 1..Len(r) : i < j => g(i) < g(j)
    BY <2>1, <2>3
  <2> HIDE DEF g
  <2>6. \A a, b : Before(r, a, b) => Before(s, a, b)
    BY <2>4, <2>5 DEF Before
  <2>7. \A x \in ToSet(r) : x \in ToSet(s)
    BY <2>3, <2>4, ToSetLemma
  <2>. QED  BY <2>2, <2>3, <2>6, <2>7
<1>. QED  BY <1>1, <1>2

\* RMP_List_Ins before position i: the others keep their order, and the new
\* element is after those before i and before the others.
LEMMA InsertOrder ==
  ASSUME NEW T, NEW s \in Seq(T), NEW t \in T, NEW i \in 1..(Len(s) + 1)
  PROVE  \A a, b : Before(InsertAt(s, i, t), a, b) =>
            \/ Before(s, a, b)
            \/ b = t /\ \E j \in 1..Len(s) : j < i /\ s[j] = a
            \/ a = t /\ \E j \in 1..Len(s) : j >= i /\ s[j] = b
<1> DEFINE r == InsertAt(s, i, t)
<1>1. /\ r \in Seq(T) /\ Len(r) = Len(s) + 1
      /\ \A j \in 1..(Len(s) + 1) :
            r[j] = IF j < i THEN s[j] ELSE IF j = i THEN t ELSE s[j - 1]
  BY InsertAtLemma, SMTT(60)
<1> HIDE DEF r
<1> SUFFICES ASSUME NEW a, NEW b, Before(r, a, b)
             PROVE  \/ Before(s, a, b)
                    \/ b = t /\ \E j \in 1..Len(s) : j < i /\ s[j] = a
                    \/ a = t /\ \E j \in 1..Len(s) : j >= i /\ s[j] = b
  BY DEF r
<1>2. PICK l \in 1..Len(r), j \in 1..Len(r) : l < j /\ r[l] = a /\ r[j] = b
  BY DEF Before
<1> DEFINE g(h) == IF h < i THEN h ELSE h - 1
<1>3. \A n \in 1..Len(r) : n # i => g(n) \in 1..Len(s) /\ r[n] = s[g(n)]
  BY <1>1
<1>4. r[i] = t  BY <1>1
<1>5. CASE l # i /\ j # i
  <2>1. g(l) < g(j)  BY <1>1, <1>2, <1>5
  <2> HIDE DEF g
  <2>2. Before(s, a, b)  BY <1>2, <1>3, <1>5, <2>1 DEF Before
  <2>. QED  BY <2>2
<1>6. CASE j = i
  <2>1. g(l) < i /\ l # i  BY <1>1, <1>2, <1>6
  <2> HIDE DEF g
  <2>. QED  BY <1>2, <1>3, <1>4, <1>6, <2>1
<1>7. CASE l = i
  <2>1. g(j) >= i /\ j # i  BY <1>1, <1>2, <1>7
  <2> HIDE DEF g
  <2>. QED  BY <1>2, <1>3, <1>4, <1>7, <2>1
<1>. QED  BY <1>5, <1>6, <1>7
============================================================================
