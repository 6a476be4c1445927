--------------------------- MODULE RmpQueueProofs ---------------------------
(***************************************************************************)
(* FIFOs, message queues and blocking message queues, in a kernel in which *)
(* threads and interrupt handlers make all other calls, too: the pointers  *)
(* of the lists are well-formed, a receiver that was granted an item finds *)
(* a node, no assertion fails, and items and slots are conserved.          *)
(***************************************************************************)
EXTENDS RmpQueue, RmpKernelProofs

----------------------------------------------------------------------------
(* Lists of pointers.                                                      *)

\* The list of f in p is the sequence q: next and prev go round it.
Ring(p, f, q) ==
    /\ q \in Seq(Node) /\ IsInjective(q)
    /\ p.next[f] = IF q = <<>> THEN f ELSE q[1]
    /\ p.prev[f] = IF q = <<>> THEN f ELSE q[Len(q)]
    /\ \A i \in 1..Len(q) :
          /\ p.next[q[i]] = IF i = Len(q) THEN f ELSE q[i + 1]
          /\ p.prev[q[i]] = IF i = 1 THEN f ELSE q[i - 1]

\* The paths from f along next, of up to n steps.
Path(p, f, n, g) ==
    g = [i \in 0..n |->
            IF i = 0 THEN <<f>>
            ELSE LET s == g[i - 1]
                     c == p.next[Last(s)]
                 IN  IF c = f THEN s ELSE Append(s, c)]

\* They exist: a least length without one is neither 0 nor a successor.
LEMMA PathExists ==
  ASSUME NEW p, NEW f, NEW n \in Nat
  PROVE  \E g : Path(p, f, n, g)
<1> DEFINE Go(s) == LET c == p.next[Last(s)]
                    IN  IF c = f THEN s ELSE Append(s, c)
           Bad == {m \in Nat : ~\E g : Path(p, f, m, g)}
<1>1. SUFFICES ASSUME Bad # {}  PROVE FALSE
  OBVIOUS
<1>2. PICK m \in Bad : \A j \in Bad : m <= j
  BY <1>1, LeastNat
<1>3. \A g : \A j : Path(p, f, j, g) <=>
         g = [i \in 0..j |-> IF i = 0 THEN <<f>> ELSE Go(g[i - 1])]
  BY DEF Path
<1> HIDE DEF Go
<1>4. CASE m = 0
  <2> DEFINE g == [i \in 0..0 |-> <<f>>]
  <2>1. g = [i \in 0..0 |-> IF i = 0 THEN <<f>> ELSE Go(g[i - 1])]
    OBVIOUS
  <2> HIDE DEF g
  <2>. QED  BY <2>1, <1>2, <1>3, <1>4
<1>5. CASE m # 0
  <2>1. m - 1 \in Nat /\ m - 1 \notin Bad /\ m \in Nat  BY <1>2, <1>5
  <2>2. PICK g : Path(p, f, m - 1, g)  BY <2>1
  <2> DEFINE h == [i \in 0..m |-> IF i = m THEN Go(g[m - 1]) ELSE g[i]]
             d == [i \in 0..m |-> IF i = 0 THEN <<f>> ELSE Go(h[i - 1])]
  <2>3. \A i \in 0..(m - 1) : g[i] = IF i = 0 THEN <<f>> ELSE Go(g[i - 1])
    BY <2>2, <1>3
  <2>4. ASSUME NEW i \in 0..m  PROVE h[i] = d[i]
    <3>1. CASE i = m
      <4>1. m - 1 \in 0..m /\ m - 1 # m  BY <2>1
      <4>2. h[m - 1] = g[m - 1]  BY <4>1
      <4>. QED  BY <4>2, <3>1, <1>5
    <3>2. CASE i = 0  BY <3>2, <1>5, <2>1, <2>3
    <3>3. CASE i # 0 /\ i # m
      <4>1. i - 1 \in 0..m /\ i - 1 # m /\ i \in 0..(m - 1)  BY <3>3, <2>1
      <4>2. h[i - 1] = g[i - 1] /\ h[i] = g[i]  BY <4>1, <3>3
      <4>. QED  BY <4>1, <4>2, <3>3, <2>3
    <3>. QED  BY <3>1, <3>2, <3>3
  <2>5. h = d  BY <2>4
  <2> HIDE DEF h
  <2>6. Path(p, f, m, h)  BY <2>5, <1>3
  <2>. QED  BY <2>6, <1>2
<1>. QED  BY <1>4, <1>5

\* There are finitely many nodes.
LEMMA NodeCount == Cardinality(Node) \in Nat
BY ListAssumption, FS_CardinalityType

\* Nodes returns the end of such a path.
LEMMA NodesPath ==
  ASSUME NEW p, NEW f
  PROVE  LET n == Cardinality(Node) + 1
         IN  \E g : Path(p, f, n, g) /\ Nodes(p, f) = Tail(g[n])
<1> DEFINE n == Cardinality(Node) + 1
           g == CHOOSE h : Path(p, f, n, h)
<1>1. n \in Nat  BY NodeCount
<1> HIDE DEF n
<1>2. Path(p, f, n, g)  BY <1>1, PathExists
<1>3. Nodes(p, f) = Tail(g[n])  BY DEF Nodes, Path, n
<1>. QED  BY <1>2, <1>3 DEF n

\* A list without repetitions is no longer than there are nodes.
LEMMA ShortLists ==
  ASSUME NEW q \in Seq(Node), IsInjective(q)
  PROVE  Len(q) <= Cardinality(Node)
<1>1. Cardinality(ToSet(q)) = Len(q)  BY CountFirst
<1>2. ToSet(q) \subseteq Node  BY ToSetLemma
<1>. QED  BY <1>1, <1>2, ListAssumption, FS_Subset

\* The nodes that are reached are those of the ring.
LEMMA NodesOfRing ==
  ASSUME NEW p, NEW f \in Fifo, NEW q, Ring(p, f, q)
  PROVE  Nodes(p, f) = q
<1> DEFINE n == Cardinality(Node) + 1
           L == Len(q)
           min(i) == IF i <= L THEN i ELSE L
<1>1. /\ q \in Seq(Node) /\ IsInjective(q) /\ L \in Nat
      /\ p.next[f] = IF L = 0 THEN f ELSE q[1]
      /\ \A i \in 1..L : q[i] \in Node
      /\ \A i \in 1..L : p.next[q[i]] = IF i = L THEN f ELSE q[i + 1]
  <2>1. q \in Seq(Node)  BY DEF Ring
  <2>2. q = <<>> <=> L = 0  BY <2>1
  <2>. QED  BY <2>1, <2>2 DEF Ring
<1>2. n \in Nat /\ L < n  BY <1>1, NodeCount, ShortLists
<1>3. PICK g : Path(p, f, n, g) /\ Nodes(p, f) = Tail(g[n])  BY NodesPath
<1> HIDE DEF n, L
<1> DEFINE Ok(i) == /\ g[i] \in Seq(Cell) /\ Len(g[i]) = min(i) + 1
                    /\ g[i][1] = f
                    /\ \A j \in 1..min(i) : g[i][j + 1] = q[j]
           Bad == {i \in 0..n : ~Ok(i)}
<1>4. \A i \in 0..n : g[i] =
         IF i = 0 THEN <<f>>
         ELSE LET s == g[i - 1]
                  c == p.next[Last(s)]
              IN  IF c = f THEN s ELSE Append(s, c)
  BY <1>3 DEF Path
<1>5. Ok(0)
  <2>1. g[0] = <<f>>  BY <1>2, <1>4
  <2>2. min(0) = 0  BY <1>1
  <2> HIDE DEF min
  <2>. QED  BY <2>1, <2>2 DEF Cell
<1>6. ASSUME NEW i \in 1..n, Ok(i - 1)  PROVE Ok(i)
  <2> DEFINE s == g[i - 1]
             m == min(i - 1)
  <2>1. m \in 0..L /\ (m # L => m = i - 1) /\ min(i) = IF m = L THEN L ELSE i
    BY <1>1, <1>2
  <2>2. /\ s \in Seq(Cell) /\ Len(s) = m + 1 /\ s[1] = f
        /\ \A j \in 1..m : s[j + 1] = q[j]
    BY <1>6
  <2>3. Last(s) = IF m = 0 THEN f ELSE q[m]
    <3> HIDE DEF s, m
    <3>1. m \in Nat  BY <2>1, <1>1
    <3>. QED  BY <2>2, <3>1 DEF Last
  <2>4. g[i] = LET c == p.next[Last(s)] IN IF c = f THEN s ELSE Append(s, c)
    <3>1. i \in 0..n /\ i # 0  BY <1>2
    <3>. QED  BY <3>1, <1>4
  <2>5. min(i) \in Nat /\ i \in Nat  BY <1>1, <1>2
  <2> DEFINE l == min(i)
  <2> HIDE DEF s, m, min
  <2>6. CASE m = L
    <3>1. p.next[Last(s)] = f  BY <1>1, <2>1, <2>3, <2>6
    <3>2. g[i] = s /\ l = m  BY <2>1, <2>4, <2>6, <3>1
    <3>. QED  BY <2>2, <3>2
  <2>7. CASE m # L
    <3>1. l = m + 1 /\ m + 1 \in 1..L /\ m \in Nat  BY <2>1, <2>7, <1>1
    <3>2. p.next[Last(s)] = q[m + 1]  BY <1>1, <2>1, <2>3, <2>7, <3>1
    <3>3. q[m + 1] \in Node /\ q[m + 1] # f
      BY <1>1, <3>1, ListAssumption
    <3>4. g[i] = Append(s, q[m + 1])  BY <2>4, <3>2, <3>3
    <3>5. q[m + 1] \in Cell  BY <3>3 DEF Cell
    <3>6. /\ g[i] \in Seq(Cell) /\ Len(g[i]) = m + 2
          /\ \A j \in 1..(m + 1) : g[i][j] = s[j]
          /\ g[i][m + 2] = q[m + 1]
      BY <2>2, <3>1, <3>4, <3>5
    <3>7. ASSUME NEW j \in 1..(m + 1)  PROVE g[i][j + 1] = q[j]
      <4>1. CASE j = m + 1  BY <4>1, <3>6, <3>1
      <4>2. CASE j # m + 1
        <5>1. j \in 1..m /\ j + 1 \in 1..(m + 1)  BY <4>2, <3>1
        <5>. QED  BY <5>1, <3>6, <2>2
      <4>. QED  BY <4>1, <4>2
    <3>8. g[i][1] = f  BY <3>1, <3>6, <2>2
    <3>. QED  BY <3>1, <3>6, <3>7, <3>8
  <2>. QED  BY <2>6, <2>7
<1>7. Bad = {}
  <2>1. SUFFICES ASSUME Bad # {}  PROVE FALSE
    OBVIOUS
  <2>2. PICK i \in Bad : \A j \in Bad : i <= j
    <3>1. Bad \in SUBSET Nat  BY <1>2
    <3> HIDE DEF Bad
    <3>. QED  BY <2>1, <3>1, LeastNat
  <2> HIDE DEF Ok
  <2>3. i \in 0..n /\ ~Ok(i)  OBVIOUS
  <2>4. i # 0  BY <2>3, <1>5
  <2>5. i \in 1..n /\ i - 1 \in 0..n  BY <2>3, <2>4, <1>2
  <2>6. i - 1 \notin Bad  BY <2>2, <2>5
  <2>7. Ok(i - 1)  BY <2>5, <2>6
  <2>. QED  BY <1>6, <2>3, <2>5, <2>7
<1>8. Ok(n)
  <2> HIDE DEF Ok
  <2>. QED  BY <1>2, <1>7
<1>9. /\ g[n] \in Seq(Cell) /\ Len(g[n]) = L + 1
      /\ \A j \in 1..L : g[n][j + 1] = q[j]
  <2>1. min(n) = L  BY <1>1, <1>2
  <2> HIDE DEF min
  <2>. QED  BY <1>8, <2>1
<1> DEFINE r == Tail(g[n])
<1>10. r \in Seq(Cell) /\ Len(r) = L /\ \A j \in 1..L : r[j] = g[n][j + 1]
  <2> DEFINE z == g[n]
  <2>1. z \in Seq(Cell) /\ Len(z) = L + 1 /\ L \in Nat  BY <1>1, <1>9
  <2> HIDE DEF z
  <2>2. z # <<>>  BY <2>1
  <2>3. /\ Tail(z) \in Seq(Cell) /\ Len(Tail(z)) = L
        /\ \A j \in 1..L : Tail(z)[j] = z[j + 1]
    BY <2>1, <2>2
  <2>. QED  BY <2>3 DEF z
<1> HIDE DEF r
<1>11. r = q  BY <1>1, <1>9, <1>10, SeqEqual DEF L
<1>. QED  BY <1>3, <1>11 DEF r

\* The list of f depends on its cells only.
LEMMA RingFrame ==
  ASSUME NEW p, NEW r, NEW f, NEW q, Ring(p, f, q),
         \A c \in {f} \cup ToSet(q) : r.next[c] = p.next[c] /\ r.prev[c] = p.prev[c]
  PROVE  Ring(r, f, q)
<1>1. q \in Seq(Node) /\ \A i \in 1..Len(q) : q[i] \in ToSet(q)
  <2>1. q \in Seq(Node)  BY DEF Ring
  <2>. QED  BY <2>1, ToSetLemma
<1>. QED  BY <1>1 DEF Ring

\* RMP_Fifo_Write: the pointers it writes.
LEMMA WriteFields ==
  ASSUME NEW p \in Pointers, NEW f \in Fifo, NEW n \in Node
  PROVE  LET r == Write_Fifo(p, f, n)
             l == p.prev[f]
         IN  /\ r \in Pointers /\ l \in Cell /\ n # f
             /\ r.used = p.used
             /\ \A g \in Fifo : r.num[g] = IF g = f THEN p.num[f] + 1 ELSE p.num[g]
             /\ \A c \in Cell :
                   /\ r.next[c] = IF c = l THEN n ELSE IF c = n THEN f ELSE p.next[c]
                   /\ r.prev[c] = IF c = n THEN l ELSE IF c = f THEN n ELSE p.prev[c]
<1> DEFINE r == Write_Fifo(p, f, n)
           l == p.prev[f]
<1>1. /\ p.next \in [Cell -> Cell] /\ p.prev \in [Cell -> Cell]
      /\ p.num \in [Fifo -> Nat] /\ p.used \in SUBSET Fifo
      /\ DOMAIN p = {"next", "prev", "num", "used"}
  BY DEF Pointers
<1>2. f \in Cell /\ n \in Cell /\ n # f  BY ListAssumption DEF Cell
<1>3. l \in Cell  BY <1>1, <1>2
<1>4. /\ r.next = [[p.next EXCEPT ![n] = f] EXCEPT ![l] = n]
      /\ r.prev = [[p.prev EXCEPT ![f] = n] EXCEPT ![n] = l]
      /\ r.num = [p.num EXCEPT ![f] = @ + 1]
      /\ r.used = p.used
      /\ r = [next |-> r.next, prev |-> r.prev, num |-> r.num, used |-> r.used]
  <2> DEFINE x == List_Ins(p, n, l, f)
             y == [p EXCEPT !.prev[f] = n, !.next[n] = f]
  <2>1. p = [next |-> p.next, prev |-> p.prev, num |-> p.num, used |-> p.used]
    BY DEF Pointers
  <2>2. y = [p EXCEPT !.prev[f] = n, !.next[n] = f]
    OBVIOUS
  <2>3. x = [y EXCEPT !.prev[n] = l, !.next[l] = n]  BY DEF List_Ins
  <2> HIDE DEF x, y
  <2>4. /\ y.next = [p.next EXCEPT ![n] = f]
        /\ y.prev = [p.prev EXCEPT ![f] = n]
        /\ y.num = p.num /\ y.used = p.used
        /\ y = [next |-> y.next, prev |-> y.prev, num |-> y.num, used |-> y.used]
    BY <2>1, <2>2
  <2>5. /\ x.next = [y.next EXCEPT ![l] = n]
        /\ x.prev = [y.prev EXCEPT ![n] = l]
        /\ x.num = y.num /\ x.used = y.used
        /\ x = [next |-> x.next, prev |-> x.prev, num |-> x.num, used |-> x.used]
    BY <2>3, <2>4
  <2>6. r = [x EXCEPT !.num[f] = @ + 1]  BY DEF Write_Fifo, x
  <2> HIDE DEF r
  <2>7. /\ r.next = x.next /\ r.prev = x.prev /\ r.used = x.used
        /\ r.num = [x.num EXCEPT ![f] = @ + 1]
        /\ r = [next |-> r.next, prev |-> r.prev, num |-> r.num, used |-> r.used]
    BY <2>5, <2>6
  <2>. QED  BY <2>4, <2>5, <2>7
<1> HIDE DEF r, l
<1>5. r \in Pointers  BY <1>1, <1>2, <1>3, <1>4 DEF Pointers
<1>6. \A c \in Cell :
         /\ r.next[c] = IF c = l THEN n ELSE IF c = n THEN f ELSE p.next[c]
         /\ r.prev[c] = IF c = n THEN l ELSE IF c = f THEN n ELSE p.prev[c]
  BY <1>1, <1>2, <1>3, <1>4
<1>7. /\ r.used = p.used
      /\ \A g \in Fifo : r.num[g] = IF g = f THEN p.num[f] + 1 ELSE p.num[g]
  BY <1>1, <1>4
<1>. QED  BY <1>2, <1>3, <1>5, <1>6, <1>7 DEF r, l

\* A node that is on no list is appended.
LEMMA RingWrite ==
  ASSUME NEW p \in Pointers, NEW f \in Fifo, NEW n \in Node, NEW q,
         Ring(p, f, q), n \notin ToSet(q)
  PROVE  LET r == Write_Fifo(p, f, n)
         IN  /\ Ring(r, f, Append(q, n))
             /\ \A c \in Cell : c \notin {f, n} \cup ToSet(q) =>
                   r.next[c] = p.next[c] /\ r.prev[c] = p.prev[c]
<1> DEFINE r == Write_Fifo(p, f, n)
           l == p.prev[f]
           L == Len(q)
           z == Append(q, n)
<1>1. /\ q \in Seq(Node) /\ IsInjective(q) /\ L \in Nat
      /\ p.next[f] = IF L = 0 THEN f ELSE q[1]
      /\ p.prev[f] = IF L = 0 THEN f ELSE q[L]
      /\ \A i \in 1..L : q[i] \in Node /\ q[i] \in ToSet(q)
      /\ \A i \in 1..L : p.next[q[i]] = IF i = L THEN f ELSE q[i + 1]
      /\ \A i \in 1..L : p.prev[q[i]] = IF i = 1 THEN f ELSE q[i - 1]
  <2>1. q \in Seq(Node)  BY DEF Ring
  <2>2. q = <<>> <=> L = 0  BY <2>1
  <2>3. \A i \in 1..L : q[i] \in Node /\ q[i] \in ToSet(q)
    BY <2>1, ToSetLemma
  <2>. QED  BY <2>1, <2>2, <2>3 DEF Ring
<1>2. \A i, j \in 1..L : q[i] = q[j] => i = j  BY <1>1 DEF IsInjective
<1>3. /\ n # f /\ f \in Cell /\ n \in Cell
      /\ \A c \in Cell :
            /\ r.next[c] = IF c = l THEN n ELSE IF c = n THEN f ELSE p.next[c]
            /\ r.prev[c] = IF c = n THEN l ELSE IF c = f THEN n ELSE p.prev[c]
  <2>1. f \in Cell /\ n \in Cell  BY DEF Cell
  <2>. QED  BY <2>1, WriteFields
<1>4. \A i \in 1..L : q[i] \in Cell /\ q[i] # f /\ q[i] # n
  BY <1>1, ListAssumption DEF Cell
<1>5. /\ z \in Seq(Node) /\ Len(z) = L + 1 /\ z[L + 1] = n
      /\ \A i \in 1..L : z[i] = q[i]
      /\ IsInjective(z)
  <2>1. IsInjective(z)  BY <1>1, AppendLemma
  <2>. QED  BY <1>1, <2>1
<1> HIDE DEF r, z
<1>6. l = IF L = 0 THEN f ELSE q[L]  BY <1>1
<1> HIDE DEF l, L
<1>7. r.next[f] = z[1]
  <2>1. CASE L = 0  BY <2>1, <1>3, <1>5, <1>6
  <2>2. CASE L # 0
    <3>1. L \in 1..L /\ 1 \in 1..L  BY <2>2, <1>1
    <3>2. l # f  BY <3>1, <2>2, <1>4, <1>6
    <3>. QED  BY <2>2, <3>1, <3>2, <1>1, <1>3, <1>5
  <2>. QED  BY <2>1, <2>2
<1>8. r.prev[f] = z[L + 1]  BY <1>3, <1>5
<1>9. ASSUME NEW i \in 1..(L + 1)
      PROVE  r.next[z[i]] = IF i = L + 1 THEN f ELSE z[i + 1]
  <2>1. CASE i = L + 1
    <3>1. l # n
      <4>1. CASE L = 0  BY <4>1, <1>3, <1>6
      <4>2. CASE L # 0
        <5>1. L \in 1..L  BY <4>2, <1>1
        <5>. QED  BY <4>2, <5>1, <1>4, <1>6
      <4>. QED  BY <4>1, <4>2
    <3>. QED  BY <2>1, <3>1, <1>3, <1>5
  <2>2. CASE i = L /\ i # L + 1
    <3>1. L \in 1..L /\ L # 0  BY <2>2, <1>1
    <3>2. z[i] = l /\ l \in Cell  BY <2>2, <3>1, <1>4, <1>5, <1>6
    <3>3. r.next[l] = n  BY <3>2, <1>3
    <3>. QED  BY <2>2, <3>2, <3>3, <1>5
  <2>3. CASE i # L /\ i # L + 1
    <3>1. i \in 1..L /\ i + 1 \in 1..L /\ L \in 1..L /\ L # 0  BY <2>3, <1>1
    <3>2. q[i] # l  BY <3>1, <2>3, <1>2, <1>6
    <3>3. r.next[q[i]] = q[i + 1]  BY <3>1, <3>2, <2>3, <1>1, <1>3, <1>4
    <3>. QED  BY <3>1, <3>3, <2>3, <1>5
  <2>. QED  BY <2>1, <2>2, <2>3
<1>10. ASSUME NEW i \in 1..(L + 1)
       PROVE  r.prev[z[i]] = IF i = 1 THEN f ELSE z[i - 1]
  <2>1. CASE i = L + 1
    <3>1. r.prev[z[i]] = l  BY <2>1, <1>3, <1>5
    <3>2. CASE L = 0  BY <2>1, <3>1, <3>2, <1>6
    <3>3. CASE L # 0
      <4>1. L \in 1..L /\ i # 1 /\ i - 1 = L  BY <2>1, <3>3, <1>1
      <4>. QED  BY <3>1, <3>3, <4>1, <1>5, <1>6
    <3>. QED  BY <3>2, <3>3
  <2>2. CASE i # L + 1
    <3>1. i \in 1..L  BY <2>2, <1>1
    <3>2. z[i] = q[i] /\ q[i] # f /\ q[i] # n /\ q[i] \in Cell
      BY <3>1, <1>4, <1>5
    <3>3. r.prev[z[i]] = p.prev[q[i]]  BY <3>2, <1>3
    <3>4. i # 1 => i - 1 \in 1..L /\ z[i - 1] = q[i - 1]
      BY <3>1, <1>1, <1>5
    <3>. QED  BY <3>1, <3>3, <3>4, <1>1
  <2>. QED  BY <2>1, <2>2
<1>11. Ring(r, f, z)
  <2>1. z # <<>>  BY <1>1, <1>5
  <2>. QED  BY <2>1, <1>5, <1>7, <1>8, <1>9, <1>10 DEF Ring
<1>12. ASSUME NEW c \in Cell, c \notin {f, n} \cup ToSet(q)
       PROVE  r.next[c] = p.next[c] /\ r.prev[c] = p.prev[c]
  <2>1. c # l
    <3>1. CASE L = 0  BY <3>1, <1>6, <1>12
    <3>2. CASE L # 0
      <4>1. L \in 1..L  BY <3>2, <1>1
      <4>. QED  BY <3>2, <4>1, <1>1, <1>6, <1>12
    <3>. QED  BY <3>1, <3>2
  <2>. QED  BY <2>1, <1>3, <1>12
<1>. QED  BY <1>11, <1>12 DEF r, z

\* RMP_Fifo_Read: the pointers it writes.
LEMMA ReadFields ==
  ASSUME NEW p \in Pointers, NEW f \in Fifo, p.num[f] # 0
  PROVE  LET r == Read_Fifo(p, f)
             n == p.next[f]
             a == p.prev[n]
             b == p.next[n]
         IN  /\ r \in Pointers /\ a \in Cell /\ b \in Cell
             /\ r.used = p.used
             /\ \A g \in Fifo : r.num[g] = IF g = f THEN p.num[f] - 1 ELSE p.num[g]
             /\ \A c \in Cell :
                   /\ r.next[c] = IF c = a THEN b ELSE p.next[c]
                   /\ r.prev[c] = IF c = b THEN a ELSE p.prev[c]
<1> DEFINE r == Read_Fifo(p, f)
           n == p.next[f]
           a == p.prev[n]
           b == p.next[n]
<1>1. /\ p.next \in [Cell -> Cell] /\ p.prev \in [Cell -> Cell]
      /\ p.num \in [Fifo -> Nat] /\ p.used \in SUBSET Fifo
      /\ DOMAIN p = {"next", "prev", "num", "used"}
  BY DEF Pointers
<1>2. f \in Cell  BY DEF Cell
<1>3. n \in Cell /\ a \in Cell /\ b \in Cell  BY <1>1, <1>2
<1>4. /\ r.next = [p.next EXCEPT ![a] = b]
      /\ r.prev = [p.prev EXCEPT ![b] = a]
      /\ r.num = [p.num EXCEPT ![f] = @ - 1]
      /\ r.used = p.used
      /\ r = [next |-> r.next, prev |-> r.prev, num |-> r.num, used |-> r.used]
  <2> DEFINE x == List_Del(p, a, b)
  <2>0. p = [next |-> p.next, prev |-> p.prev, num |-> p.num, used |-> p.used]
    BY DEF Pointers
  <2>1. x = [p EXCEPT !.prev[b] = a, !.next[a] = b]  BY DEF List_Del
  <2>2. r = [x EXCEPT !.num[f] = @ - 1]  BY DEF Read_Fifo
  <2> HIDE DEF x, r, n, a, b
  <2>3. /\ x.next = [p.next EXCEPT ![a] = b]
        /\ x.prev = [p.prev EXCEPT ![b] = a]
        /\ x.num = p.num /\ x.used = p.used
        /\ x = [next |-> x.next, prev |-> x.prev, num |-> x.num, used |-> x.used]
    BY <2>0, <2>1
  <2>. QED  BY <2>2, <2>3
<1> HIDE DEF r, n, a, b
<1>5. p.num[f] - 1 \in Nat  BY <1>1
<1>6. r \in Pointers  BY <1>1, <1>3, <1>4, <1>5 DEF Pointers
<1>7. \A c \in Cell :
         /\ r.next[c] = IF c = a THEN b ELSE p.next[c]
         /\ r.prev[c] = IF c = b THEN a ELSE p.prev[c]
  BY <1>1, <1>3, <1>4
<1>8. /\ r.used = p.used
      /\ \A g \in Fifo : r.num[g] = IF g = f THEN p.num[f] - 1 ELSE p.num[g]
  BY <1>1, <1>4
<1>. QED  BY <1>3, <1>6, <1>7, <1>8 DEF r, n, a, b

\* The first node goes.
LEMMA RingRead ==
  ASSUME NEW p \in Pointers, NEW f \in Fifo, p.num[f] # 0, NEW q,
         Ring(p, f, q), q # <<>>
  PROVE  LET r == Read_Fifo(p, f)
         IN  /\ Ring(r, f, Tail(q))
             /\ \A c \in Cell : c \notin {f} \cup ToSet(q) =>
                   r.next[c] = p.next[c] /\ r.prev[c] = p.prev[c]
<1> DEFINE r == Read_Fifo(p, f)
           L == Len(q)
           z == Tail(q)
           b == IF L = 1 THEN f ELSE q[2]
<1>1. /\ q \in Seq(Node) /\ L \in Nat \ {0} /\ f \in Cell
      /\ p.next[f] = q[1] /\ p.prev[f] = q[L]
      /\ \A i \in 1..L : q[i] \in Node /\ q[i] \in ToSet(q)
      /\ \A i \in 1..L : p.next[q[i]] = IF i = L THEN f ELSE q[i + 1]
      /\ \A i \in 1..L : p.prev[q[i]] = IF i = 1 THEN f ELSE q[i - 1]
      /\ \A i, j \in 1..L : q[i] = q[j] => i = j
  <2>1. q \in Seq(Node) /\ IsInjective(q)  BY DEF Ring
  <2>2. q # <<>> => L # 0  BY <2>1
  <2>3. \A i \in 1..L : q[i] \in Node /\ q[i] \in ToSet(q)
    BY <2>1, ToSetLemma
  <2>4. \A i, j \in 1..L : q[i] = q[j] => i = j  BY <2>1 DEF IsInjective
  <2>5. f \in Cell  BY DEF Cell
  <2>. QED  BY <2>1, <2>2, <2>3, <2>4, <2>5 DEF Ring
<1>2. 1 \in 1..L /\ (L # 1 => 2 \in 1..L) /\ L \in 1..L
  <2>1. L \in Nat \ {0}  BY <1>1
  <2> HIDE DEF L
  <2>. QED  BY <2>1
<1>3. p.prev[q[1]] = f /\ p.next[q[1]] = b  BY <1>1, <1>2
<1>4. \A c \in Cell :
         /\ r.next[c] = IF c = f THEN b ELSE p.next[c]
         /\ r.prev[c] = IF c = b THEN f ELSE p.prev[c]
  BY <1>1, <1>3, ReadFields
<1>5. \A i \in 1..L : q[i] \in Cell /\ q[i] # f
  BY <1>1, ListAssumption DEF Cell
<1>6. /\ z \in Seq(Node) /\ Len(z) = L - 1
      /\ \A i \in 1..(L - 1) : z[i] = q[i + 1]
  BY <1>1
<1> HIDE DEF r, z, L
<1>7. IsInjective(z)
  <2>1. ASSUME NEW i \in 1..(L - 1), NEW j \in 1..(L - 1), z[i] = z[j]
        PROVE  i = j
    <3>1. i + 1 \in 1..L /\ j + 1 \in 1..L  BY <1>1
    <3>2. q[i + 1] = q[j + 1]  BY <2>1, <1>6
    <3>3. i + 1 = j + 1  BY <3>1, <3>2, <1>1
    <3>. QED  BY <3>3
  <2>2. DOMAIN z = 1..(L - 1)  BY <1>1, <1>6
  <2>. QED  BY <2>1, <2>2 DEF IsInjective
<1>8. z = <<>> <=> L = 1  BY <1>1, <1>6
<1>9. b \in Cell /\ (L # 1 => b = z[1])  BY <1>1, <1>2, <1>5, <1>6
<1>10. r.next[f] = IF z = <<>> THEN f ELSE z[1]
  BY <1>1, <1>4, <1>8, <1>9
<1>11. r.prev[f] = IF z = <<>> THEN f ELSE z[Len(z)]
  <2>1. CASE L = 1  BY <2>1, <1>1, <1>4, <1>8
  <2>2. CASE L # 1
    <3>1. b # f  BY <2>2, <1>2, <1>5
    <3>2. r.prev[f] = q[L]  BY <3>1, <1>1, <1>4
    <3>3. L - 1 \in 1..(L - 1) /\ (L - 1) + 1 = L  BY <2>2, <1>1
    <3>4. z[L - 1] = q[L]  BY <3>3, <1>6
    <3>. QED  BY <2>2, <3>2, <3>4, <1>6, <1>8
  <2>. QED  BY <2>1, <2>2
<1>12. ASSUME NEW i \in 1..(L - 1)
       PROVE  /\ r.next[z[i]] = IF i = L - 1 THEN f ELSE z[i + 1]
              /\ r.prev[z[i]] = IF i = 1 THEN f ELSE z[i - 1]
  <2>1. i + 1 \in 1..L /\ z[i] = q[i + 1] /\ L # 1  BY <1>1, <1>6
  <2>2. z[i] \in Cell /\ z[i] # f  BY <2>1, <1>5
  <2>3. r.next[z[i]] = p.next[q[i + 1]]  BY <2>1, <2>2, <1>4
  <2>4. i # L - 1 => z[i + 1] = q[(i + 1) + 1] /\ i + 1 # L  BY <1>1, <1>6
  <2>5. i = L - 1 => i + 1 = L  BY <1>1
  <2>6. r.next[z[i]] = IF i = L - 1 THEN f ELSE z[i + 1]
    BY <2>1, <2>3, <2>4, <2>5, <1>1
  <2>7. CASE i = 1  BY <2>1, <2>2, <2>6, <2>7, <1>4
  <2>8. CASE i # 1
    <3>1. i - 1 \in 1..(L - 1) /\ (i - 1) + 1 = i /\ i + 1 # 2 /\ i + 1 # 1
      BY <2>8, <1>1
    <3>2. z[i - 1] = q[i] /\ (i + 1) - 1 = i  BY <3>1, <1>6
    <3>3. q[i + 1] # b  BY <2>1, <3>1, <1>1, <1>2
    <3>4. r.prev[z[i]] = p.prev[q[i + 1]]  BY <2>1, <2>2, <3>3, <1>4
    <3>. QED  BY <2>1, <2>6, <2>8, <3>1, <3>2, <3>4, <1>1
  <2>. QED  BY <2>7, <2>8
<1>13. Ring(r, f, z)  BY <1>6, <1>7, <1>10, <1>11, <1>12 DEF Ring
<1>14. ASSUME NEW c \in Cell, c \notin {f} \cup ToSet(q)
       PROVE  r.next[c] = p.next[c] /\ r.prev[c] = p.prev[c]
  <2>1. c # b  BY <1>1, <1>2, <1>14
  <2>. QED  BY <2>1, <1>4, <1>14
<1>. QED  BY <1>13, <1>14 DEF r, z

\* The lists in use are rings, counted, and share no node.
ListsOk(p) ==
    /\ p \in Pointers
    /\ \A f \in p.used : Ring(p, f, Nodes(p, f)) /\ p.num[f] = Len(Nodes(p, f))
    /\ \A f, g \in p.used : f # g =>
          ToSet(Nodes(p, f)) \cap ToSet(Nodes(p, g)) = {}

\* The nodes on the lists.
Linked(p) == UNION {ToSet(Nodes(p, f)) : f \in p.used}

\* What ListsOk says of one list.
LEMMA ListFacts ==
  ASSUME NEW p, ListsOk(p), NEW f \in p.used
  PROVE  /\ f \in Fifo /\ p \in Pointers /\ f \notin Node
         /\ Ring(p, f, Nodes(p, f)) /\ Nodes(p, f) \in Seq(Node)
         /\ IsInjective(Nodes(p, f))
         /\ ToSet(Nodes(p, f)) \subseteq Node
         /\ ToSet(Nodes(p, f)) \subseteq Linked(p)
         /\ p.num[f] = Len(Nodes(p, f)) /\ Len(Nodes(p, f)) \in Nat
         /\ \A g \in p.used : g # f =>
               g \in Fifo /\ g \notin Node
               /\ \A c \in ToSet(Nodes(p, g)) : c \notin ToSet(Nodes(p, f))
<1>1. f \in Fifo /\ p \in Pointers /\ p.used \subseteq Fifo
  BY DEF ListsOk, Pointers
<1>2. Ring(p, f, Nodes(p, f)) /\ p.num[f] = Len(Nodes(p, f))
  BY DEF ListsOk
<1>3. Nodes(p, f) \in Seq(Node) /\ IsInjective(Nodes(p, f))
  BY <1>2 DEF Ring
<1>4. ToSet(Nodes(p, f)) \subseteq Node  BY <1>3, ToSetLemma
<1>5. \A g \in p.used : g # f =>
         \A c \in ToSet(Nodes(p, g)) : c \notin ToSet(Nodes(p, f))
  BY DEF ListsOk
<1>. QED  BY <1>1, <1>2, <1>3, <1>4, <1>5, ListAssumption DEF Linked

\* A list none of whose cells changes stays what it was.
LEMMA ListFrame ==
  ASSUME NEW p, ListsOk(p), NEW f \in p.used, NEW r,
         \A c \in {f} \cup ToSet(Nodes(p, f)) :
            r.next[c] = p.next[c] /\ r.prev[c] = p.prev[c]
  PROVE  Ring(r, f, Nodes(p, f)) /\ Nodes(r, f) = Nodes(p, f)
<1> DEFINE q == Nodes(p, f)
<1>1. f \in Fifo /\ Ring(p, f, q)  BY ListFacts
<1> HIDE DEF q
<1>2. Ring(r, f, q)  BY <1>1, RingFrame DEF q
<1>3. Nodes(r, f) = q  BY <1>1, <1>2, NodesOfRing
<1>. QED  BY <1>2, <1>3 DEF q

\* A memory in which f has the list z and the others keep theirs.
LEMMA ListsOne ==
  ASSUME NEW p, ListsOk(p), NEW f \in Fifo, NEW r \in Pointers, NEW z,
         r.used \ {f} = p.used \ {f}, f \in r.used,
         Ring(r, f, z), r.num[f] = Len(z),
         \A g \in p.used \ {f} : r.num[g] = p.num[g] /\
            \A c \in {g} \cup ToSet(Nodes(p, g)) :
               r.next[c] = p.next[c] /\ r.prev[c] = p.prev[c],
         \A g \in p.used \ {f} : ToSet(Nodes(p, g)) \cap ToSet(z) = {}
  PROVE  /\ ListsOk(r) /\ Nodes(r, f) = z
         /\ \A g \in p.used \ {f} : Nodes(r, g) = Nodes(p, g)
<1>1. Nodes(r, f) = z  BY NodesOfRing
<1>2. ASSUME NEW g \in p.used \ {f}
      PROVE  Ring(r, g, Nodes(p, g)) /\ Nodes(r, g) = Nodes(p, g)
  BY ListFrame
<1>3. \A g \in r.used : g = f \/ g \in p.used \ {f}  OBVIOUS
<1>4. \A g \in r.used : Ring(r, g, Nodes(r, g)) /\ r.num[g] = Len(Nodes(r, g))
  <2> TAKE g \in r.used
  <2>1. CASE g = f  BY <1>1, <2>1
  <2>2. CASE g # f
    <3>1. g \in p.used \ {f}  BY <2>2, <1>3
    <3>2. p.num[g] = Len(Nodes(p, g))  BY <3>1, ListFacts
    <3>3. Nodes(r, g) = Nodes(p, g) /\ r.num[g] = p.num[g]  BY <3>1, <1>2
    <3>. QED  BY <1>2, <3>1, <3>2, <3>3
  <2>. QED  BY <2>1, <2>2
<1>5. ASSUME NEW g \in r.used, NEW h \in r.used, g # h
      PROVE  ToSet(Nodes(r, g)) \cap ToSet(Nodes(r, h)) = {}
  <2>1. CASE g = f  BY <2>1, <1>1, <1>2, <1>3, <1>5
  <2>2. CASE h = f  BY <2>2, <1>1, <1>2, <1>3, <1>5
  <2>3. CASE g # f /\ h # f
    <3>1. g \in p.used \ {f} /\ h \in p.used \ {f}  BY <2>3, <1>3
    <3>2. ToSet(Nodes(p, g)) \cap ToSet(Nodes(p, h)) = {}
      BY <3>1, <1>5 DEF ListsOk
    <3>. QED  BY <3>1, <3>2, <1>2
  <2>. QED  BY <2>1, <2>2, <2>3
<1>6. ListsOk(r)  BY <1>4, <1>5 DEF ListsOk
<1>. QED  BY <1>1, <1>2, <1>6

\* RMP_Fifo_Write of a node that is on no list.
LEMMA ListsWrite ==
  ASSUME NEW p, ListsOk(p), NEW f \in p.used, NEW n \in Node, n \notin Linked(p)
  PROVE  LET r == Write_Fifo(p, f, n)
         IN  /\ ListsOk(r) /\ r.used = p.used
             /\ Nodes(r, f) = Append(Nodes(p, f), n)
             /\ \A g \in p.used \ {f} : Nodes(r, g) = Nodes(p, g)
             /\ Linked(r) = Linked(p) \cup {n}
             /\ Len(Nodes(r, f)) = Len(Nodes(p, f)) + 1
<1> DEFINE r == Write_Fifo(p, f, n)
           q == Nodes(p, f)
           z == Append(q, n)
<1>1. /\ f \in Fifo /\ p \in Pointers /\ Ring(p, f, q) /\ q \in Seq(Node)
      /\ ToSet(q) \subseteq Linked(p) /\ p.num[f] = Len(q) /\ f \notin Node
      /\ \A g \in p.used : g # f =>
            g \in Fifo /\ g \notin Node /\ \A c \in ToSet(Nodes(p, g)) : c \notin ToSet(q)
  BY ListFacts
<1>2. n \notin ToSet(q)  BY <1>1
<1>3. /\ ToSet(z) = ToSet(q) \cup {n} /\ Len(z) = Len(q) + 1
  BY <1>1, AppendLemma
<1>4. /\ r \in Pointers /\ r.used = p.used
      /\ \A g \in Fifo : r.num[g] = IF g = f THEN p.num[f] + 1 ELSE p.num[g]
  BY <1>1, WriteFields
<1> HIDE DEF q
<1>5. /\ Ring(r, f, z)
      /\ \A c \in Cell : c \notin {f, n} \cup ToSet(q) =>
            r.next[c] = p.next[c] /\ r.prev[c] = p.prev[c]
  BY <1>1, <1>2, RingWrite
<1> HIDE DEF r, z
<1>6. ASSUME NEW g \in p.used \ {f}
      PROVE  /\ r.num[g] = p.num[g]
             /\ \A c \in {g} \cup ToSet(Nodes(p, g)) :
                   r.next[c] = p.next[c] /\ r.prev[c] = p.prev[c]
             /\ ToSet(Nodes(p, g)) \cap ToSet(z) = {}
  <2>1. /\ g \in Fifo /\ g \notin Node /\ ToSet(Nodes(p, g)) \subseteq Node
        /\ ToSet(Nodes(p, g)) \subseteq Linked(p)
    BY ListFacts
  <2>2. \A c \in ToSet(Nodes(p, g)) : c # n /\ c \notin ToSet(q) /\ c # f
    BY <1>1, <2>1
  <2>3. ToSet(q) \subseteq Node  BY <1>1, ToSetLemma
  <2>4. \A c \in {g} \cup ToSet(Nodes(p, g)) :
           c \in Cell /\ c \notin {f, n} \cup ToSet(q)
    BY <2>1, <2>2, <2>3 DEF Cell
  <2>. QED  BY <1>3, <1>4, <1>5, <2>1, <2>2, <2>4
<1>7. /\ ListsOk(r) /\ Nodes(r, f) = z
      /\ \A g \in p.used \ {f} : Nodes(r, g) = Nodes(p, g)
  <2>1. r.num[f] = Len(z)  BY <1>1, <1>3, <1>4
  <2>. QED  BY <1>1, <1>4, <1>5, <1>6, <2>1, ListsOne
<1>8. Linked(r) = Linked(p) \cup {n}
  BY <1>3, <1>4, <1>7 DEF Linked, q
<1>. QED  BY <1>3, <1>4, <1>7, <1>8 DEF r, q, z

\* RMP_Fifo_Read of a list that counts a node.
LEMMA ListsRead ==
  ASSUME NEW p, ListsOk(p), NEW f \in p.used, Nodes(p, f) # <<>>
  PROVE  LET r == Read_Fifo(p, f)
         IN  /\ ListsOk(r) /\ r.used = p.used
             /\ Nodes(r, f) = Tail(Nodes(p, f))
             /\ \A g \in p.used \ {f} : Nodes(r, g) = Nodes(p, g)
             /\ Linked(r) \subseteq Linked(p)
             /\ Len(Nodes(r, f)) = Len(Nodes(p, f)) - 1
<1> DEFINE r == Read_Fifo(p, f)
           q == Nodes(p, f)
           z == Tail(q)
<1>1. /\ f \in Fifo /\ p \in Pointers /\ Ring(p, f, q) /\ q \in Seq(Node)
      /\ ToSet(q) \subseteq Linked(p) /\ p.num[f] = Len(q) /\ f \notin Node
      /\ \A g \in p.used : g # f =>
            g \in Fifo /\ g \notin Node /\ \A c \in ToSet(Nodes(p, g)) : c \notin ToSet(q)
  BY ListFacts
<1>2. q # <<>>  OBVIOUS
<1> HIDE DEF q
<1>3. Len(q) # 0 /\ p.num[f] # 0 /\ Len(q) \in Nat  BY <1>1, <1>2
<1>4. /\ z \in Seq(Node) /\ Len(z) = Len(q) - 1
      /\ \A i \in 1..Len(z) : z[i] = q[i + 1] /\ i + 1 \in 1..Len(q)
  BY <1>1, <1>2
<1>5. /\ r \in Pointers /\ r.used = p.used
      /\ \A g \in Fifo : r.num[g] = IF g = f THEN p.num[f] - 1 ELSE p.num[g]
  BY <1>1, <1>3, ReadFields
<1>6. /\ Ring(r, f, z)
      /\ \A c \in Cell : c \notin {f} \cup ToSet(q) =>
            r.next[c] = p.next[c] /\ r.prev[c] = p.prev[c]
  BY <1>1, <1>2, <1>3, RingRead
<1> HIDE DEF r, z
<1>7. ToSet(z) \subseteq ToSet(q)
  <2>1. ASSUME NEW c \in ToSet(z)  PROVE c \in ToSet(q)
    <3>1. PICK i \in 1..Len(z) : z[i] = c  BY <1>4, ToSetLemma
    <3>2. q[i + 1] = c /\ i + 1 \in 1..Len(q)  BY <3>1, <1>4
    <3>. QED  BY <3>2, <1>1, ToSetLemma
  <2>. QED  BY <2>1
<1>8. ASSUME NEW g \in p.used \ {f}
      PROVE  /\ r.num[g] = p.num[g]
             /\ \A c \in {g} \cup ToSet(Nodes(p, g)) :
                   r.next[c] = p.next[c] /\ r.prev[c] = p.prev[c]
             /\ ToSet(Nodes(p, g)) \cap ToSet(z) = {}
  <2>1. /\ g \in Fifo /\ g \notin Node /\ ToSet(Nodes(p, g)) \subseteq Node
    BY ListFacts
  <2>2. \A c \in ToSet(Nodes(p, g)) : c \notin ToSet(q) /\ c # f
    BY <1>1, <2>1
  <2>3. ToSet(q) \subseteq Node  BY <1>1, ToSetLemma
  <2>4. \A c \in {g} \cup ToSet(Nodes(p, g)) :
           c \in Cell /\ c \notin {f} \cup ToSet(q)
    BY <2>1, <2>2, <2>3 DEF Cell
  <2>. QED  BY <1>5, <1>6, <1>7, <2>1, <2>2, <2>4
<1>9. /\ ListsOk(r) /\ Nodes(r, f) = z
      /\ \A g \in p.used \ {f} : Nodes(r, g) = Nodes(p, g)
  <2>1. r.num[f] = Len(z)  BY <1>1, <1>4, <1>5
  <2>. QED  BY <1>1, <1>5, <1>6, <1>8, <2>1, ListsOne
<1>10. Linked(r) \subseteq Linked(p)
  BY <1>5, <1>7, <1>9 DEF Linked, q
<1>. QED  BY <1>4, <1>5, <1>9, <1>10 DEF r, q, z

\* RMP_Fifo_Crt.
LEMMA ListsCrt ==
  ASSUME NEW p, ListsOk(p), NEW f \in Fifo, f \notin p.used
  PROVE  LET r == Crt_Fifo(p, f)
         IN  /\ ListsOk(r) /\ r.used = p.used \cup {f}
             /\ Nodes(r, f) = <<>>
             /\ \A g \in p.used : Nodes(r, g) = Nodes(p, g)
             /\ Linked(r) = Linked(p)
<1> DEFINE r == Crt_Fifo(p, f)
<1>1. /\ p.next \in [Cell -> Cell] /\ p.prev \in [Cell -> Cell]
      /\ p.num \in [Fifo -> Nat] /\ p.used \in SUBSET Fifo
      /\ p = [next |-> p.next, prev |-> p.prev, num |-> p.num, used |-> p.used]
  BY DEF ListsOk, Pointers
<1>2. f \in Cell  BY DEF Cell
<1>3. /\ r.next = [p.next EXCEPT ![f] = f] /\ r.prev = [p.prev EXCEPT ![f] = f]
      /\ r.num = [p.num EXCEPT ![f] = 0] /\ r.used = p.used \cup {f}
      /\ r = [next |-> r.next, prev |-> r.prev, num |-> r.num, used |-> r.used]
  <2> DEFINE x == List_Crt(p, f)
  <2>1. x = [p EXCEPT !.prev[f] = f, !.next[f] = f]  BY DEF List_Crt
  <2>2. r = [x EXCEPT !.num[f] = 0, !.used = @ \cup {f}]  BY DEF Crt_Fifo
  <2> HIDE DEF x, r
  <2>3. /\ x.next = [p.next EXCEPT ![f] = f] /\ x.prev = [p.prev EXCEPT ![f] = f]
        /\ x.num = p.num /\ x.used = p.used
        /\ x = [next |-> x.next, prev |-> x.prev, num |-> x.num, used |-> x.used]
    BY <1>1, <2>1
  <2>. QED  BY <2>2, <2>3
<1> HIDE DEF r
<1>4. r \in Pointers  BY <1>1, <1>2, <1>3 DEF Pointers
<1>5. /\ r.num[f] = 0 /\ \A g \in Fifo : g # f => r.num[g] = p.num[g]
      /\ r.next[f] = f /\ r.prev[f] = f
      /\ \A c \in Cell : c # f => r.next[c] = p.next[c] /\ r.prev[c] = p.prev[c]
  BY <1>1, <1>2, <1>3
<1> DEFINE z == <<>>
<1>6. z \in Seq(Node) /\ Len(z) = 0 /\ ToSet(z) = {} /\ IsInjective(z) /\ z = <<>>
  BY DEF ToSet, IsInjective
<1> HIDE DEF z
<1>7. Ring(r, f, z)  BY <1>5, <1>6 DEF Ring
<1>8. ASSUME NEW g \in p.used \ {f}
      PROVE  /\ r.num[g] = p.num[g]
             /\ \A c \in {g} \cup ToSet(Nodes(p, g)) :
                   r.next[c] = p.next[c] /\ r.prev[c] = p.prev[c]
             /\ ToSet(Nodes(p, g)) \cap ToSet(z) = {}
  <2>1. g \in Fifo /\ ToSet(Nodes(p, g)) \subseteq Node  BY ListFacts
  <2>2. \A c \in {g} \cup ToSet(Nodes(p, g)) : c \in Cell /\ c # f
    BY <2>1, ListAssumption DEF Cell
  <2>. QED  BY <2>1, <2>2, <1>5, <1>6
<1>9. /\ ListsOk(r) /\ Nodes(r, f) = z
      /\ \A g \in p.used \ {f} : Nodes(r, g) = Nodes(p, g)
  <2>1. r.num[f] = Len(z)  BY <1>5, <1>6
  <2>2. f \in r.used /\ r.used \ {f} = p.used \ {f}  BY <1>3
  <2>. QED  BY <1>4, <1>7, <1>8, <2>1, <2>2, ListsOne
<1>10. Linked(r) = Linked(p)  BY <1>3, <1>6, <1>9 DEF Linked
<1>. QED  BY <1>3, <1>6, <1>9, <1>10 DEF r

\* RMP_Fifo_Del.
LEMMA ListsDel ==
  ASSUME NEW p, ListsOk(p), NEW f
  PROVE  LET r == Del_Fifo(p, f)
         IN  /\ ListsOk(r) /\ r.used = p.used \ {f}
             /\ \A g \in r.used : Nodes(r, g) = Nodes(p, g)
             /\ Linked(r) \subseteq Linked(p)
<1> DEFINE r == Del_Fifo(p, f)
<1>1. /\ r \in Pointers /\ r.used = p.used \ {f} /\ r.num = p.num
      /\ r.next = p.next /\ r.prev = p.prev
  BY DEF Del_Fifo, ListsOk, Pointers
<1> HIDE DEF r
<1>2. \A g \in r.used : Ring(r, g, Nodes(p, g)) /\ Nodes(r, g) = Nodes(p, g)
  <2> TAKE g \in r.used
  <2>. QED  BY <1>1, ListFrame
<1>3. ListsOk(r)  BY <1>1, <1>2 DEF ListsOk
<1>4. Linked(r) \subseteq Linked(p)  BY <1>1, <1>2 DEF Linked
<1>. QED  BY <1>1, <1>2, <1>3, <1>4 DEF r

\* A FIFO can be read if there is a node on its list.
LEMMA ReadableNodes ==
  ASSUME NEW p, ListsOk(p), NEW f \in p.used
  PROVE  Readable(p, f) <=> Nodes(p, f) # <<>>
<1> DEFINE q == Nodes(p, f)
<1>1. f \notin Node /\ q \in Seq(Node) /\ Ring(p, f, q)  BY ListFacts
<1> HIDE DEF q
<1>2. p.next[f] = IF q = <<>> THEN f ELSE q[1]  BY <1>1 DEF Ring
<1>3. q # <<>> => q[1] \in Node  BY <1>1
<1>4. p.next[f] # f <=> q # <<>>  BY <1>1, <1>2, <1>3
<1>. QED  BY <1>4 DEF Readable, q

\* The lists are well-formed.
LEMMA ListsExactly ==
  ASSUME ListsOk(ptr)
  PROVE  ListsExact
<1>1. ASSUME NEW f \in ptr.used  PROVE WellFormed(ptr, f)
  <2> DEFINE q == Nodes(ptr, f)
             ring == <<f>> \o q \o <<f>>
  <2>1. /\ f \in Fifo /\ Ring(ptr, f, q) /\ q \in Seq(Node) /\ IsInjective(q)
        /\ ToSet(q) \subseteq Node /\ ptr.num[f] = Len(q) /\ Len(q) \in Nat
    BY ListFacts
  <2> HIDE DEF q
  <2>2. /\ Len(ring) = Len(q) + 2
        /\ \A i \in 1..(Len(q) + 2) :
              ring[i] = IF i = 1 \/ i = Len(q) + 2 THEN f ELSE q[i - 1]
    <3>1. q \in Seq(Cell) /\ f \in Cell  BY <2>1 DEF Cell
    <3>2. <<f>> \in Seq(Cell) /\ Len(<<f>>) = 1 /\ <<f>>[1] = f  BY <3>1
    <3> DEFINE e == <<f>>
               x == e \o q
    <3> HIDE DEF e
    <3>3. /\ x \in Seq(Cell) /\ Len(x) = Len(q) + 1
          /\ \A i \in 1..(Len(q) + 1) : x[i] = IF i = 1 THEN f ELSE q[i - 1]
      BY <3>1, <3>2, <2>1 DEF e
    <3> HIDE DEF x
    <3>4. /\ Len(x \o e) = Len(q) + 2
          /\ \A i \in 1..(Len(q) + 2) :
                (x \o e)[i] = IF i = Len(q) + 2 THEN f ELSE x[i]
      BY <3>1, <3>2, <3>3, <2>1 DEF e
    <3>. QED  BY <3>3, <3>4, <2>1 DEF x, e
  <2> HIDE DEF ring
  <2>3. q = <<>> <=> Len(q) = 0  BY <2>1
  <2>4. ASSUME NEW i \in 1..(Len(q) + 1)
        PROVE  ptr.next[ring[i]] = ring[i + 1] /\ ptr.prev[ring[i + 1]] = ring[i]
    <3>1. CASE Len(q) = 0
      <4>1. i = 1 /\ ring[1] = f /\ ring[2] = f  BY <3>1, <2>2
      <4>. QED  BY <4>1, <3>1, <2>1, <2>3 DEF Ring
    <3>2. CASE Len(q) # 0 /\ i = 1
      <4>1. ring[1] = f /\ ring[2] = q[1] /\ 1 \in 1..Len(q)  BY <3>2, <2>1, <2>2
      <4>. QED  BY <4>1, <3>2, <2>1, <2>3 DEF Ring
    <3>3. CASE Len(q) # 0 /\ i = Len(q) + 1
      <4>1. /\ ring[i] = q[Len(q)] /\ ring[i + 1] = f /\ Len(q) \in 1..Len(q)
        BY <3>3, <2>1, <2>2
      <4>. QED  BY <4>1, <3>3, <2>1, <2>3 DEF Ring
    <3>4. CASE i # 1 /\ i # Len(q) + 1
      <4>1. /\ i - 1 \in 1..Len(q) /\ i \in 1..Len(q) /\ i - 1 # Len(q)
            /\ ring[i] = q[i - 1] /\ ring[i + 1] = q[i] /\ (i - 1) + 1 = i
        BY <3>4, <2>1, <2>2
      <4>. QED  BY <4>1, <3>4, <2>1 DEF Ring
    <3>. QED  BY <3>1, <3>2, <3>3, <3>4
  <2>5. Len(ring) - 1 = Len(q) + 1  BY <2>1, <2>2
  <2>. QED  BY <2>1, <2>4, <2>5 DEF WellFormed, ring, q
<1>2. \A f, g \in ptr.used : f # g =>
         ToSet(Nodes(ptr, f)) \cap ToSet(Nodes(ptr, g)) = {}
  BY DEF ListsOk
<1>. QED  BY <1>1, <1>2 DEF ListsExact

----------------------------------------------------------------------------
(* The inductive invariant.  s is a memory of the kernel, c says which call *)
(* each thread is in, p is the memory of the FIFOs, m are the queues.      *)

\* The semaphore the call e waits for.
Wants(e) == IF e.at = "slot" THEN Slots(e.q) ELSE Items(e.q)

\* A call is in a step that it has; only a call that sends holds a node, and
\* only blocking queues have slots.
CallType(e) ==
    /\ e \in Call
    /\ e.at \in {"slot", "send", "post"} => e.q \in Bmq
    /\ IF e.at \in {"slot", "send"} THEN \E n \in Node : e.node = {n}
                                    ELSE e.node = {}

\* A thread in a call runs or waits for the semaphore of its step, and who
\* waits for the semaphore of a queue is in such a call.
CallsOk(s, c) ==
    /\ DOMAIN c = Thd
    /\ \A t \in Thd : c[t] # NoCall =>
          /\ CallType(c[t])
          /\ \/ s.state[t] = "RUNNING"
             \/ /\ c[t].at \in {"slot", "item"} /\ c[t].fresh
                /\ t \in ToSet(s.wait[Wants(c[t])])
    /\ \A x \in QueueSem : \A t \in ToSet(s.wait[x]) :
          c[t] # NoCall /\ c[t].at \in {"slot", "item"} /\ Wants(c[t]) = x

\* The threads of a call on q that are past the semaphore.
Holders(s, c, q, S) ==
    {t \in Thd : /\ c[t] # NoCall /\ c[t].q = q /\ c[t].at \in S
                 /\ c[t].at \in {"slot", "item"} =>
                       s.state[t] = "RUNNING" /\ s.retval[t] = "ok"}

\* The same threads are past the semaphores in s and c as in u and d.
SameHolders(u, d, s, c) ==
    \A q, S : Holders(u, d, q, S) = Holders(s, c, q, S)

\* A queue is used and free together with its FIFO and its semaphores.
UsedOk(s, p, m) ==
    /\ \A q \in Msgq : (q \in m <=> q \in p.used) /\ (q \in m <=> Items(q) \in s.used)
    /\ \A b \in Bmq : b \in m <=> Slots(b) \in s.used

\* The nodes of the calls are on no list and in no other call.
NodesOk(p, c) ==
    /\ \A t \in Thd : c[t] # NoCall => c[t].node \cap Linked(p) = {}
    /\ \A t, u \in Thd : t # u /\ c[t] # NoCall /\ c[u] # NoCall =>
          c[t].node \cap c[u].node = {}

\* A queue that was not deleted since a call on it began is in use.
FreshOk(c, m) == \A t \in Thd : c[t] # NoCall /\ c[t].fresh => c[t].q \in m

\* There are nodes for the count and for whoever was granted an item, and
\* the queue was not deleted since.
GrantsOk(s, c, p, m) ==
    \A q \in Msgq :
       LET H == Holders(s, c, q, {"item", "read"})
       IN  /\ \A t \in H : c[t].fresh
           /\ q \in m => s.num[Items(q)] + Cardinality(H) <= Len(Nodes(p, q))

QInv ==
    /\ IpcInv /\ k.panic = 0
    /\ msgq \subseteq Msgq /\ bmq = msgq \cap Bmq
    /\ ListsOk(ptr)
    /\ UsedOk(k, ptr, msgq)
    /\ CallsOk(k, call)
    /\ FreshOk(call, msgq)
    /\ NodesOk(ptr, call)
    /\ GrantsOk(k, call, ptr, msgq)

----------------------------------------------------------------------------
(* What a step of the kernel means to the calls.                           *)

\* The threads that are in a call.
InCall(c) == {t \in Thd : c[t] # NoCall}

\* u is s after a step of the kernel that does to the threads of C no more
\* than to end some waits, and that grants a semaphore of a queue to those of
\* G alone; nobody begins to wait for such a semaphore.
Moves(u, s, C, G) ==
    /\ u.panic = s.panic
    /\ \A x \in QueueSem : ToSet(u.wait[x]) \subseteq ToSet(s.wait[x])
    /\ \A x \in Sem : ToSet(u.wait[x]) \cap C \subseteq ToSet(s.wait[x])
    /\ \A t \in C : \/ u.state[t] = s.state[t] /\ u.retval[t] = s.retval[t]
                    \/ u.state[t] = "RUNNING" /\ s.state[t] \in Blocked
    /\ \A x \in QueueSem : \A t \in ToSet(s.wait[x]) \cap C :
          u.state[t] = "RUNNING" => (u.retval[t] = "ok" <=> t \in G)

\* A step that also leaves the semaphores of the queues alone.
Calm(u, s, C) ==
    /\ Moves(u, s, C, {})
    /\ \A x \in QueueSem : u.num[x] = s.num[x] /\ (x \in u.used <=> x \in s.used)

\* The semaphores of queues are semaphores, each of one queue and one kind.
LEMMA QueueSems ==
  /\ QueueSem \subseteq Sem
  /\ \A q \in Msgq : Items(q) \in QueueSem
  /\ \A b \in Bmq : b \in Msgq /\ Slots(b) \in QueueSem
  /\ \A p, q : /\ Items(p) = Items(q) => p = q
               /\ Slots(p) = Slots(q) => p = q
               /\ Items(p) # Slots(q)
  /\ \A e : CallType(e) => /\ e.q \in Msgq /\ Wants(e) \in QueueSem
                           /\ e # NoCall /\ e \in Call
BY QueueAssumption DEF QueueSem, Items, Slots, CallType, Call, Wants, NoCall

\* The threads on a semaphore's list are pending, and these are all.
LEMMA Waiters ==
  ASSUME NEW s, KInv(s)
  PROVE  /\ \A x \in Sem : \A t \in ToSet(s.wait[x]) : t \in Thd /\ s.state[t] \in Pending
         /\ \A t \in Thd : s.state[t] \in Pending => \E x \in Sem : t \in ToSet(s.wait[x])
<1>1. Apart(s.wait, InState(s, Pending)) /\ DOMAIN s.wait = Sem
  BY ListedDef DEF KInv, Good, Kernel
<1>2. \A x \in Sem : \A t \in ToSet(s.wait[x]) : t \in InState(s, Pending)
  BY <1>1 DEF Apart
<1>3. \A t \in InState(s, Pending) : \E x \in Sem : t \in ToSet(s.wait[x])
  BY <1>1 DEF Apart
<1>. QED  BY <1>2, <1>3 DEF InState

\* What CallsOk says of the call of one thread.
LEMMA CallFacts ==
  ASSUME NEW s, NEW c, KInv(s), CallsOk(s, c), NEW t \in InCall(c)
  PROVE  /\ t \in Thd /\ c[t] # NoCall /\ CallType(c[t]) /\ Wants(c[t]) \in QueueSem
         /\ \/ s.state[t] = "RUNNING"
            \/ /\ c[t].at \in {"slot", "item"} /\ c[t].fresh
               /\ t \in ToSet(s.wait[Wants(c[t])]) /\ s.state[t] \in Pending
<1>1. t \in Thd /\ c[t] # NoCall  BY DEF InCall
<1>2. CallType(c[t]) /\ Wants(c[t]) \in QueueSem  BY <1>1, QueueSems DEF CallsOk
<1>3. \A x \in QueueSem : \A y \in ToSet(s.wait[x]) : s.state[y] \in Pending
  BY Waiters, QueueSems
<1>. QED  BY <1>1, <1>2, <1>3 DEF CallsOk

\* Such a step keeps the calls in order, whoever of them it ends, and makes
\* those past the semaphore whom it grants it.
LEMMA CallsMove ==
  ASSUME NEW s, NEW u, NEW c, NEW d, NEW G, KInv(s), KInv(u),
         CallsOk(s, c), DOMAIN d = Thd, Moves(u, s, InCall(d), G),
         \A t \in InCall(d) : t \in InCall(c) /\ d[t] = c[t],
         \A t \in InCall(c) \ InCall(d) : u.state[t] \notin Blocked,
         \A t \in G : \E x \in QueueSem : t \in ToSet(s.wait[x]),
         \A t \in G : u.state[t] = "RUNNING"
  PROVE  /\ CallsOk(u, d)
         /\ \A q, S : Holders(u, d, q, S) =
               {t \in InCall(d) : /\ d[t].q = q /\ d[t].at \in S
                                  /\ t \in Holders(s, c, q, S) \/ t \in G}
<1>1. ASSUME NEW t \in InCall(d)
      PROVE  /\ t \in Thd /\ d[t] = c[t] /\ d[t] # NoCall /\ CallType(d[t])
             /\ \/ /\ s.state[t] = "RUNNING" /\ u.state[t] = "RUNNING"
                   /\ u.retval[t] = s.retval[t] /\ t \notin G
                \/ /\ s.state[t] # "RUNNING" /\ d[t].at \in {"slot", "item"} /\ d[t].fresh
                   /\ \/ u.state[t] = "RUNNING" /\ (u.retval[t] = "ok" <=> t \in G)
                      \/ /\ u.state[t] # "RUNNING" /\ t \notin G
                         /\ t \in ToSet(u.wait[Wants(d[t])])
  <2>1. t \in InCall(c) /\ d[t] = c[t]  OBVIOUS
  <2>2. /\ t \in Thd /\ c[t] # NoCall /\ CallType(c[t]) /\ Wants(c[t]) \in QueueSem
        /\ \/ s.state[t] = "RUNNING"
           \/ /\ c[t].at \in {"slot", "item"} /\ c[t].fresh
              /\ t \in ToSet(s.wait[Wants(c[t])]) /\ s.state[t] \in Pending
    BY <2>1, CallFacts
  <2>3. \/ u.state[t] = s.state[t] /\ u.retval[t] = s.retval[t]
        \/ u.state[t] = "RUNNING" /\ s.state[t] \in Blocked
    BY DEF Moves
  <2>4. CASE s.state[t] = "RUNNING"
    <3>1. t \notin G
      <4>1. t \in G => s.state[t] \in Pending  BY Waiters, QueueSems
      <4>. QED  BY <4>1, <2>4, StateFacts
    <3>. QED  BY <2>1, <2>2, <2>3, <2>4, <3>1, StateFacts
  <2>5. CASE s.state[t] # "RUNNING"
    <3> DEFINE x == Wants(c[t])
    <3>1. t \in ToSet(s.wait[x]) /\ s.state[t] \in Pending /\ x \in QueueSem /\ x \in Sem
      BY <2>2, <2>5, QueueSems
    <3>2. u.state[t] = "RUNNING" => (u.retval[t] = "ok" <=> t \in G)
      BY <3>1 DEF Moves
    <3>3. ASSUME u.state[t] # "RUNNING"  PROVE t \notin G /\ t \in ToSet(u.wait[x])
      <4>1. u.state[t] \in Pending  BY <2>3, <3>1, <3>3
      <4>2. PICK y \in Sem : t \in ToSet(u.wait[y])  BY <4>1, <2>2, Waiters
      <4>3. t \in ToSet(s.wait[y])  BY <4>2 DEF Moves
      <4>4. x = y  BY <3>1, <4>3, OneList
      <4>. QED  BY <3>3, <4>2, <4>4
    <3>. QED  BY <2>1, <2>2, <2>5, <3>2, <3>3
  <2>. QED  BY <2>4, <2>5
<1>2. CallsOk(u, d)
  <2>1. ASSUME NEW t \in Thd, d[t] # NoCall
        PROVE  /\ CallType(d[t])
               /\ \/ u.state[t] = "RUNNING"
                  \/ /\ d[t].at \in {"slot", "item"} /\ d[t].fresh
                     /\ t \in ToSet(u.wait[Wants(d[t])])
    <3>1. t \in InCall(d)  BY <2>1 DEF InCall
    <3>. QED  BY <3>1, <1>1
  <2>2. ASSUME NEW x \in QueueSem, NEW t \in ToSet(u.wait[x])
        PROVE  d[t] # NoCall /\ d[t].at \in {"slot", "item"} /\ Wants(d[t]) = x
    <3>1. t \in ToSet(s.wait[x]) /\ x \in Sem  BY <2>2, QueueSems DEF Moves
    <3>2. c[t] # NoCall /\ c[t].at \in {"slot", "item"} /\ Wants(c[t]) = x /\ t \in Thd
      BY <3>1, Waiters DEF CallsOk
    <3>3. u.state[t] \in Blocked  BY <2>2, <3>1, Waiters, StateFacts
    <3>4. t \in InCall(d)  BY <3>2, <3>3 DEF InCall
    <3>5. d[t] = c[t]  BY <3>4
    <3>. QED  BY <3>2, <3>5
  <2>. QED  BY <2>1, <2>2 DEF CallsOk
<1>3. ASSUME NEW q, NEW S
      PROVE  Holders(u, d, q, S) =
               {t \in InCall(d) : /\ d[t].q = q /\ d[t].at \in S
                                  /\ t \in Holders(s, c, q, S) \/ t \in G}
  <2>1. ASSUME NEW t \in Thd
        PROVE  t \in Holders(u, d, q, S) <=>
                  /\ t \in InCall(d) /\ d[t].q = q /\ d[t].at \in S
                  /\ t \in Holders(s, c, q, S) \/ t \in G
    <3>1. CASE t \notin InCall(d)
      BY <3>1 DEF Holders, InCall
    <3>2. CASE t \in InCall(d)
      <4> HIDE DEF InCall
      <4>1. t \in Holders(u, d, q, S) <=>
               /\ d[t].q = q /\ d[t].at \in S
               /\ d[t].at \in {"slot", "item"} => u.state[t] = "RUNNING" /\ u.retval[t] = "ok"
        BY <3>2, <1>1 DEF Holders
      <4>2. t \in Holders(s, c, q, S) <=>
               /\ d[t].q = q /\ d[t].at \in S
               /\ d[t].at \in {"slot", "item"} => s.state[t] = "RUNNING" /\ s.retval[t] = "ok"
        BY <3>2, <1>1 DEF Holders
      <4>. QED  BY <3>2, <4>1, <4>2, <1>1
    <3>. QED  BY <3>1, <3>2
  <2>. QED  BY <2>1 DEF Holders, InCall
<1>. QED  BY <1>2, <1>3

\* The call of a thread that runs changes.
LEMMA CallsChange ==
  ASSUME NEW s, NEW c, KInv(s), CallsOk(s, c), NEW a \in Thd,
         s.state[a] = "RUNNING", NEW e, e = NoCall \/ CallType(e),
         NEW d, d = [c EXCEPT ![a] = e]
  PROVE  /\ CallsOk(s, d)
         /\ \A q, S : Holders(s, d, q, S) =
               (Holders(s, c, q, S) \ {a}) \cup
               {t \in {a} : /\ e # NoCall /\ e.q = q /\ e.at \in S
                            /\ e.at \in {"slot", "item"} => s.retval[a] = "ok"}
<1>1. /\ DOMAIN d = Thd
      /\ \A t \in Thd : d[t] = IF t = a THEN e ELSE c[t]
  BY DEF CallsOk
<1>2. ASSUME NEW x \in QueueSem  PROVE a \notin ToSet(s.wait[x])
  BY <1>2, Waiters, QueueSems, StateFacts
<1>3. CallsOk(s, d)
  <2>1. ASSUME NEW x \in QueueSem, NEW t \in ToSet(s.wait[x])
        PROVE  d[t] # NoCall /\ d[t].at \in {"slot", "item"} /\ Wants(d[t]) = x
    <3>1. t # a /\ t \in Thd  BY <1>2, Waiters, QueueSems
    <3>. QED  BY <3>1, <1>1 DEF CallsOk
  <2>2. ASSUME NEW t \in Thd, d[t] # NoCall
        PROVE  /\ CallType(d[t])
               /\ \/ s.state[t] = "RUNNING"
                  \/ /\ d[t].at \in {"slot", "item"} /\ d[t].fresh
                     /\ t \in ToSet(s.wait[Wants(d[t])])
    BY <2>2, <1>1 DEF CallsOk
  <2>. QED  BY <1>1, <2>1, <2>2 DEF CallsOk
<1>4. ASSUME NEW q, NEW S
      PROVE  Holders(s, d, q, S) =
               (Holders(s, c, q, S) \ {a}) \cup
               {t \in {a} : /\ e # NoCall /\ e.q = q /\ e.at \in S
                            /\ e.at \in {"slot", "item"} => s.retval[a] = "ok"}
  BY <1>1 DEF Holders
<1>. QED  BY <1>3, <1>4

\* The calls d are the calls c, but for that of thread a, which is e.
Becomes(d, c, a, e) == d = [c EXCEPT ![a] = e]

\* From s to u nothing happens but that thread a begins to wait for x.
Blocks(u, s, a, x) ==
    /\ u.state[a] \in Pending
    /\ \A t \in Thd \ {a} : u.state[t] = s.state[t] /\ u.retval[t] = s.retval[t]
    /\ \A y \in Sem : ToSet(u.wait[y]) = IF y = x THEN ToSet(s.wait[y]) \cup {a}
                                                   ELSE ToSet(s.wait[y])

\* The current thread begins a call in which it waits for a semaphore.
LEMMA CallsBlock ==
  ASSUME NEW s, NEW u, NEW c, KInv(s), KInv(u), CallsOk(s, c), NEW a \in Thd,
         NEW e, CallType(e), e.at \in {"slot", "item"}, e.fresh,
         NEW d, Becomes(d, c, a, e), Blocks(u, s, a, Wants(e)),
         s.state[a] = "RUNNING", c[a] = NoCall
  PROVE  CallsOk(u, d) /\ SameHolders(u, d, s, c)
<1>1. /\ DOMAIN d = Thd
      /\ \A t \in Thd : d[t] = IF t = a THEN e ELSE c[t]
  BY DEF CallsOk, Becomes
<1>2. /\ u.state[a] \in Pending
      /\ \A t \in Thd \ {a} : u.state[t] = s.state[t] /\ u.retval[t] = s.retval[t]
      /\ \A x \in Sem : ToSet(u.wait[x]) = IF x = Wants(e) THEN ToSet(s.wait[x]) \cup {a}
                                                            ELSE ToSet(s.wait[x])
  BY DEF Blocks
<1>3. Wants(e) \in QueueSem /\ e # NoCall  BY QueueSems
<1>4. \A x \in QueueSem : x \in Sem  BY QueueSems
<1>5. CallsOk(u, d)
  <2>1. ASSUME NEW x \in QueueSem, NEW t \in ToSet(u.wait[x])
        PROVE  d[t] # NoCall /\ d[t].at \in {"slot", "item"} /\ Wants(d[t]) = x
    <3>1. t = a \/ t \in ToSet(s.wait[x])  BY <1>4, <1>2
    <3>2. CASE t = a
      <4>1. a \notin ToSet(s.wait[x])  BY <1>4, Waiters, StateFacts
      <4>. QED  BY <3>2, <4>1, <1>1, <1>3, <1>4, <1>2
    <3>3. CASE t # a
      <4>1. t \in ToSet(s.wait[x]) /\ t \in Thd  BY <3>1, <3>3, <1>4, Waiters
      <4>. QED  BY <3>3, <4>1, <1>1 DEF CallsOk
    <3>. QED  BY <3>2, <3>3
  <2>2. ASSUME NEW t \in Thd, d[t] # NoCall
        PROVE  /\ CallType(d[t])
               /\ \/ u.state[t] = "RUNNING"
                  \/ /\ d[t].at \in {"slot", "item"} /\ d[t].fresh
                     /\ t \in ToSet(u.wait[Wants(d[t])])
    <3>1. CASE t = a  BY <3>1, <1>1, <1>3, <1>4, <1>2
    <3>2. CASE t # a
      <4>1. d[t] = c[t] /\ CallType(c[t]) /\ Wants(c[t]) \in QueueSem
        BY <3>2, <2>2, <1>1, QueueSems DEF CallsOk
      <4>2. \/ s.state[t] = "RUNNING"
            \/ /\ c[t].at \in {"slot", "item"} /\ c[t].fresh
               /\ t \in ToSet(s.wait[Wants(c[t])])
        BY <3>2, <2>2, <1>1 DEF CallsOk
      <4>. QED  BY <3>2, <4>1, <4>2, <1>4, <1>2
    <3>. QED  BY <3>1, <3>2
  <2>. QED  BY <1>1, <2>1, <2>2 DEF CallsOk
<1>6. ASSUME NEW q, NEW S  PROVE Holders(u, d, q, S) = Holders(s, c, q, S)
  <2>1. a \notin Holders(u, d, q, S)  BY <1>1, <1>2, StateFacts DEF Holders
  <2>2. a \notin Holders(s, c, q, S)  BY DEF Holders
  <2>3. \A t \in Thd \ {a} : t \in Holders(u, d, q, S) <=> t \in Holders(s, c, q, S)
    BY <1>1, <1>2 DEF Holders
  <2>. QED  BY <2>1, <2>2, <2>3 DEF Holders
<1>. QED  BY <1>5, <1>6 DEF SameHolders

\* The calls after queue q was deleted.
Outlived(c, q) == [t \in Thd |-> IF c[t] # NoCall /\ c[t].q = q
                                 THEN [c[t] EXCEPT !.fresh = FALSE] ELSE c[t]]

\* A queue is deleted, and nobody is left on its semaphores.
LEMMA CallsOutlive ==
  ASSUME NEW s, NEW c, KInv(s), CallsOk(s, c), NEW q \in Msgq,
         s.wait[Items(q)] = <<>>, q \in Bmq => s.wait[Slots(q)] = <<>>,
         NEW d, d = Outlived(c, q)
  PROVE  /\ CallsOk(s, d)
         /\ SameHolders(s, d, s, c)
         /\ \A t \in Thd : /\ d[t] # NoCall <=> c[t] # NoCall
                           /\ c[t] # NoCall => /\ d[t].node = c[t].node /\ d[t].q = c[t].q
                                               /\ d[t].q # q => d[t].fresh = c[t].fresh
<1>1. ASSUME NEW t \in Thd, c[t] # NoCall, c[t].q = q
      PROVE  /\ d[t] # NoCall /\ CallType(d[t]) /\ d[t].at = c[t].at
             /\ d[t].q = q /\ d[t].node = c[t].node /\ s.state[t] = "RUNNING"
  <2>1. CallType(c[t]) /\ c[t] \in Call  BY <1>1, QueueSems DEF CallsOk
  <2>2. d[t] = [c[t] EXCEPT !.fresh = FALSE]  BY <1>1 DEF Outlived
  <2>3. /\ d[t] \in Call /\ d[t].at = c[t].at /\ d[t].q = c[t].q
        /\ d[t].node = c[t].node
    BY <2>1, <2>2 DEF Call
  <2>4. CallType(d[t])  BY <2>1, <2>3 DEF CallType
  <2>5. s.state[t] = "RUNNING"
    <3>1. ASSUME c[t].at \in {"slot", "item"}  PROVE s.wait[Wants(c[t])] = <<>>
      <4>1. CASE c[t].at = "slot"
        BY <4>1, <1>1, <2>1 DEF CallType, Wants
      <4>2. CASE c[t].at # "slot"
        BY <4>2, <1>1 DEF Wants
      <4>. QED  BY <4>1, <4>2
    <3>2. ToSet(<<>>) = {}  BY DEF ToSet
    <3>. QED  BY <3>1, <3>2, <1>1 DEF CallsOk
  <2>. QED  BY <2>3, <2>4, <2>5, <1>1, QueueSems
<1>2. ASSUME NEW t \in Thd, c[t] = NoCall \/ c[t].q # q  PROVE d[t] = c[t]
  BY <1>2 DEF Outlived
<1>3. \A t \in Thd : /\ d[t] # NoCall <=> c[t] # NoCall
                     /\ c[t] # NoCall => /\ d[t].node = c[t].node /\ d[t].q = c[t].q
                                         /\ d[t].at = c[t].at
                                         /\ d[t].q # q => d[t].fresh = c[t].fresh
  BY <1>1, <1>2
<1>4. SameHolders(s, d, s, c)  BY <1>3 DEF Holders, SameHolders
<1>5. ASSUME NEW t \in Thd, d[t] # NoCall
      PROVE  /\ CallType(d[t])
             /\ \/ s.state[t] = "RUNNING"
                \/ /\ d[t].at \in {"slot", "item"} /\ d[t].fresh
                   /\ t \in ToSet(s.wait[Wants(d[t])])
  <2>1. CASE c[t].q = q  BY <2>1, <1>1, <1>3, <1>5
  <2>2. CASE c[t].q # q
    <3>1. d[t] = c[t]  BY <2>2, <1>2
    <3>. QED  BY <3>1, <1>5 DEF CallsOk
  <2>. QED  BY <2>1, <2>2
<1>6. ASSUME NEW x \in QueueSem, NEW t \in ToSet(s.wait[x])
      PROVE  d[t] # NoCall /\ d[t].at \in {"slot", "item"} /\ Wants(d[t]) = x
  <2>1. t \in Thd /\ s.state[t] # "RUNNING"
    BY <1>6, Waiters, QueueSems, StateFacts
  <2>2. c[t] # NoCall /\ c[t].at \in {"slot", "item"} /\ Wants(c[t]) = x
    BY <1>6 DEF CallsOk
  <2>3. d[t] = c[t]  BY <2>1, <2>2, <1>1, <1>2
  <2>. QED  BY <2>2, <2>3
<1>7. CallsOk(s, d)
  <2>1. DOMAIN d = Thd  BY DEF Outlived
  <2> HIDE DEF CallsOk
  <2>. QED  BY <2>1, <1>5, <1>6 DEF CallsOk
<1>. QED  BY <1>3, <1>4, <1>7

----------------------------------------------------------------------------
(* The critical sections of the kernel that the queues are made of.        *)

\* What holds inside a critical section; r are the threads in RMP_Thd_Rcv.
Within(s, r) == Inner(s) /\ Ipc(s, r)

\* What every memory within a critical section satisfies.
LEMMA WithinFacts ==
  ASSUME NEW s, NEW r, Within(s, r)
  PROVE  /\ KInv(s) /\ s \in Kernel /\ Mem(s)
         /\ \A x \in Sem : /\ s.num[x] \in Nat /\ s.num[x] < SemMax
                           /\ s.wait[x] \in Seq(Thd)
                           /\ x \notin s.used => s.wait[x] = <<>>
         /\ SemMax \in Nat /\ SemMax < W /\ 1 \in Word
<1>1. KInv(s) /\ s \in Kernel /\ Mem(s)  BY KernelMem DEF Within, Inner, KInv, Good
<1>2. SemMax \in Nat /\ SemMax < W /\ 1 \in Word /\ SemMax # 0
  BY CoreAssumption, QueueAssumption DEF Word
<1>3. \A x \in Sem : s.num[x] \in Nat /\ s.wait[x] \in Seq(Thd)
  BY <1>1, CoreAssumption DEF Kernel, Word
<1>4. \A x \in Sem : s.num[x] < SemMax  BY <1>2, <1>3 DEF Within, Ipc
<1>5. \A x \in Sem : x \notin s.used => s.wait[x] = <<>>  BY <1>1 DEF KInv, Owners
<1>. QED  BY <1>1, <1>2, <1>3, <1>4, <1>5

\* A critical section begins in a state that satisfies the invariant, and
\* ends in one.
LEMMA WithinInv ==
  /\ IpcInv => Within(k, rcv)
  /\ \A u : IpcInv /\ Within(u, rcv) /\ k' = Leave(u) /\ UNCHANGED <<rcv, got>> => IpcInv'
<1>1. IpcInv => Within(k, rcv)  BY SafeInner DEF IpcInv, IInv, Within
<1>2. ASSUME IpcInv, NEW u, Within(u, rcv), k' = Leave(u), UNCHANGED <<rcv, got>>
      PROVE  IpcInv'
  <2>1. Safe(k') /\ Ipc(k', rcv)
    BY <1>2, WithinFacts, LeaveSafe, LeaveIpc DEF Within
  <2>2. IInv'  BY <1>2, <2>1 DEF IpcInv, IInv
  <2>. QED  BY <1>2, <2>1, <2>2 DEF IpcInv
<1>. QED  BY <1>1, <1>2

\* Waking blocked threads: G are those it grants what they wait for.
LEMMA EasedMoves ==
  ASSUME NEW s, NEW u, NEW T, NEW C, NEW G, KInv(s), Eased(u, s, T),
         \A t \in T : t \in Thd /\ s.state[t] \in Blocked,
         C \subseteq Thd,
         \A x \in QueueSem : \A t \in ToSet(s.wait[x]) \cap C :
            t \in T => (u.retval[t] = "ok" <=> t \in G)
  PROVE  Moves(u, s, C, G)
<1>1. \A t \in Thd : u.state[t] = IF t \in T THEN "RUNNING" ELSE s.state[t]
  BY DEF Eased
<1>2. ASSUME NEW x \in QueueSem, NEW t \in ToSet(s.wait[x]) \cap C,
             u.state[t] = "RUNNING"
      PROVE  u.retval[t] = "ok" <=> t \in G
  <2>1. s.state[t] \in Pending /\ t \in Thd  BY Waiters, QueueSems
  <2>2. t \in T  BY <1>1, <1>2, <2>1, StateFacts
  <2>. QED  BY <2>2
<1>3. \A t \in C : \/ u.state[t] = s.state[t] /\ u.retval[t] = s.retval[t]
                   \/ u.state[t] = "RUNNING" /\ s.state[t] \in Blocked
  BY <1>1 DEF Eased
<1>4. \A x \in Sem : ToSet(u.wait[x]) \subseteq ToSet(s.wait[x]) /\ u.panic = s.panic
  BY DEF Eased
<1>5. u.panic = s.panic  BY DEF Eased
<1>. QED  BY <1>2, <1>3, <1>4, <1>5, QueueSems DEF Moves

\* A step that grants nothing.
LEMMA EasedCalm ==
  ASSUME NEW s, NEW u, NEW T, NEW C, KInv(s), Eased(u, s, T),
         \A t \in T : t \in Thd /\ s.state[t] \in Blocked,
         C \subseteq Thd,
         \A t \in T : s.state[t] \in Pending => u.retval[t] = "err"
  PROVE  Calm(u, s, C)
<1>1. \A x \in QueueSem : \A t \in ToSet(s.wait[x]) \cap C :
         t \in T => (u.retval[t] = "ok" <=> t \in {})
  BY Waiters, QueueSems
<1>2. Moves(u, s, C, {})  BY <1>1, EasedMoves
<1>. QED  BY <1>2 DEF Calm, Eased

\* Other fields may change as they like.
LEMMA MovesSame ==
  ASSUME NEW s, NEW u, NEW v, NEW C, NEW G, Moves(u, s, C, G),
         v.state = u.state, v.retval = u.retval, v.wait = u.wait, v.panic = u.panic
  PROVE  Moves(v, s, C, G)
BY DEF Moves

\* A step that starts no wait and ends none.
LEMMA StillMoves ==
  ASSUME NEW s, NEW u, NEW C, C \subseteq Thd, KInv(s),
         u.state = s.state, u.retval = s.retval, u.wait = s.wait, u.panic = s.panic
  PROVE  Moves(u, s, C, {})
<1>1. \A x \in QueueSem : \A t \in ToSet(s.wait[x]) : s.state[t] # "RUNNING"
  BY Waiters, QueueSems, StateFacts
<1>. QED  BY <1>1 DEF Moves

\* Leave only requests the switch.
LEMMA LeaveMoves ==
  ASSUME NEW u, Mem(u)
  PROVE  /\ \A s, C, G : Moves(u, s, C, G) => Moves(Leave(u), s, C, G)
         /\ \A s, C : Calm(u, s, C) => Calm(Leave(u), s, C)
         /\ Leave(u).num = u.num /\ Leave(u).used = u.used /\ Leave(u).panic = u.panic
         /\ Leave(u).state = u.state /\ Leave(u).retval = u.retval
         /\ Leave(u).wait = u.wait
<1> DEFINE v == Leave(u)
<1>1. /\ v.num = u.num /\ v.used = u.used /\ v.panic = u.panic
      /\ v.state = u.state /\ v.retval = u.retval /\ v.wait = u.wait
  BY LeaveSame DEF SameIpc
<1> HIDE DEF v
<1>2. \A s, C, G : Moves(u, s, C, G) => Moves(v, s, C, G)  BY <1>1, MovesSame
<1>. QED  BY <1>1, <1>2 DEF Calm, v

\* RMP_Sem_Crt within a critical section: nobody waits for it.
LEMMA CrtMoves ==
  ASSUME NEW s, NEW r, Within(s, r), NEW x \in QueueSem, x \notin s.used,
         NEW n \in Word, n < SemMax
  PROVE  LET u == Crt_Sem(s, x, n)
         IN  /\ Within(u, r) /\ Moves(u, s, Thd, {})
             /\ u.num[x] = n /\ \A y \in QueueSem \ {x} : u.num[y] = s.num[y]
             /\ u.used = s.used \cup {x}
<1> DEFINE a == [s EXCEPT !.num[x] = n]
           u == Crt_Sem(s, x, n)
           V == s.used \cup {x}
<1>1. /\ KInv(s) /\ s \in Kernel /\ s.wait[x] = <<>> /\ x \in Sem /\ Inner(s)
      /\ Ipc(s, r)
  BY WithinFacts, QueueSems DEF Within
<1>2. /\ a.num = [s.num EXCEPT ![x] = n]
      /\ a.state = s.state /\ a.susp = s.susp /\ a.full = s.full
      /\ a.snd = s.snd /\ a.wait = s.wait /\ a.retval = s.retval
      /\ a.cur = s.cur /\ a.lock = s.lock /\ a.panic = s.panic
      /\ a.used = s.used
  BY <1>1 DEF Kernel
<1>3. Inner(a)  BY <1>1, NumInner
<1>4. u = [a EXCEPT !.used = V]
  <2>1. [s.wait EXCEPT ![x] = <<>>] = s.wait  BY <1>1 DEF Kernel
  <2>. QED  BY <1>1, <2>1 DEF Crt_Sem, Kernel
<1>5. a \in Kernel  BY <1>3 DEF Inner, KInv, Good
<1> HIDE DEF a, u
<1>6. /\ V \in SUBSET Sem /\ \A y \in Sem : a.wait[y] # <<>> => y \in V
  BY <1>1, <1>2 DEF Kernel, KInv, Owners
<1>7. Inner(u)  BY <1>3, <1>4, <1>6, UsedInner
<1>8. /\ u.num = a.num /\ u.state = s.state /\ u.susp = s.susp /\ u.full = s.full
      /\ u.snd = s.snd /\ u.wait = s.wait /\ u.retval = s.retval
      /\ u.cur = s.cur /\ u.lock = s.lock /\ u.panic = s.panic /\ u.used = V
  BY <1>2, <1>4, <1>5 DEF Kernel
<1>9. DOMAIN s.num = Sem  BY <1>1 DEF Kernel
<1>10. \A y \in Sem : u.num[y] = IF y = x THEN n ELSE s.num[y]
  BY <1>2, <1>8, <1>9
<1>11. ToSet(s.wait[x]) = {}
  <2>1. ToSet(<<>>) = {}  BY DEF ToSet
  <2>. QED  BY <1>1, <2>1
<1>12. Ipc(u, r)  BY <1>1, <1>8, <1>10, <1>11 DEF Ipc
<1>13. Moves(u, s, Thd, {})  BY <1>1, <1>8, StillMoves
<1>. QED  BY <1>7, <1>8, <1>10, <1>12, <1>13, QueueSems, <1>1 DEF Within, u

\* Taking one from the count.
LEMMA TakeMoves ==
  ASSUME NEW s, NEW r, Within(s, r), NEW x \in QueueSem, s.num[x] # 0
  PROVE  LET u == [s EXCEPT !.num[x] = s.num[x] - 1]
         IN  /\ Within(u, r) /\ Moves(u, s, Thd, {})
             /\ u.num[x] = s.num[x] - 1 /\ \A y \in QueueSem \ {x} : u.num[y] = s.num[y]
             /\ u.used = s.used /\ u.cur = s.cur /\ u.state = s.state
             /\ u.retval = s.retval
<1> DEFINE n == s.num[x] - 1
           u == [s EXCEPT !.num[x] = n]
<1>1. /\ KInv(s) /\ s \in Kernel /\ x \in Sem /\ Inner(s) /\ Ipc(s, r)
      /\ s.num[x] \in Nat /\ s.num[x] < SemMax /\ SemMax \in Nat /\ SemMax < W
  BY WithinFacts, QueueSems DEF Within
<1>2. n \in Word /\ n < SemMax  BY <1>1, CoreAssumption DEF Word
<1>3. Inner(u)  BY <1>1, <1>2, NumInner
<1> HIDE DEF n
<1>4. /\ u.num = [s.num EXCEPT ![x] = n]
      /\ u.state = s.state /\ u.susp = s.susp /\ u.full = s.full
      /\ u.snd = s.snd /\ u.wait = s.wait /\ u.retval = s.retval
      /\ u.cur = s.cur /\ u.lock = s.lock /\ u.panic = s.panic /\ u.used = s.used
  BY <1>1 DEF Kernel
<1>5. DOMAIN s.num = Sem  BY <1>1 DEF Kernel
<1> HIDE DEF u
<1>6. \A y \in Sem : u.num[y] = IF y = x THEN n ELSE s.num[y]  BY <1>4, <1>5
<1>7. Ipc(u, r)  BY <1>1, <1>2, <1>4, <1>6 DEF Ipc
<1>8. Moves(u, s, Thd, {})  BY <1>1, <1>4, StillMoves
<1>. QED  BY <1>1, <1>3, <1>4, <1>6, <1>7, <1>8, QueueSems DEF Within, u, n

\* RMP_Sem_Del within a critical section: whoever waited fails.
LEMMA DelMoves ==
  ASSUME NEW s, NEW r, Within(s, r), NEW x \in QueueSem
  PROVE  LET u == Del_Sem(s, x)
         IN  /\ Within(u, r) /\ Moves(u, s, Thd, {})
             /\ u.wait[x] = <<>> /\ u.num = s.num /\ u.used = s.used \ {x}
             /\ \A y \in Sem : s.wait[y] = <<>> => u.wait[y] = <<>>
<1> DEFINE T == ToSet(s.wait[x])
           w == WakeAll(s, s.wait[x])
           v == SetRetval(w, T, "err")
           V == v.used \ {x}
           u == Del_Sem(s, x)
<1>1. /\ KInv(s) /\ s \in Kernel /\ x \in Sem /\ Inner(s) /\ Ipc(s, r)
      /\ s.wait[x] \in Seq(Thd)
  BY WithinFacts, QueueSems DEF Within
<1>2. /\ IsInjective(s.wait[x]) /\ \A t \in T : t \in Thd /\ s.state[t] \in Blocked
  BY <1>1, WaitersBlocked, Waiters, StateFacts
<1>3. KInv(w) /\ Woken(w, s, T)  BY <1>1, <1>2, WakeEach
<1>4. Inner(w) /\ w.wait[x] = <<>> /\ w \in Kernel
  BY <1>1, WakeList DEF Inner, KInv, Good
<1>5. u = [v EXCEPT !.used = V]  BY DEF Del_Sem
<1> HIDE DEF w, u
<1>6. Inner(v) /\ v \in Kernel /\ v.wait = w.wait  BY <1>4, RetvalInner, RetvalFields
<1>7. Eased(v, s, T)  BY <1>3, <1>4, WokenRetval
<1>8. \A t \in Thd : v.retval[t] = IF t \in T THEN "err" ELSE w.retval[t]
  BY <1>4, SetRetvalFields
<1> HIDE DEF v, T
<1>9. V \in SUBSET Sem /\ \A y \in Sem : v.wait[y] # <<>> => y \in V
  BY <1>4, <1>6 DEF Kernel, Inner, KInv, Owners
<1>10. Inner(u)  BY <1>5, <1>6, <1>9, UsedInner
<1>11. /\ u.num = v.num /\ u.state = v.state /\ u.susp = v.susp /\ u.full = v.full
       /\ u.snd = v.snd /\ u.wait = v.wait /\ u.retval = v.retval
       /\ u.cur = v.cur /\ u.lock = v.lock /\ u.panic = v.panic /\ u.used = V
  BY <1>5, <1>6 DEF Kernel
<1>12. Ipc(v, r)  BY <1>1, <1>2, <1>7, EasedIpc
<1>13. Ipc(u, r)  BY <1>11, <1>12, SchedIpc DEF Ipc
<1>14. Calm(v, s, Thd)
  <2>1. \A t \in T : s.state[t] \in Pending => v.retval[t] = "err"
    BY <1>2, <1>8
  <2>. QED  BY <1>1, <1>2, <1>7, <2>1, EasedCalm
<1>15. Moves(u, s, Thd, {})  BY <1>11, <1>14, MovesSame DEF Calm
<1>16. v.num = s.num /\ v.used = s.used  BY <1>7 DEF Eased
<1>17. ASSUME NEW y \in Sem, s.wait[y] = <<>>  PROVE u.wait[y] = <<>>
  <2>1. ToSet(u.wait[y]) \subseteq ToSet(s.wait[y])  BY <1>7, <1>11 DEF Eased
  <2>2. ToSet(s.wait[y]) = {}  BY <1>17 DEF ToSet
  <2>3. u.wait[y] \in Seq(Thd)  BY <1>6, <1>11 DEF Kernel
  <2>4. ToSet(u.wait[y]) = {}  BY <2>1, <2>2
  <2>. QED  BY <2>3, <2>4, EmptySet
<1>. QED  BY <1>4, <1>6, <1>10, <1>11, <1>13, <1>15, <1>16, <1>17 DEF Within, u

\* RMP_Sem_Post of one within a critical section: it is granted to somebody
\* or added to the count.
LEMMA ServeMoves ==
  ASSUME NEW s, NEW r, Within(s, r), NEW x \in QueueSem,
         (s.num[x] + 1) % W < SemMax
  PROVE  LET u == Serve(s, x, 1)
         IN  /\ Within(u, r)
             /\ \E G \in SUBSET ToSet(s.wait[x]) :
                   /\ Moves(u, s, Thd, G) /\ \A t \in G : u.state[t] = "RUNNING"
                   /\ Cardinality(G) \in Nat
                   /\ u.num[x] + Cardinality(G) = s.num[x] + 1
             /\ \A y \in QueueSem \ {x} : u.num[y] = s.num[y]
             /\ u.used = s.used /\ u.panic = s.panic
<1> DEFINE q == s.wait[x]
           sum == (s.num[x] + 1) % W
           u == Serve(s, x, 1)
<1>1. /\ KInv(s) /\ s \in Kernel /\ x \in Sem /\ Inner(s) /\ Ipc(s, r)
      /\ q \in Seq(Thd) /\ s.num[x] \in Nat /\ s.num[x] < SemMax
      /\ SemMax \in Nat /\ SemMax < W /\ 1 \in Word
  BY WithinFacts, QueueSems DEF Within
<1>2. sum = s.num[x] + 1
  <2>1. s.num[x] + 1 \in 0..(W - 1)  BY <1>1, CoreAssumption
  <2>. QED  BY <2>1, CoreAssumption
<1>3. Inner(u) /\ Ipc(u, r) /\ Mem(u)  BY <1>1, ServeInner, ServeIpc
<1>4. PICK m \in 0..Len(q) : u = [WakeAll(s, SubSeq(q, 1, m)) EXCEPT !.num[x] = sum - m]
  BY <1>1, ServePrefix
<1> DEFINE ts == SubSeq(q, 1, m)
           w == WakeAll(s, ts)
           G == ToSet(ts)
<1>5. w \in Kernel /\ Woken(w, s, G)  BY <1>1, PrefixIpc
<1>6. /\ ts \in Seq(Thd) /\ Len(ts) = m /\ IsInjective(ts) /\ G \subseteq ToSet(q)
      /\ \A z \in ToSet(q) : s.state[z] \in Pending
  BY <1>1, FirstFacts DEF First
<1>7. Cardinality(G) = m  BY <1>6, CountFirst
<1> HIDE DEF u, w, ts, sum
<1>8. /\ u.state = w.state /\ u.retval = w.retval /\ u.wait = w.wait
      /\ u.panic = w.panic /\ u.used = w.used /\ DOMAIN w.num = Sem
      /\ u.num = [w.num EXCEPT ![x] = sum - m]
  <2>1. u = [w EXCEPT !.num[x] = sum - m]  BY <1>4 DEF w, ts
  <2>. QED  BY <1>5, <2>1 DEF Kernel
<1>9. \A y \in Sem : u.num[y] = IF y = x THEN sum - m ELSE s.num[y]
  BY <1>5, <1>8 DEF Woken, SameRest
<1>10. Eased(w, s, G) /\ \A t \in G : t \in Thd /\ s.state[t] \in Blocked
  BY <1>1, <1>5, <1>6, WokenEased, Waiters, StateFacts
<1>11. \A t \in G : w.retval[t] = "ok"
  BY <1>1, <1>5, <1>10 DEF Woken, Ipc
<1>12. Moves(w, s, Thd, G)  BY <1>1, <1>10, <1>11, EasedMoves
<1>13. Moves(u, s, Thd, G)  BY <1>8, <1>12, MovesSame
<1>14. \A t \in G : u.state[t] = "RUNNING"  BY <1>8, <1>10 DEF Eased
<1>15. u.used = s.used /\ u.panic = s.panic  BY <1>5, <1>8 DEF Woken, SameRest
<1>16. m \in Nat /\ u.num[x] + m = s.num[x] + 1  BY <1>1, <1>2, <1>9
<1> HIDE DEF G
<1>17. \A y \in QueueSem \ {x} : u.num[y] = s.num[y]  BY <1>9, QueueSems
<1>. QED  BY <1>3, <1>6, <1>7, <1>13, <1>14, <1>15, <1>16, <1>17 DEF Within, u

\* _RMP_Sem_Pend_Core takes one from the count.
LEMMA PendTakes ==
  ASSUME IpcInv, NEW x \in QueueSem, k.num[x] # 0, NEW n,
         k' = Pend_Core(k, x, n), UNCHANGED <<rcv, got>>
  PROVE  /\ IpcInv' /\ Moves(k', k, Thd, {})
         /\ k'.num[x] = k.num[x] - 1 /\ \A y \in QueueSem \ {x} : k'.num[y] = k.num[y]
         /\ k'.used = k.used /\ k'.state = k.state /\ k'.retval = k.retval
<1> DEFINE u == [k EXCEPT !.num[x] = k.num[x] - 1]
<1>1. k' = Leave(u)  BY DEF Pend_Core
<1>2. /\ Within(u, rcv) /\ Moves(u, k, Thd, {})
      /\ u.num[x] = k.num[x] - 1 /\ \A y \in QueueSem \ {x} : u.num[y] = k.num[y]
      /\ u.used = k.used /\ u.state = k.state /\ u.retval = k.retval
  BY WithinInv, TakeMoves
<1> HIDE DEF u
<1>3. Mem(u)  BY <1>2, WithinFacts
<1>. QED  BY <1>1, <1>2, <1>3, WithinInv, LeaveMoves

\* _RMP_Sem_Pend_Core blocks the current thread.
LEMMA PendBlocks ==
  ASSUME IpcInv, MayBlock, NEW x \in QueueSem, x \in k.used, k.num[x] = 0,
         NEW n \in Word, n # 0, k' = Pend_Core(k, x, n), UNCHANGED <<rcv, got>>
  PROVE  /\ IpcInv' /\ k'.panic = k.panic /\ k'.num = k.num /\ k'.used = k.used
         /\ k'.state[k.cur] \in Pending
         /\ \A t \in Thd \ {k.cur} : k'.state[t] = k.state[t] /\ k'.retval[t] = k.retval[t]
         /\ \A y \in Sem : ToSet(k'.wait[y]) = IF y = x THEN ToSet(k.wait[x]) \cup {k.cur}
                                                        ELSE ToSet(k.wait[y])
<1>1. /\ Within(k, rcv) /\ k \in Kernel /\ Mem(k) /\ User /\ k.lock = 0 /\ k.cur # Idle
      /\ k.state[k.cur] = "RUNNING" /\ k.cur \notin rcv /\ x \in Sem
  BY WithinInv, WithinFacts, UserRuns, QueueSems DEF MayBlock, User, IpcInv, IInv
<1>2. IpcInv'
  <2>1. Safe(k')  BY <1>1, PendCore DEF Within
  <2>2. Ipc(k', rcv)  BY <1>1, PendCoreIpc DEF Within
  <2>. QED  BY <2>1, <2>2 DEF IpcInv, IInv
<1> DEFINE v == IF n < SliceMax THEN "SEMDLY" ELSE "SEMBLK"
           b == Block(k, n, "SEMBLK", "SEMDLY")
           u == [b EXCEPT !.wait[x] = Append(@, k.cur)]
<1>3. k' = Leave(u)  BY DEF Pend_Core
<1>4. /\ b.state = [k.state EXCEPT ![k.cur] = v]
      /\ b.retval = [k.retval EXCEPT ![k.cur] = "ok"]
      /\ b.snd = k.snd /\ b.wait = k.wait /\ SameRest(b, k) /\ Mem(b)
  BY <1>1, BlockFields, BlockMem
<1>5. v \in Pending  BY DEF Pending
<1> HIDE DEF b, v
<1>6. /\ u.state = b.state /\ u.retval = b.retval /\ u.panic = k.panic
      /\ u.num = k.num /\ u.used = k.used /\ Mem(u)
      /\ u.wait = [k.wait EXCEPT ![x] = Append(@, k.cur)]
  BY <1>4 DEF SameRest, Mem, Boot
<1> HIDE DEF u
<1>7. /\ k'.state = b.state /\ k'.retval = b.retval /\ k'.panic = k.panic
      /\ k'.num = k.num /\ k'.used = k.used
      /\ k'.wait = [k.wait EXCEPT ![x] = Append(@, k.cur)]
  BY <1>3, <1>6, LeaveMoves
<1>8. /\ k.state \in [Thd -> ThdState] /\ k.retval \in [Thd -> {"ok", "err"}]
      /\ k.wait \in [Sem -> Seq(Thd)] /\ k.cur \in Thd
  BY <1>1 DEF Kernel
<1>9. \A y \in Sem : ToSet(k'.wait[y]) = IF y = x THEN ToSet(k.wait[x]) \cup {k.cur}
                                                  ELSE ToSet(k.wait[y])
  <2>1. ToSet(Append(k.wait[x], k.cur)) = ToSet(k.wait[x]) \cup {k.cur}
    BY <1>1, <1>8, AppendLemma
  <2>. QED  BY <1>7, <1>8, <2>1
<1>10. /\ k'.state[k.cur] \in Pending
       /\ \A t \in Thd \ {k.cur} : k'.state[t] = k.state[t] /\ k'.retval[t] = k.retval[t]
  BY <1>4, <1>5, <1>7, <1>8
<1>. QED  BY <1>2, <1>7, <1>9, <1>10

----------------------------------------------------------------------------
(* The steps that leave the queues alone.                                  *)

\* Every call of the kernel that is no call of a queue keeps the kernel's
\* own invariant.
LEMMA KernelStep == IpcInv /\ (CoreNext \/ ThreadNext \/ SemNext) => IpcInv'
BY CoreSafe, CoreIpc, ThreadSafe, ThreadIpc, SemSafe, SemIpc DEF IpcInv

\* The scheduler.
LEMMA CoreCalm ==
  ASSUME IpcInv, NEW C, C \subseteq Thd,
         \/ Sched_Lock \/ Sched_Unlock \/ Yield \/ Switch
         \/ \E n \in Ticks : Tick(n)
  PROVE  Calm(k', k, C)
<1>1. /\ KInv(k) /\ k \in Kernel /\ Mem(k)
  BY WithinInv, WithinFacts
<1> DEFINE Like(u) == /\ u.state = k.state /\ u.retval = k.retval /\ u.wait = k.wait
                      /\ u.panic = k.panic /\ u.num = k.num /\ u.used = k.used
<1>2. ASSUME Like(k')  PROVE Calm(k', k, C)
  BY <1>1, <1>2, StillMoves DEF Calm
<1>3. CASE Sched_Lock
  <2>1. Like(k')  BY <1>1, <1>3 DEF Sched_Lock, Mem, Boot
  <2>. QED  BY <1>2, <2>1
<1>4. CASE Sched_Unlock
  <2> DEFINE u == [k EXCEPT !.lock = @ - 1]
  <2>1. k' = Leave(u)  BY <1>4 DEF Sched_Unlock
  <2>2. Like(u) /\ Mem(u)  BY <1>1 DEF Mem, Boot
  <2> HIDE DEF u
  <2>3. Like(k')  BY <2>1, <2>2, LeaveMoves
  <2>. QED  BY <1>2, <2>3
<1>5. CASE Yield
  <2>1. Like(k')  BY <1>1, <1>5 DEF Yield, Mem, Boot
  <2>. QED  BY <1>2, <2>1
<1>6. CASE Switch
  <2>1. k' = Run_High(k)  BY <1>6 DEF Switch
  <2>2. Like(k')  BY <1>1, <2>1 DEF Run_High, Mem, Boot
  <2>. QED  BY <1>2, <2>2
<1>7. ASSUME NEW n \in Ticks, Tick(n)  PROVE Calm(k', k, C)
  <2> DEFINE u == Tim_Handler(k, n)
  <2>1. k' = Leave(u) /\ n \in Word  BY <1>7, WordLemma DEF Tick
  <2>2. /\ u \in Kernel
        /\ \E T \in SUBSET Thd :
              /\ Eased(u, k, T) /\ \A t \in T : k.state[t] \in Timed
              /\ \A t \in T : k.state[t] # "DELAYED" => u.retval[t] = "err"
    BY <1>1, <2>1, TimHandlerEased
  <2> HIDE DEF u
  <2>3. PICK T \in SUBSET Thd :
              /\ Eased(u, k, T) /\ \A t \in T : k.state[t] \in Timed
              /\ \A t \in T : k.state[t] # "DELAYED" => u.retval[t] = "err"
    BY <2>2
  <2>4. "DELAYED" \notin Pending  BY DEF Pending
  <2>5. Calm(u, k, C)  BY <1>1, <2>3, <2>4, EasedCalm, StateFacts
  <2>. QED  BY <2>1, <2>2, <2>5, KernelMem, LeaveMoves
<1>. QED  BY <1>3, <1>4, <1>5, <1>6, <1>7

\* Waking t, whose call fails.
LEMMA AbortCalm ==
  ASSUME IpcInv, NEW t \in Thd, k.state[t] \in Blocked, NEW C, C \subseteq Thd,
         k' = Leave(SetRetval(Wake(k, t), {t}, "err"))
  PROVE  Calm(k', k, C)
<1> DEFINE w == Wake(k, t)
           u == SetRetval(w, {t}, "err")
<1>1. KInv(k)  BY SafeInner DEF IpcInv, IInv
<1>2. KInv(w) /\ Woken(w, k, {t})  BY <1>1, WakeOne
<1> HIDE DEF w
<1>3. w \in Kernel  BY <1>2 DEF KInv, Good
<1>4. Eased(u, k, {t}) /\ u \in Kernel
  BY <1>2, <1>3, WokenRetval, RetvalFields
<1>5. u.retval[t] = "err"  BY <1>3, SetRetvalFields
<1> HIDE DEF u
<1>6. Calm(u, k, C)  BY <1>1, <1>4, <1>5, EasedCalm
<1>. QED  BY <1>4, <1>6, KernelMem, LeaveMoves DEF u, w

\* Creating, changing, suspending, resuming a thread: nobody who exists
\* notices.
LEMMA SetCalm ==
  ASSUME IpcInv, NEW t \in Thd, NEW p, NEW n, NEW C, C \subseteq Thd,
         \A x \in C : k.state[x] # "FREE",
         \/ Thd_Crt(t, p, n) \/ Thd_Set(t, p, n)
         \/ Thd_Suspend(t) \/ Thd_Resume(t)
  PROVE  Calm(k', k, C)
<1> DEFINE Rest(u) == /\ u.retval = k.retval /\ u.wait = k.wait /\ u.panic = k.panic
                      /\ u.num = k.num /\ u.used = k.used /\ Mem(u)
           Like(u) == u.state = k.state /\ Rest(u)
<1>1. KInv(k) /\ Mem(k) /\ k.state \in [Thd -> ThdState]
  <2>1. KInv(k) /\ Mem(k) /\ k \in Kernel  BY WithinInv, WithinFacts
  <2>. QED  BY <2>1 DEF Kernel
<1>2. Like(k)  BY <1>1
<1>3. ASSUME NEW u, Like(u), k' = Leave(u)  PROVE Calm(k', k, C)
  <2>1. Moves(u, k, C, {})  BY <1>1, <1>3, StillMoves
  <2>2. Calm(u, k, C)  BY <2>1, <1>3 DEF Calm
  <2>. QED  BY <2>2, <1>3, LeaveMoves
<1>4. ASSUME NEW u, Like(u)  PROVE Like(Run_Ins(u, t)) /\ Like(Run_Del(u, t))
  BY <1>4, RunSame DEF SameIpc
<1>5. ASSUME NEW u, Like(u), NEW x  PROVE Like([u EXCEPT !.prio[t] = x])
  BY <1>5 DEF Mem, Boot
<1>6. ASSUME NEW u, Like(u), NEW x  PROVE Like([u EXCEPT !.slice[t] = x])
  BY <1>6 DEF Mem, Boot
<1>7. ASSUME NEW u, Like(u), NEW x  PROVE Like([u EXCEPT !.susp = x])
  BY <1>7 DEF Mem, Boot
<1>8. CASE Thd_Crt(t, p, n)
  <2> DEFINE new == [k EXCEPT !.prio[t] = p, !.slice[t] = n, !.left[t] = n,
                              !.snd[t] = <<>>, !.state[t] = "RUNNING",
                              !.susp = @ \ {t}, !.full = @ \ {t}]
             u == Run_Ins(new, t)
  <2>1. k.state[t] = "FREE" /\ k' = Leave(u)  BY <1>8 DEF Thd_Crt
  <2>2. new.state = [k.state EXCEPT ![t] = "RUNNING"] /\ Rest(new)
    BY <1>1 DEF Mem, Boot
  <2> HIDE DEF new
  <2>3. u.state = new.state /\ Rest(u)  BY <2>2, RunSame DEF SameIpc
  <2> HIDE DEF u
  <2>4. \A x \in Thd : x # t => u.state[x] = k.state[x]  BY <1>1, <2>2, <2>3
  <2>5. t \notin C  BY <2>1
  <2>6. \A x \in QueueSem : \A y \in ToSet(k.wait[x]) \cap C : u.state[y] # "RUNNING"
    BY <1>1, <2>4, <2>5, Waiters, QueueSems, StateFacts
  <2>7. Calm(u, k, C)  BY <2>3, <2>4, <2>5, <2>6 DEF Calm, Moves
  <2>. QED  BY <2>1, <2>3, <2>7, LeaveMoves
<1>9. CASE Thd_Set(t, p, n)
  <2> DEFINE moved == IF k.state[t] = "RUNNING"
                      THEN Run_Ins([Run_Del(k, t) EXCEPT !.prio[t] = p], t)
                      ELSE [k EXCEPT !.prio[t] = p]
             set == IF p < PrioNum /\ p # k.prio[t] THEN moved ELSE k
             x == IF n < SliceMax THEN n ELSE set.slice[t]
             u == [set EXCEPT !.slice[t] = x]
  <2>1. k' = Leave(u)  BY <1>9 DEF Thd_Set
  <2> HIDE DEF Like
  <2>2. Like(moved)  BY <1>2, <1>4, <1>5
  <2> HIDE DEF moved
  <2>3. Like(set)  BY <1>2, <2>2
  <2> HIDE DEF set, x
  <2>4. Like(u)  BY <1>6, <2>3
  <2>. QED  BY <1>3, <2>1, <2>4
<1>10. CASE Thd_Suspend(t)
  <2> DEFINE off == IF k.state[t] = "RUNNING" THEN Run_Del(k, t) ELSE k
             u == [off EXCEPT !.susp = @ \cup {t}]
  <2>1. k' = Leave(u)  BY <1>10 DEF Thd_Suspend
  <2>2. Like(off)  BY <1>2, <1>4
  <2> HIDE DEF off
  <2>3. Like(u)  BY <2>2 DEF Mem, Boot
  <2> HIDE DEF u, Like
  <2>. QED  BY <1>3, <2>1, <2>3
<1>11. CASE Thd_Resume(t)
  <2> DEFINE on == [k EXCEPT !.susp = @ \ {t}]
             u == IF k.state[t] = "RUNNING" THEN Run_Ins(on, t) ELSE on
  <2>1. k' = Leave(u)  BY <1>11 DEF Thd_Resume
  <2>2. Like(on)  BY <1>2, <1>7
  <2> HIDE DEF on
  <2>3. Like(u)  BY <1>4, <2>2
  <2> HIDE DEF u, Like
  <2>. QED  BY <1>3, <2>1, <2>3
<1>. QED  BY <1>8, <1>9, <1>10, <1>11

\* Blocking the current thread, for something that is no semaphore.
LEMMA DelayCalm ==
  ASSUME IpcInv, NEW n, Thd_Delay(n), NEW C, C \subseteq Thd \ {k.cur}
  PROVE  Calm(k', k, C)
<1> DEFINE u == Block(k, n, "DELAYED", "DELAYED")
<1>1. KInv(k) /\ k \in Kernel /\ k.state \in [Thd -> ThdState]
      /\ k.retval \in [Thd -> {"ok", "err"}]
  <2>1. KInv(k) /\ k \in Kernel  BY WithinInv, WithinFacts
  <2>. QED  BY <2>1 DEF Kernel
<1>2. k' = Leave(u) /\ Mem(u)  BY <1>1, BlockMem DEF Thd_Delay
<1>3. /\ u.state = [k.state EXCEPT ![k.cur] = "DELAYED"]
      /\ u.retval = [k.retval EXCEPT ![k.cur] = "ok"]
      /\ u.wait = k.wait /\ u.panic = k.panic /\ u.num = k.num /\ u.used = k.used
  <2>1. /\ u.state = [k.state EXCEPT ![k.cur] = "DELAYED"]
        /\ u.retval = [k.retval EXCEPT ![k.cur] = "ok"]
        /\ u.wait = k.wait /\ SameRest(u, k)
    BY <1>1, BlockFields
  <2> HIDE DEF u
  <2>. QED  BY <2>1 DEF SameRest
<1> HIDE DEF u
<1>4. \A t \in C : u.state[t] = k.state[t] /\ u.retval[t] = k.retval[t]
  BY <1>1, <1>3
<1>5. \A x \in QueueSem : \A t \in ToSet(k.wait[x]) \cap C : u.state[t] # "RUNNING"
  BY <1>1, <1>4, Waiters, QueueSems, StateFacts
<1>6. Calm(u, k, C)  BY <1>3, <1>4, <1>5 DEF Calm, Moves
<1>. QED  BY <1>2, <1>6, LeaveMoves

\* Deleting t: who waited to send to it fails, and nobody else notices.
LEMMA DelCalm ==
  ASSUME IpcInv, NEW t \in Thd, Thd_Del(t), t = k.cur => k.lock = 0
  PROVE  Calm(k', k, Thd \ {t}) /\ k'.state[t] = "FREE"
<1> DEFINE T == ToSet(k.snd[t])
           w == WakeAll(k, k.snd[t])
           s == SetRetval(w, T, "err")
           off == IF s.state[t] = "RUNNING" THEN Run_Del(s, t)
                                            ELSE Unlink(s, t)
           gone == [off EXCEPT !.retval[t] = "err", !.state[t] = "FREE",
                               !.susp = @ \ {t}, !.full = @ \ {t}]
           C == Thd \ {t}
<1>1. k \in Kernel /\ KInv(k) /\ Inner(k)
  BY SafeInner DEF IpcInv, IInv
<1>2. k' = Leave(gone)
  <2>1. k.lock \in Nat  BY <1>1, CoreAssumption DEF Kernel
  <2>2. ~(t = k.cur /\ k.lock > 0)  BY <2>1
  <2>. QED  BY <2>2 DEF Thd_Del
<1>3. /\ k.snd[t] \in Seq(Thd) /\ IsInjective(k.snd[t])
      /\ \A x \in T : x \in Thd /\ k.state[x] \in Sending
  <2>1. DOMAIN k.snd = Thd /\ k.snd[t] \in Seq(Thd)  BY <1>1 DEF Kernel
  <2>2. Apart(k.snd, InState(k, Sending))
    BY <1>1, ListedDef DEF KInv, Good
  <2>3. IsInjective(k.snd[t])  BY <2>1, <2>2 DEF Apart
  <2>4. \A x \in T : x \in InState(k, Sending)
    BY <2>1, <2>2 DEF Apart
  <2>. QED  BY <2>1, <2>3, <2>4 DEF InState
<1>4. KInv(w) /\ Woken(w, k, T)  BY <1>1, <1>3, WakeEach, StateFacts
<1> HIDE DEF w
<1>5. w \in Kernel /\ Inner(w)  BY <1>1, <1>4, WokenInner DEF KInv, Good
<1>6. KInv(s)  BY <1>5, RetvalInner DEF Inner
<1>7. Eased(s, k, T)  BY <1>4, <1>5, WokenRetval
<1> HIDE DEF s
<1>8. Eased(off, s, {}) /\ Mem(off)  BY <1>6, OffEased
<1> HIDE DEF off, T
<1>9. Eased(off, k, T)
  <2>1. off.state = [x \in Thd |-> s.state[x]]  BY <1>8 DEF Eased
  <2>2. /\ s.state = [x \in Thd |-> IF x \in T THEN "RUNNING" ELSE k.state[x]]
        /\ \A x \in Thd \ T : s.retval[x] = k.retval[x]
    BY <1>7 DEF Eased
  <2>3. off.state = [x \in Thd |-> IF x \in T THEN "RUNNING" ELSE k.state[x]]
    BY <2>1, <2>2
  <2>4. \A x \in Thd \ T : off.retval[x] = k.retval[x]  BY <1>8, <2>2 DEF Eased
  <2>. QED  BY <1>7, <1>8, <2>3, <2>4 DEF Eased
<1>10. Calm(off, k, C)
  <2>1. \A x \in T : k.state[x] \notin Pending /\ k.state[x] \in Blocked /\ x \in Thd
    BY <1>3, StateFacts
  <2>. QED  BY <1>1, <1>9, <2>1, EasedCalm
<1>11. /\ gone.state = [off.state EXCEPT ![t] = "FREE"]
       /\ gone.wait = off.wait /\ gone.num = off.num /\ gone.used = off.used
       /\ gone.panic = off.panic /\ Mem(gone)
       /\ \A x \in C : gone.retval[x] = off.retval[x]
  BY <1>8 DEF Mem, Boot
<1> HIDE DEF gone
<1>12. DOMAIN off.state = Thd  BY <1>9 DEF Eased
<1>13. gone.state[t] = "FREE" /\ \A x \in C : gone.state[x] = off.state[x]
  BY <1>11, <1>12
<1>14. Calm(gone, k, C)
  <2> HIDE DEF C
  <2>. QED  BY <1>10, <1>11, <1>13 DEF Calm, Moves
<1>. QED  BY <1>2, <1>11, <1>13, <1>14, LeaveMoves DEF C

\* Waiting for a semaphore that belongs to no queue; s is the memory after
\* the lock was released.
LEMMA PendCalm ==
  ASSUME KInv(k), NEW s \in Kernel, NEW x \in Sem \ QueueSem, NEW n,
         s.state = k.state, s.retval = k.retval, s.wait = k.wait,
         s.panic = k.panic, s.num = k.num, s.used = k.used, s.cur = k.cur,
         NEW C, C \subseteq Thd \ {k.cur}
  PROVE  Calm(Pend_Core(s, x, n), k, C)
<1>1. /\ k.state \in [Thd -> ThdState] /\ k.retval \in [Thd -> {"ok", "err"}]
      /\ k.num \in [Sem -> Word] /\ k.wait \in [Sem -> Seq(Thd)] /\ k.cur \in Thd
      /\ Mem(s) /\ C \subseteq Thd
  BY KernelMem DEF KInv, Good, Kernel
<1>2. ASSUME s.num[x] # 0
      PROVE  Calm(Pend_Core(s, x, n), k, C)
  <2> DEFINE u == [s EXCEPT !.num[x] = @ - 1]
  <2>1. Pend_Core(s, x, n) = Leave(u)  BY <1>2 DEF Pend_Core
  <2>2. /\ u.state = k.state /\ u.retval = k.retval /\ u.wait = k.wait
        /\ u.panic = k.panic /\ u.used = k.used /\ Mem(u)
        /\ u.num = [k.num EXCEPT ![x] = @ - 1]
    BY <1>1 DEF Mem, Boot
  <2> HIDE DEF u
  <2>3. Moves(u, k, C, {})  BY <1>1, <2>2, StillMoves
  <2>4. \A y \in QueueSem : u.num[y] = k.num[y]  BY <1>1, <2>2
  <2>5. Calm(u, k, C)  BY <2>2, <2>3, <2>4 DEF Calm
  <2>. QED  BY <2>1, <2>2, <2>5, LeaveMoves
<1>3. ASSUME s.num[x] = 0, n = 0
      PROVE  Calm(Pend_Core(s, x, n), k, C)
  <2>1. Pend_Core(s, x, n) = Leave(s)  BY <1>3 DEF Pend_Core
  <2>2. Moves(s, k, C, {})  BY <1>1, StillMoves
  <2>3. Calm(s, k, C)  BY <2>2 DEF Calm
  <2>. QED  BY <1>1, <2>1, <2>3, LeaveMoves
<1>4. ASSUME s.num[x] = 0, n # 0
      PROVE  Calm(Pend_Core(s, x, n), k, C)
  <2> DEFINE v == IF n < SliceMax THEN "SEMDLY" ELSE "SEMBLK"
             b == Block(s, n, "SEMBLK", "SEMDLY")
             u == [b EXCEPT !.wait[x] = Append(@, s.cur)]
  <2>1. Pend_Core(s, x, n) = Leave(u)  BY <1>4 DEF Pend_Core
  <2>2. /\ b.state = [s.state EXCEPT ![s.cur] = v]
        /\ b.retval = [s.retval EXCEPT ![s.cur] = "ok"]
        /\ b.snd = s.snd /\ b.wait = s.wait /\ SameRest(b, s) /\ Mem(b)
    BY BlockFields, BlockMem
  <2> HIDE DEF b, v
  <2>3. /\ u.state = b.state /\ u.retval = b.retval /\ u.panic = k.panic
        /\ u.num = k.num /\ u.used = k.used /\ Mem(u)
        /\ u.wait = [k.wait EXCEPT ![x] = Append(@, k.cur)]
    BY <2>2 DEF SameRest, Mem, Boot
  <2> HIDE DEF u
  <2>4. \A t \in C : u.state[t] = k.state[t] /\ u.retval[t] = k.retval[t]
    BY <1>1, <2>2, <2>3
  <2>5. \A y \in Sem : y # x => u.wait[y] = k.wait[y]  BY <1>1, <2>3
  <2>6. ToSet(u.wait[x]) \cap C \subseteq ToSet(k.wait[x])
    <3>1. k.wait[x] \in Seq(Thd) /\ u.wait[x] = Append(k.wait[x], k.cur)
      BY <1>1, <2>3
    <3>2. ToSet(u.wait[x]) = ToSet(k.wait[x]) \cup {k.cur}
      BY <1>1, <3>1, AppendLemma
    <3>. QED  BY <3>2
  <2>7. \A y \in QueueSem : \A t \in ToSet(k.wait[y]) \cap C : u.state[t] # "RUNNING"
    BY <1>1, <2>4, Waiters, QueueSems, StateFacts
  <2>8. Moves(u, k, C, {})
    BY <2>3, <2>4, <2>5, <2>6, <2>7, QueueSems DEF Moves
  <2>9. Calm(u, k, C)  BY <2>3, <2>8 DEF Calm
  <2>. QED  BY <2>1, <2>3, <2>9, LeaveMoves
<1>. QED  BY <1>2, <1>3, <1>4

\* Waking some of those who wait for a semaphore that belongs to no queue.
LEMMA WakeCalm ==
  ASSUME IpcInv, NEW x \in Sem \ QueueSem, NEW m \in 0..Len(k.wait[x]),
         NEW C, C \subseteq Thd
  PROVE  LET w == WakeAll(k, SubSeq(k.wait[x], 1, m))
         IN  Calm(w, k, C) /\ w \in Kernel /\ Mem(w)
<1> DEFINE ts == SubSeq(k.wait[x], 1, m)
           w == WakeAll(k, ts)
           T == ToSet(ts)
<1>1. KInv(k) /\ Ipc(k, rcv)  BY SafeInner DEF IpcInv, IInv
<1>2. w \in Kernel /\ Mem(w) /\ Woken(w, k, T)  BY <1>1, PrefixIpc
<1>3. /\ T \subseteq ToSet(k.wait[x])
      /\ \A z \in ToSet(k.wait[x]) : k.state[z] \in Pending
  BY <1>1, FirstFacts DEF First
<1> HIDE DEF w, T
<1>4. Eased(w, k, T) /\ \A t \in T : t \in Thd /\ k.state[t] \in Blocked
  BY <1>1, <1>2, <1>3, WokenEased, Waiters, StateFacts
<1>5. \A y \in QueueSem : \A t \in ToSet(k.wait[y]) \cap C : t \notin T
  BY <1>1, <1>3, OneList, QueueSems
<1>6. Moves(w, k, C, {})  BY <1>1, <1>4, <1>5, EasedMoves
<1>7. Calm(w, k, C)  BY <1>4, <1>6 DEF Calm, Eased
<1>. QED  BY <1>2, <1>7 DEF w

\* The calls on semaphores that belong to no queue.
LEMMA SemCalm ==
  ASSUME IpcInv, NEW x \in Sem \ QueueSem, NEW C, C \subseteq Thd,
         (k.cur \notin C /\ Sem_Call(x)) \/ Sem_Handler(x)
  PROVE  Calm(k', k, C)
<1>1. /\ KInv(k) /\ Mem(k) /\ k \in Kernel
      /\ k.num \in [Sem -> Word] /\ k.wait \in [Sem -> Seq(Thd)]
  <2>1. KInv(k) /\ Mem(k) /\ k \in Kernel  BY WithinInv, WithinFacts
  <2>. QED  BY <2>1 DEF Kernel
<1>2. ASSUME NEW n, Sem_Crt(x, n)  PROVE Calm(k', k, C)
  <2> DEFINE u == [k EXCEPT !.num[x] = n, !.wait[x] = <<>>, !.used = @ \cup {x}]
  <2>1. k' = Leave(u) /\ x \notin k.used  BY <1>2 DEF Sem_Crt
  <2>2. k.wait[x] = <<>>  BY <1>1, <2>1 DEF KInv, Owners
  <2>3. /\ u.state = k.state /\ u.retval = k.retval
        /\ u.panic = k.panic /\ Mem(u)
        /\ u.num = [k.num EXCEPT ![x] = n] /\ u.used = k.used \cup {x}
        /\ u.wait = [k.wait EXCEPT ![x] = <<>>]
    BY <1>1 DEF Mem, Boot
  <2> HIDE DEF u
  <2>4. u.wait = k.wait  BY <1>1, <2>2, <2>3
  <2>5. Moves(u, k, C, {})  BY <1>1, <2>3, <2>4, StillMoves
  <2>6. \A y \in QueueSem : u.num[y] = k.num[y] /\ (y \in u.used <=> y \in k.used)
    BY <1>1, <2>3
  <2>7. Calm(u, k, C)  BY <2>5, <2>6 DEF Calm
  <2>. QED  BY <2>1, <2>3, <2>7, LeaveMoves
<1>3. ASSUME Sem_Del(x)  PROVE Calm(k', k, C)
  <2> DEFINE T == ToSet(k.wait[x])
             w == WakeAll(k, k.wait[x])
             v == SetRetval(w, T, "err")
             u == [v EXCEPT !.used = @ \ {x}]
  <2>1. k' = Leave(u)  BY <1>3 DEF Sem_Del
  <2>2. /\ IsInjective(k.wait[x]) /\ \A t \in T : t \in Thd /\ k.state[t] \in Blocked
        /\ k.wait[x] \in Seq(Thd)
    BY <1>1, WaitersBlocked, Waiters, StateFacts
  <2>3. KInv(w) /\ Woken(w, k, T)  BY <1>1, <2>2, WakeEach
  <2>4. w \in Kernel  BY <2>3 DEF KInv, Good
  <2> HIDE DEF w
  <2>5. v \in Kernel /\ Eased(v, k, T)  BY <2>3, <2>4, WokenRetval, RetvalFields
  <2>6. \A t \in Thd : v.retval[t] = IF t \in T THEN "err" ELSE w.retval[t]
    BY <2>4, SetRetvalFields
  <2> HIDE DEF v, T
  <2>7. Calm(v, k, C)
    <3>1. \A t \in T : k.state[t] \in Pending => v.retval[t] = "err"
      BY <2>2, <2>6
    <3>. QED  BY <1>1, <2>2, <2>5, <3>1, EasedCalm
  <2>8. /\ u.state = v.state /\ u.retval = v.retval /\ u.wait = v.wait
        /\ u.panic = v.panic /\ u.num = v.num /\ u.used = v.used \ {x} /\ Mem(u)
    BY <2>5, KernelMem DEF Mem, Boot
  <2> HIDE DEF u
  <2>9. Moves(u, k, C, {})  BY <2>7, <2>8, MovesSame DEF Calm
  <2>10. Calm(u, k, C)  BY <2>7, <2>8, <2>9 DEF Calm
  <2>. QED  BY <2>1, <2>8, <2>10, LeaveMoves
<1>4. ASSUME NEW n \in Posts, Sem_Post(x, n) \/ Sem_Post_ISR(x, n)
      PROVE  Calm(k', k, C)
  <2> DEFINE sum == (k.num[x] + n) % W
  <2>1. k' = Leave(Serve(k, x, n)) /\ n \in Word
    BY <1>4, WordLemma DEF Sem_Post, Sem_Post_ISR
  <2>2. PICK m \in 0..Len(k.wait[x]) :
           Serve(k, x, n) = [WakeAll(k, SubSeq(k.wait[x], 1, m)) EXCEPT !.num[x] = sum - m]
    BY <1>1, <2>1, ServePrefix
  <2> DEFINE w == WakeAll(k, SubSeq(k.wait[x], 1, m))
             u == [w EXCEPT !.num[x] = sum - m]
  <2>3. Calm(w, k, C) /\ w \in Kernel /\ Mem(w)  BY WakeCalm
  <2>4. k' = Leave(u)  BY <2>1, <2>2
  <2> HIDE DEF w, sum
  <2>5. /\ u.state = w.state /\ u.retval = w.retval /\ u.wait = w.wait
        /\ u.panic = w.panic /\ u.used = w.used /\ Mem(u) /\ DOMAIN w.num = Sem
        /\ u.num = [w.num EXCEPT ![x] = sum - m]
    BY <2>3 DEF Mem, Boot, Kernel
  <2> HIDE DEF u
  <2>6. \A y \in QueueSem : u.num[y] = w.num[y]  BY <2>5, QueueSems
  <2>7. Moves(u, k, C, {})  BY <2>3, <2>5, MovesSame DEF Calm
  <2>8. Calm(u, k, C)  BY <2>3, <2>5, <2>6, <2>7 DEF Calm
  <2>. QED  BY <2>4, <2>5, <2>8, LeaveMoves
<1>5. ASSUME Sem_Bcst(x) \/ Sem_Bcst_ISR(x)  PROVE Calm(k', k, C)
  <2>1. k' = Leave(WakeAll(k, k.wait[x]))
    BY <1>5 DEF Sem_Bcst, Sem_Bcst_ISR
  <2>2. /\ SubSeq(k.wait[x], 1, Len(k.wait[x])) = k.wait[x]
        /\ Len(k.wait[x]) \in 0..Len(k.wait[x])
    BY <1>1, WholePrefix
  <2> DEFINE w == WakeAll(k, k.wait[x])
  <2>3. Calm(w, k, C) /\ Mem(w)  BY <2>2, WakeCalm
  <2>. QED  BY <2>1, <2>3, LeaveMoves
<1>6. ASSUME NEW n, k.cur \notin C, Sem_Pend(x, n)  PROVE Calm(k', k, C)
  <2>1. k' = Pend_Core(k, x, n) /\ C \subseteq Thd \ {k.cur}  BY <1>6 DEF Sem_Pend
  <2>. QED  BY <1>1, <2>1, PendCalm
<1>7. ASSUME NEW n, k.cur \notin C, Sem_Pend_Unlock(x, n)  PROVE Calm(k', k, C)
  <2> DEFINE s == [k EXCEPT !.lock = k.lock - 1]
  <2>1. k.lock > 0 /\ (k' = Pend_Core(s, x, n) \/ k' = Leave(s))
    BY <1>7 DEF Sem_Pend_Unlock
  <2>2. k.lock - 1 \in 0..LockMax
    BY <1>1, <2>1, CoreAssumption DEF Kernel
  <2>3. s \in Kernel /\ Mem(s)
    <3>1. s \in Kernel  BY <1>1, <2>2 DEF Kernel
    <3>. QED  BY <3>1, KernelMem
  <2>4. /\ s.state = k.state /\ s.retval = k.retval /\ s.wait = k.wait
        /\ s.panic = k.panic /\ s.num = k.num /\ s.used = k.used /\ s.cur = k.cur
    BY <1>1 DEF Mem, Boot
  <2> HIDE DEF s
  <2>5. C \subseteq Thd \ {k.cur}  BY <1>7
  <2>6. Calm(Pend_Core(s, x, n), k, C)  BY <1>1, <2>3, <2>4, <2>5, PendCalm
  <2>7. Moves(s, k, C, {})  BY <1>1, <2>4, StillMoves
  <2>8. Calm(s, k, C)  BY <2>4, <2>7 DEF Calm
  <2>. QED  BY <2>1, <2>3, <2>6, <2>8, LeaveMoves
<1>. QED  BY <1>2, <1>3, <1>4, <1>5, <1>6, <1>7 DEF Sem_Call, Sem_Handler

----------------------------------------------------------------------------
(* Counting the threads that hold an item.                                 *)

\* The threads of calls on q that were granted an item they have not read.
Grantees(s, c, q) == Holders(s, c, q, {"item", "read"})

\* The threads of calls on b that account for a slot.
Slotted(s, c, b) == {t \in Holders(s, c, b, {"slot", "send", "post"}) : c[t].fresh}

\* What one step may do to the nodes that nobody stands for, and to the slots
\* of a queue.
ItemsStep ==
    \A q \in msgq \cap msgq' :
       Stranded(q)' # Stranded(q) =>
          \E t \in At(q, {"item", "read"}) : k'.state[t] = "FREE"
SlotsStep ==
    \A b \in bmq \cap bmq' :
       Accounted(b) <= Limit /\ Accounted(b)' # Accounted(b) =>
          \E t \in Thd : /\ call[t] # NoCall /\ call[t].q = b /\ call'[t] = NoCall
                         /\ ~call[t].fresh \/ k'.state[t] = "FREE"
Balance == ItemsStep /\ SlotsStep

\* Sets of threads are finite.
LEMMA ThdCards ==
  ASSUME NEW A, A \subseteq Thd
  PROVE  /\ Cardinality(A) \in Nat
         /\ A # {} => Cardinality(A) # 0
         /\ \A B \in SUBSET A : Cardinality(B) <= Cardinality(A)
         /\ \A B \in SUBSET Thd : A \cap B = {} =>
               Cardinality(A \cup B) = Cardinality(A) + Cardinality(B)
         /\ \A t \in Thd \ A : Cardinality(A \cup {t}) = Cardinality(A) + 1
         /\ \A t \in A : Cardinality(A \ {t}) = Cardinality(A) - 1
<1>1. IsFiniteSet(Thd)  BY QueueAssumption
<1>2. \A B \in SUBSET Thd : IsFiniteSet(B) /\ Cardinality(B) \in Nat
  BY <1>1, FS_Subset, FS_CardinalityType
<1>3. IsFiniteSet(A) /\ Cardinality(A) \in Nat  BY <1>2
<1>4. A # {} => Cardinality(A) # 0  BY <1>3, FS_EmptySet
<1>5. \A B \in SUBSET A : Cardinality(B) <= Cardinality(A)  BY <1>3, FS_Subset
<1>6. ASSUME NEW B \in SUBSET Thd, A \cap B = {}
      PROVE  Cardinality(A \cup B) = Cardinality(A) + Cardinality(B)
  <2>1. IsFiniteSet(B) /\ Cardinality(B) \in Nat  BY <1>2
  <2>2. Cardinality(A \cup B) = Cardinality(A) + Cardinality(B) - Cardinality(A \cap B)
    BY <1>3, <2>1, FS_Union
  <2>3. Cardinality(A \cap B) = 0  BY <1>6, FS_EmptySet
  <2>. QED  BY <1>3, <2>1, <2>2, <2>3
<1>7. \A t \in Thd \ A : Cardinality(A \cup {t}) = Cardinality(A) + 1
  BY <1>3, FS_AddElement
<1>8. \A t \in A : Cardinality(A \ {t}) = Cardinality(A) - 1
  BY <1>3, FS_RemoveElement
<1>. QED  BY <1>3, <1>4, <1>5, <1>6, <1>7, <1>8

\* The names of the module RmpQueue for the same sets and numbers.
LEMMA AtHolders ==
  /\ \A q, S : At(q, S) = Holders(k, call, q, S)
  /\ \A q : Stranded(q) =
        Len(Nodes(ptr, q)) - k.num[Items(q)] - Cardinality(Grantees(k, call, q))
  /\ \A q : Stranded(q)' =
        Len(Nodes(ptr', q)) - k'.num[Items(q)] - Cardinality(Grantees(k', call', q))
  /\ \A b : Accounted(b) =
        k.num[Slots(b)] + Len(Nodes(ptr, b)) + Cardinality(Slotted(k, call, b))
  /\ \A b : Accounted(b)' =
        k'.num[Slots(b)] + Len(Nodes(ptr', b)) + Cardinality(Slotted(k', call', b))
  /\ \A s, c, q : Grantees(s, c, q) \subseteq Thd /\ Slotted(s, c, q) \subseteq Thd
<1>1. /\ \A q, S : At(q, S) = Holders(k, call, q, S)
      /\ \A q, S : At(q, S)' = Holders(k', call', q, S)
  BY DEF At, Holders
<1>2. /\ \A q : Stranded(q) =
            Len(Nodes(ptr, q)) - k.num[Items(q)] - Cardinality(Grantees(k, call, q))
      /\ \A q : Stranded(q)' =
            Len(Nodes(ptr', q)) - k'.num[Items(q)] - Cardinality(Grantees(k', call', q))
  BY <1>1 DEF Stranded, Grantees
<1>3. \A b : Fresh(At(b, {"slot", "send", "post"})) = Slotted(k, call, b)
  BY <1>1 DEF Fresh, Slotted
<1>4. \A b : Fresh(At(b, {"slot", "send", "post"}))' = Slotted(k', call', b)
  BY <1>1 DEF Fresh, Slotted
<1>5. /\ \A b : Accounted(b) =
            k.num[Slots(b)] + Len(Nodes(ptr, b)) + Cardinality(Slotted(k, call, b))
      /\ \A b : Accounted(b)' =
            k'.num[Slots(b)] + Len(Nodes(ptr', b)) + Cardinality(Slotted(k', call', b))
  BY <1>3, <1>4 DEF Accounted
<1>6. \A s, c, q : Grantees(s, c, q) \subseteq Thd /\ Slotted(s, c, q) \subseteq Thd
  BY DEF Grantees, Slotted, Holders
<1>. QED  BY <1>1, <1>2, <1>5, <1>6

\* What the invariant says of one queue, in numbers.
LEMMA QueueFacts ==
  ASSUME QInv, NEW q \in msgq
  PROVE  /\ q \in Msgq /\ q \in ptr.used /\ Items(q) \in k.used
         /\ k.num[Items(q)] \in Nat /\ Len(Nodes(ptr, q)) \in Nat
         /\ Cardinality(Grantees(k, call, q)) \in Nat
         /\ k.num[Items(q)] + Cardinality(Grantees(k, call, q)) <= Len(Nodes(ptr, q))
         /\ ptr.num[q] = Len(Nodes(ptr, q))
         /\ q \in Bmq => /\ Slots(q) \in k.used /\ k.num[Slots(q)] \in Nat
                         /\ Cardinality(Slotted(k, call, q)) \in Nat
<1>1. q \in Msgq /\ q \in ptr.used /\ Items(q) \in k.used
      /\ (q \in Bmq => Slots(q) \in k.used)
  BY DEF QInv, UsedOk
<1>2. \A x \in QueueSem : k.num[x] \in Nat
  BY WithinInv, WithinFacts, QueueSems DEF QInv
<1>3. Len(Nodes(ptr, q)) \in Nat /\ ptr.num[q] = Len(Nodes(ptr, q))
  BY <1>1, ListFacts DEF QInv
<1>4. /\ Cardinality(Grantees(k, call, q)) \in Nat
      /\ Cardinality(Slotted(k, call, q)) \in Nat
  BY AtHolders, ThdCards
<1>5. k.num[Items(q)] + Cardinality(Grantees(k, call, q)) <= Len(Nodes(ptr, q))
  BY <1>1 DEF QInv, GrantsOk, Grantees
<1>. QED  BY <1>1, <1>2, <1>3, <1>4, <1>5, QueueSems

\* What the invariant says of one call.
LEMMA InvFacts ==
  ASSUME QInv
  PROVE  /\ IpcInv /\ Within(k, rcv) /\ KInv(k) /\ k.panic = 0 /\ k.cur \in Thd
         /\ CallsOk(k, call) /\ DOMAIN call = Thd
         /\ User => k.state[k.cur] = "RUNNING"
         /\ \A q : \A t \in Grantees(k, call, q) :
               t \in InCall(call) /\ call[t].q = q /\ call[t].fresh /\ q \in msgq
<1>1. IpcInv /\ Within(k, rcv) /\ KInv(k) /\ k.panic = 0 /\ k \in Kernel
  BY WithinInv, WithinFacts DEF QInv
<1>2. CallsOk(k, call) /\ DOMAIN call = Thd  BY DEF QInv, CallsOk
<1>3. User => k.state[k.cur] = "RUNNING"  BY <1>1, UserRuns DEF IpcInv, IInv
<1>4. ASSUME NEW q, NEW t \in Grantees(k, call, q)
      PROVE  t \in InCall(call) /\ call[t].q = q /\ call[t].fresh /\ q \in msgq
  <2>1. t \in InCall(call) /\ call[t].q = q  BY <1>4 DEF Grantees, Holders, InCall
  <2>2. q \in Msgq  BY <1>1, <1>2, <2>1, CallFacts, QueueSems
  <2>3. call[t].fresh  BY <1>4, <2>2 DEF QInv, GrantsOk, Grantees
  <2>. QED  BY <2>1, <2>3 DEF QInv, FreshOk, InCall
<1>5. k.cur \in Thd  BY <1>1 DEF Kernel
<1>. QED  BY <1>1, <1>2, <1>3, <1>4, <1>5

\* What a step has to do to keep the invariant.
LEMMA StepKeeps ==
  ASSUME QInv, IpcInv', k'.panic = 0,
         msgq' \subseteq Msgq, bmq' = msgq' \cap Bmq,
         ListsOk(ptr'), UsedOk(k', ptr', msgq'), CallsOk(k', call'),
         FreshOk(call', msgq'), NodesOk(ptr', call'),
         \A q \in Msgq : \A t \in Grantees(k', call', q) : call'[t].fresh,
         \A q \in msgq' :
            \/ q \in msgq /\ Stranded(q)' = Stranded(q)
            \/ q \notin msgq /\ Stranded(q)' = 0,
         SlotsStep
  PROVE  QInv' /\ Balance
<1>1. ASSUME NEW q \in Msgq, q \in msgq'
      PROVE  k'.num[Items(q)] + Cardinality(Grantees(k', call', q)) <= Len(Nodes(ptr', q))
  <2>1. k'.num[Items(q)] \in Nat /\ Len(Nodes(ptr', q)) \in Nat
    <3>1. \A x \in Sem : k'.num[x] \in Nat
      <4>1. KInv(k')  BY SafeInner DEF IpcInv, IInv
      <4>2. k'.num \in [Sem -> Word]  BY <4>1 DEF KInv, Good, Kernel
      <4>. QED  BY <4>2, CoreAssumption DEF Word
    <3>2. q \in ptr'.used  BY <1>1 DEF UsedOk
    <3>. QED  BY <3>1, <3>2, ListFacts, QueueSems
  <2>2. Cardinality(Grantees(k', call', q)) \in Nat  BY AtHolders, ThdCards
  <2>3. Stranded(q)' =
           Len(Nodes(ptr', q)) - k'.num[Items(q)] - Cardinality(Grantees(k', call', q))
    BY AtHolders
  <2>4. CASE q \in msgq
    <3>1. Stranded(q) =
             Len(Nodes(ptr, q)) - k.num[Items(q)] - Cardinality(Grantees(k, call, q))
      BY AtHolders
    <3>2. Stranded(q)' = Stranded(q)  BY <1>1, <2>4
    <3>3. /\ k.num[Items(q)] \in Nat /\ Len(Nodes(ptr, q)) \in Nat
          /\ Cardinality(Grantees(k, call, q)) \in Nat
          /\ k.num[Items(q)] + Cardinality(Grantees(k, call, q)) <= Len(Nodes(ptr, q))
      BY <2>4, QueueFacts
    <3> DEFINE n == k.num[Items(q)]
               h == Cardinality(Grantees(k, call, q))
               l == Len(Nodes(ptr, q))
    <3>4. l - n - h = Stranded(q)' /\ n + h <= l /\ n \in Nat /\ h \in Nat /\ l \in Nat
      BY <3>1, <3>2, <3>3
    <3> HIDE DEF n, h, l
    <3>5. l - n - h \in Nat  BY <3>4
    <3>6. Stranded(q)' \in Nat  BY <3>4, <3>5
    <3>. QED  BY <2>1, <2>2, <2>3, <3>6
  <2>5. CASE q \notin msgq
    <3>1. Stranded(q)' = 0  BY <1>1, <2>5
    <3>. QED  BY <2>1, <2>2, <2>3, <3>1
  <2>. QED  BY <2>4, <2>5
<1>2. GrantsOk(k', call', ptr', msgq')  BY <1>1 DEF GrantsOk, Grantees
<1>3. ItemsStep  BY DEF ItemsStep
<1>. QED  BY <1>2, <1>3 DEF QInv, Balance

\* A step of somebody else keeps the invariant; a grant or a slot is lost
\* only by deleting the thread.
LEMMA CalmKeeps ==
  ASSUME QInv, IpcInv', DOMAIN call' = Thd, Calm(k', k, InCall(call')),
         UNCHANGED <<msgq, bmq, ptr>>,
         \A t \in InCall(call') : t \in InCall(call) /\ call'[t] = call[t],
         \A t \in InCall(call) \ InCall(call') : k'.state[t] = "FREE"
  PROVE  QInv' /\ Balance
<1>1. KInv(k) /\ KInv(k')
  BY SafeInner DEF QInv, IpcInv, IInv
<1>2. /\ CallsOk(k', call')
      /\ \A q, S : Holders(k', call', q, S) =
            {t \in InCall(call') : /\ call'[t].q = q /\ call'[t].at \in S
                                   /\ t \in Holders(k, call, q, S) \/ t \in {}}
  <2>1. \A t \in InCall(call) \ InCall(call') : k'.state[t] \notin Blocked
    BY StateFacts
  <2>2. CallsOk(k, call) /\ Moves(k', k, InCall(call'), {})  BY DEF QInv, Calm
  <2>. QED  BY <1>1, <2>1, <2>2, CallsMove
<1>3. \A q, S : Holders(k', call', q, S) = Holders(k, call, q, S) \cap InCall(call')
  <2>1. \A q, S : \A t \in InCall(call') : t \in Holders(k, call, q, S) =>
           call'[t].q = q /\ call'[t].at \in S
    BY DEF Holders
  <2>. QED  BY <1>2, <2>1
<1>4. \A q : /\ Grantees(k', call', q) = Grantees(k, call, q) \cap InCall(call')
             /\ Slotted(k', call', q) = Slotted(k, call, q) \cap InCall(call')
  BY <1>3 DEF Grantees, Slotted
<1>5. \A x \in QueueSem : k'.num[x] = k.num[x] /\ (x \in k'.used <=> x \in k.used)
  BY DEF Calm
<1>6. GrantsOk(k', call', ptr', msgq')
  <2>1. ASSUME NEW q \in Msgq
        PROVE  /\ \A t \in Grantees(k', call', q) : call'[t].fresh
               /\ q \in msgq => k'.num[Items(q)] + Cardinality(Grantees(k', call', q))
                                <= Len(Nodes(ptr, q))
    <3>1. \A t \in Grantees(k', call', q) : call'[t].fresh  BY <1>4, InvFacts
    <3>2. Cardinality(Grantees(k', call', q)) <= Cardinality(Grantees(k, call, q))
      BY <1>4, AtHolders, ThdCards
    <3>3. Cardinality(Grantees(k', call', q)) \in Nat
      BY AtHolders, ThdCards
    <3>4. k'.num[Items(q)] = k.num[Items(q)]  BY <1>5, QueueSems
    <3>. QED  BY <3>1, <3>2, <3>3, <3>4, QueueFacts
  <2>. QED  BY <2>1 DEF GrantsOk, Grantees
<1>7. UsedOk(k', ptr', msgq')  BY <1>5, QueueSems DEF QInv, UsedOk
<1>8. NodesOk(ptr', call') /\ FreshOk(call', msgq')
  BY DEF QInv, NodesOk, FreshOk, InCall
<1>9. ItemsStep
  <2>1. ASSUME NEW q \in msgq, Stranded(q)' # Stranded(q)
        PROVE  \E t \in At(q, {"item", "read"}) : k'.state[t] = "FREE"
    <3>1. q \in Msgq /\ k'.num[Items(q)] = k.num[Items(q)]
      BY <1>5, QueueSems DEF QInv
    <3>2. Grantees(k', call', q) # Grantees(k, call, q)
      BY <2>1, <3>1, AtHolders
    <3>3. PICK t \in Grantees(k, call, q) : t \notin InCall(call')
      BY <1>4, <3>2
    <3>4. t \in InCall(call) /\ t \in At(q, {"item", "read"})
      BY <3>3, InvFacts, AtHolders DEF Grantees
    <3>. QED  BY <3>3, <3>4
  <2>. QED  BY <2>1 DEF ItemsStep
<1>10. SlotsStep
  <2>1. ASSUME NEW b \in bmq, Accounted(b)' # Accounted(b)
        PROVE  \E t \in Thd : /\ call[t] # NoCall /\ call[t].q = b /\ call'[t] = NoCall
                              /\ k'.state[t] = "FREE"
    <3>1. b \in Bmq /\ k'.num[Slots(b)] = k.num[Slots(b)]
      BY <1>5, QueueSems DEF QInv
    <3>2. Slotted(k', call', b) # Slotted(k, call, b)
      BY <2>1, <3>1, AtHolders
    <3>3. PICK t \in Slotted(k, call, b) : t \notin InCall(call')
      BY <1>4, <3>2
    <3>4. t \in Thd /\ t \in InCall(call) /\ call[t].q = b
      BY <3>3 DEF Slotted, Holders, InCall
    <3>. QED  BY <3>3, <3>4 DEF InCall
  <2>. QED  BY <2>1 DEF SlotsStep
<1>11. k'.panic = 0  BY DEF QInv, Calm, Moves
<1>. QED  BY <1>2, <1>6, <1>7, <1>8, <1>9, <1>10, <1>11 DEF QInv, Balance

\* The steps of the scheduler, the thread calls, and the calls on other
\* semaphores.
LEMMA OtherKeeps ==
  ASSUME QInv,
         \/ Behind \/ Aside(Thd_Call)
         \/ \E x \in Sem \ QueueSem : \/ Aside(Sem_Call(x))
                                      \/ Sem_Handler(x) /\ UNCHANGED qvars
         \/ \E t \in Thd : Thd_Del_Call(t)
  PROVE  QInv' /\ Balance
<1> DEFINE C == InCall(call)
<1>1. /\ IpcInv /\ DOMAIN call = Thd /\ C \subseteq Thd
      /\ \A t \in C : k.state[t] # "FREE"
  <2>1. KInv(k) /\ CallsOk(k, call)  BY SafeInner DEF QInv, IpcInv, IInv
  <2>2. \A t \in C : k.state[t] # "FREE"  BY <2>1, CallFacts, StateFacts
  <2>3. IpcInv  BY DEF QInv
  <2>. QED  BY <2>1, <2>2, <2>3 DEF CallsOk, InCall
<1>2. k.cur \notin C \/ ~Begin  BY DEF Begin, InCall
<1>3. ASSUME CoreNext \/ ThreadNext \/ SemNext, Calm(k', k, C), UNCHANGED qvars
      PROVE  QInv' /\ Balance
  <2>1. IpcInv'  BY <1>1, <1>3, KernelStep
  <2>2. UNCHANGED <<msgq, bmq, ptr, call>>  BY <1>3 DEF qvars
  <2>. QED  BY <1>1, <1>3, <2>1, <2>2, CalmKeeps
<1>4. CASE Behind
  <2>1. CoreNext /\ UNCHANGED qvars  BY <1>4 DEF Behind, CoreNext
  <2>2. Calm(k', k, C)  BY <1>1, <1>4, CoreCalm DEF Behind
  <2>. QED  BY <1>3, <2>1, <2>2
<1>5. CASE Aside(Thd_Call)
  <2>1. Begin /\ Thd_Call /\ UNCHANGED qvars  BY <1>5 DEF Aside
  <2>2. k.cur \notin C  BY <1>2, <2>1
  <2>3. CASE Sched_Lock \/ Sched_Unlock \/ Yield
    <3>1. CoreNext  BY <2>3 DEF CoreNext
    <3>2. Calm(k', k, C)  BY <1>1, <2>3, CoreCalm
    <3>. QED  BY <1>3, <2>1, <3>1, <3>2
  <2>4. ASSUME NEW t \in Thd, NEW p, NEW n,
               \/ p \in Prio /\ n \in Slices /\ Thd_Crt(t, p, n)
               \/ p \in 0..PrioNum /\ n \in Slices /\ Thd_Set(t, p, n)
               \/ Thd_Suspend(t) \/ Thd_Resume(t)
        PROVE  QInv' /\ Balance
    <3>1. ThreadNext  BY <2>4 DEF ThreadNext
    <3>2. Calm(k', k, C)  BY <1>1, <2>4, SetCalm
    <3>. QED  BY <1>3, <2>1, <3>1, <3>2
  <2>5. ASSUME NEW n \in Waits, Thd_Delay(n)  PROVE QInv' /\ Balance
    <3>1. ThreadNext  BY <2>5 DEF ThreadNext
    <3>2. Calm(k', k, C)  BY <1>1, <2>2, <2>5, DelayCalm
    <3>. QED  BY <1>3, <2>1, <3>1, <3>2
  <2>6. ASSUME NEW t \in Thd, Thd_Cancel(t)  PROVE QInv' /\ Balance
    <3>1. ThreadNext  BY <2>6 DEF ThreadNext
    <3>2. /\ k' = Leave(SetRetval(Wake(k, t), {t}, "err"))
          /\ k.state[t] \in Blocked
      BY <2>6 DEF Thd_Cancel, Blocked
    <3>3. Calm(k', k, C)  BY <1>1, <3>2, AbortCalm
    <3>. QED  BY <1>3, <2>1, <3>1, <3>3
  <2>7. ASSUME NEW t \in Thd, Sem_Abort(t)  PROVE QInv' /\ Balance
    <3>1. SemNext  BY <2>7 DEF SemNext
    <3>2. /\ k' = Leave(SetRetval(Wake(k, t), {t}, "err"))
          /\ k.state[t] \in Blocked
      BY <2>7 DEF Sem_Abort, Blocked
    <3>3. Calm(k', k, C)  BY <1>1, <3>2, AbortCalm
    <3>. QED  BY <1>3, <2>1, <3>1, <3>3
  <2>. QED  BY <2>1, <2>3, <2>4, <2>5, <2>6, <2>7 DEF Thd_Call
<1>6. ASSUME NEW x \in Sem \ QueueSem,
             \/ Aside(Sem_Call(x))
             \/ Sem_Handler(x) /\ UNCHANGED qvars
      PROVE  QInv' /\ Balance
  <2>1. /\ UNCHANGED qvars
        /\ (k.cur \notin C /\ Sem_Call(x)) \/ Sem_Handler(x)
    BY <1>2, <1>6 DEF Aside
  <2>2. SemNext  BY <2>1 DEF Sem_Call, Sem_Handler, SemNext
  <2>3. Calm(k', k, C)  BY <1>1, <2>1, SemCalm
  <2>. QED  BY <1>3, <2>1, <2>2, <2>3
<1>7. ASSUME NEW t \in Thd, Thd_Del_Call(t)  PROVE QInv' /\ Balance
  <2>1. /\ Thd_Del(t) /\ (t = k.cur => k.lock = 0)
        /\ call' = [call EXCEPT ![t] = NoCall] /\ UNCHANGED <<msgq, bmq, ptr>>
    BY <1>7 DEF Thd_Del_Call
  <2>2. IpcInv'
    <3>1. ThreadNext  BY <2>1 DEF ThreadNext
    <3>. QED  BY <1>1, <3>1, KernelStep
  <2>3. Calm(k', k, Thd \ {t}) /\ k'.state[t] = "FREE"  BY <1>1, <2>1, DelCalm
  <2>4. /\ DOMAIN call' = Thd /\ InCall(call') = InCall(call) \ {t}
        /\ \A x \in InCall(call') : x \in InCall(call) /\ call'[x] = call[x]
        /\ \A x \in InCall(call) \ InCall(call') : x = t
    BY <1>1, <2>1 DEF InCall
  <2>5. Calm(k', k, InCall(call'))
    <3>1. InCall(call') \subseteq Thd \ {t}  BY <1>1, <2>4
    <3>. QED  BY <2>3, <3>1 DEF Calm, Moves
  <2>. QED  BY <2>1, <2>2, <2>3, <2>4, <2>5, CalmKeeps
<1>. QED  BY <1>4, <1>5, <1>6, <1>7

----------------------------------------------------------------------------
(* Creation and deletion.                                                  *)

\* Calls that are left alone.
LEMMA CallsStill ==
  ASSUME NEW s, NEW u, NEW c, KInv(s), KInv(u), CallsOk(s, c), Moves(u, s, Thd, {})
  PROVE  CallsOk(u, c) /\ SameHolders(u, c, s, c)
<1>1. InCall(c) \subseteq Thd /\ DOMAIN c = Thd  BY DEF InCall, CallsOk
<1>2. Moves(u, s, InCall(c), {})  BY <1>1 DEF Moves
<1>3. /\ CallsOk(u, c)
      /\ \A q, S : Holders(u, c, q, S) =
            {t \in InCall(c) : /\ c[t].q = q /\ c[t].at \in S
                               /\ t \in Holders(s, c, q, S) \/ t \in {}}
  BY <1>1, <1>2, CallsMove
<1>4. ASSUME NEW q, NEW S  PROVE Holders(u, c, q, S) = Holders(s, c, q, S)
  <2>1. \A t \in Holders(s, c, q, S) : t \in InCall(c) /\ c[t].q = q /\ c[t].at \in S
    BY DEF Holders, InCall
  <2>. QED  BY <1>3, <2>1
<1>. QED  BY <1>3, <1>4 DEF SameHolders

\* Nor does Leave change anything about the calls.
LEMMA LeaveCalls ==
  ASSUME NEW u, Mem(u)
  PROVE  /\ \A c : CallsOk(u, c) => CallsOk(Leave(u), c)
         /\ \A c, q, S : Holders(Leave(u), c, q, S) = Holders(u, c, q, S)
<1> DEFINE v == Leave(u)
<1>1. v.state = u.state /\ v.retval = u.retval /\ v.wait = u.wait  BY LeaveMoves
<1> HIDE DEF v
<1>2. \A c : CallsOk(u, c) => CallsOk(v, c)  BY <1>1 DEF CallsOk
<1>3. \A c, q, S : Holders(v, c, q, S) = Holders(u, c, q, S)  BY <1>1 DEF Holders
<1>. QED  BY <1>2, <1>3 DEF v

\* A critical section that makes the memory u out of k and leaves the
\* calls alone.
LEMMA LeaveKeeps ==
  ASSUME QInv, NEW u, Within(u, rcv), k' = Leave(u), UNCHANGED <<rcv, got>>,
         NEW c, CallsOk(u, c),
         SameHolders(u, c, k, call)
  PROVE  /\ IpcInv' /\ k'.num = u.num /\ k'.used = u.used /\ k'.panic = u.panic
         /\ CallsOk(k', c)
         /\ SameHolders(k', c, k, call)
         /\ \A q : Grantees(k', c, q) = Grantees(k, call, q)
<1>1. Mem(u)  BY WithinFacts
<1>2. IpcInv'  BY WithinInv DEF QInv
<1>3. k'.num = u.num /\ k'.used = u.used /\ k'.panic = u.panic  BY <1>1, LeaveMoves
<1>4. CallsOk(k', c) /\ SameHolders(k', c, k, call)
  BY <1>1, LeaveCalls DEF SameHolders
<1>. QED  BY <1>2, <1>3, <1>4 DEF SameHolders, Grantees

\* A queue is created.
LEMMA CrtKeeps ==
  ASSUME QInv, NEW q \in Msgq \ msgq, NEW u, Within(u, rcv),
         k' = Leave(u), CallsOk(u, call),
         SameHolders(u, call, k, call),
         u.panic = 0, u.num[Items(q)] = 0,
         \A x \in QueueSem \ {Items(q), Slots(q)} : u.num[x] = k.num[x],
         \A x \in QueueSem : x \in u.used <=>
            x \in k.used \/ x = Items(q) \/ (q \in Bmq /\ x = Slots(q)),
         msgq' = msgq \cup {q}, bmq' = bmq \cup ({q} \cap Bmq),
         ptr' = Crt_Fifo(ptr, q), UNCHANGED <<rcv, got, call>>
  PROVE  QInv' /\ Balance /\ (q \in Bmq => Accounted(q)' = u.num[Slots(q)])
<1>1. /\ IpcInv' /\ k'.num = u.num /\ k'.used = u.used /\ k'.panic = 0
      /\ CallsOk(k', call)
      /\ SameHolders(k', call, k, call)
      /\ \A p : Grantees(k', call, p) = Grantees(k, call, p)
  BY LeaveKeeps
<1>2. q \notin ptr.used /\ q \in Fifo  BY QueueAssumption DEF QInv, UsedOk
<1>3. /\ ListsOk(ptr') /\ ptr'.used = ptr.used \cup {q}
      /\ Nodes(ptr', q) = <<>>
      /\ \A g \in ptr.used : Nodes(ptr', g) = Nodes(ptr, g)
      /\ Linked(ptr') = Linked(ptr)
  BY <1>2, ListsCrt DEF QInv
<1>4. UsedOk(k', ptr', msgq')
  <2>1. \A p \in Msgq : p \in msgq' <=> p \in ptr'.used
    BY <1>3 DEF QInv, UsedOk
  <2>2. \A p \in Msgq : p \in msgq' <=> Items(p) \in k'.used
    BY <1>1, QueueSems DEF QInv, UsedOk
  <2>3. \A b \in Bmq : b \in msgq' <=> Slots(b) \in k'.used
    BY <1>1, QueueSems DEF QInv, UsedOk
  <2>. QED  BY <2>1, <2>2, <2>3 DEF UsedOk
<1>5. FreshOk(call', msgq') /\ NodesOk(ptr', call')
  BY <1>3 DEF QInv, FreshOk, NodesOk
<1>6. \A p \in Msgq : \A t \in Grantees(k', call', p) : call'[t].fresh
  BY <1>1, InvFacts
<1>7. ASSUME NEW p \in msgq  PROVE Stranded(p)' = Stranded(p)
  <2>1. p # q /\ p \in Msgq /\ p \in ptr.used  BY QueueFacts
  <2>2. Items(p) \in QueueSem \ {Items(q), Slots(q)}  BY <2>1, QueueSems
  <2>3. k'.num[Items(p)] = k.num[Items(p)] /\ Nodes(ptr', p) = Nodes(ptr, p)
    BY <1>1, <1>3, <2>1, <2>2
  <2>4. Grantees(k', call', p) = Grantees(k, call, p)  BY <1>1
  <2>. QED  BY <2>3, <2>4, AtHolders
<1>8. Stranded(q)' = 0
  <2>1. Grantees(k', call', q) = {}  BY <1>1, InvFacts
  <2>2. Cardinality(Grantees(k', call', q)) = 0  BY <2>1, FS_EmptySet
  <2>3. Len(Nodes(ptr', q)) = 0 /\ k'.num[Items(q)] = 0  BY <1>1, <1>3
  <2>. QED  BY <2>2, <2>3, AtHolders
<1>9. SlotsStep
  <2>1. ASSUME NEW b \in bmq  PROVE Accounted(b)' = Accounted(b)
    <3>1. b # q /\ b \in Bmq /\ b \in ptr.used  BY QueueFacts DEF QInv
    <3>2. Slots(b) \in QueueSem \ {Items(q), Slots(q)}  BY <3>1, QueueSems
    <3>3. k'.num[Slots(b)] = k.num[Slots(b)] /\ Nodes(ptr', b) = Nodes(ptr, b)
      BY <1>1, <1>3, <3>1, <3>2
    <3>4. Slotted(k', call', b) = Slotted(k, call, b)
      BY <1>1 DEF SameHolders, Slotted
    <3>. QED  BY <3>3, <3>4, AtHolders
  <2>. QED  BY <2>1 DEF SlotsStep
<1>10. msgq' \subseteq Msgq /\ bmq' = msgq' \cap Bmq  BY DEF QInv
<1>11. \A p \in msgq' : \/ p \in msgq /\ Stranded(p)' = Stranded(p)
                        \/ p \notin msgq /\ Stranded(p)' = 0
  BY <1>7, <1>8
<1>12. ASSUME q \in Bmq  PROVE Accounted(q)' = u.num[Slots(q)]
  <2>1. \A t \in Holders(k, call, q, {"slot", "send", "post"}) : ~call[t].fresh
    BY DEF QInv, FreshOk, Holders
  <2>2. Slotted(k', call', q) = {}  BY <1>1, <2>1 DEF SameHolders, Slotted
  <2>3. Cardinality(Slotted(k', call', q)) = 0  BY <2>2, FS_EmptySet
  <2>4. Accounted(q)' =
           k'.num[Slots(q)] + Len(Nodes(ptr', q)) + Cardinality(Slotted(k', call', q))
    BY AtHolders
  <2>5. k'.num[Slots(q)] = u.num[Slots(q)] /\ Len(Nodes(ptr', q)) = 0  BY <1>1, <1>3
  <2>6. u.num[Slots(q)] \in Nat
    <3>1. Slots(q) \in Sem  BY <1>12, QueueSems
    <3>2. u.num \in [Sem -> Word]  BY WithinFacts DEF Kernel
    <3>. QED  BY <3>1, <3>2, CoreAssumption DEF Word
  <2>. QED  BY <2>3, <2>4, <2>5, <2>6
<1>. QED  BY <1>1, <1>3, <1>4, <1>5, <1>6, <1>9, <1>10, <1>11, <1>12, StepKeeps

\* RMP_Msgq_Crt
LEMMA MsgqCrtKeeps ==
  ASSUME QInv, NEW q \in Msgq \ Bmq, Msgq_Crt(q)
  PROVE  QInv' /\ Balance
<1> DEFINE u == Crt_Sem(k, Items(q), 0)
<1>1. /\ q \notin msgq /\ k' = Leave(Crt_Msgq(k, q)) /\ msgq' = msgq \cup {q}
      /\ ptr' = Crt_Fifo(ptr, q) /\ UNCHANGED <<rcv, got, bmq, call>>
  BY DEF Msgq_Crt
<1>2. /\ Items(q) \notin k.used /\ q \notin ptr.used /\ Items(q) \in QueueSem
  BY <1>1, QueueSems DEF QInv, UsedOk
<1>3. k' = Leave(u)  BY <1>1, <1>2 DEF Crt_Msgq
<1>4. Within(k, rcv) /\ KInv(k) /\ CallsOk(k, call) /\ k.panic = 0  BY InvFacts
<1>5. 0 \in Word /\ 0 < SemMax
  BY CoreAssumption, QueueAssumption DEF Word
<1>6. /\ Within(u, rcv) /\ Moves(u, k, Thd, {})
      /\ u.num[Items(q)] = 0 /\ \A y \in QueueSem \ {Items(q)} : u.num[y] = k.num[y]
      /\ u.used = k.used \cup {Items(q)}
  BY <1>2, <1>4, <1>5, CrtMoves
<1> HIDE DEF u
<1>7. KInv(u) /\ u.panic = 0  BY <1>4, <1>6, WithinFacts DEF Moves
<1>8. CallsOk(u, call) /\ SameHolders(u, call, k, call)
  BY <1>4, <1>6, <1>7, CallsStill
<1>9. bmq' = bmq \cup ({q} \cap Bmq)  BY <1>1
<1>. QED  BY <1>1, <1>3, <1>6, <1>7, <1>8, <1>9, CrtKeeps

\* RMP_Bmq_Crt
LEMMA BmqCrtKeeps ==
  ASSUME QInv, NEW b \in Bmq, Bmq_Crt(b)
  PROVE  QInv' /\ Balance /\ Accounted(b)' = Limit
<1> DEFINE s == Crt_Sem(k, Slots(b), Limit)
           u == Crt_Sem(s, Items(b), 0)
<1>1. /\ b \notin bmq /\ k' = Leave(Crt_Msgq(s, b)) /\ msgq' = msgq \cup {b}
      /\ Slots(b) \notin k.used
      /\ bmq' = bmq \cup {b}
      /\ ptr' = Crt_Fifo(ptr, b) /\ UNCHANGED <<rcv, got, call>>
  BY DEF Bmq_Crt
<1>2. /\ b \notin msgq /\ b \in Msgq
      /\ Items(b) \notin k.used /\ b \notin ptr.used /\ Items(b) \in QueueSem
      /\ Slots(b) \in QueueSem /\ Slots(b) # Items(b)
  BY <1>1, QueueSems DEF QInv, UsedOk
<1>3. Within(k, rcv) /\ KInv(k) /\ CallsOk(k, call) /\ k.panic = 0  BY InvFacts
<1>4. 0 \in Word /\ 0 < SemMax /\ Limit \in Word /\ Limit < SemMax
  BY CoreAssumption, QueueAssumption DEF Word
<1>5. /\ Within(s, rcv) /\ Moves(s, k, Thd, {})
      /\ s.num[Slots(b)] = Limit /\ \A y \in QueueSem \ {Slots(b)} : s.num[y] = k.num[y]
      /\ s.used = k.used \cup {Slots(b)}
  BY <1>1, <1>2, <1>3, <1>4, CrtMoves
<1> HIDE DEF s
<1>6. Items(b) \notin s.used  BY <1>2, <1>5
<1>7. k' = Leave(u)  BY <1>1, <1>2, <1>6 DEF Crt_Msgq
<1>8. /\ Within(u, rcv) /\ Moves(u, s, Thd, {})
      /\ u.num[Items(b)] = 0 /\ \A y \in QueueSem \ {Items(b)} : u.num[y] = s.num[y]
      /\ u.used = s.used \cup {Items(b)}
  BY <1>2, <1>4, <1>5, <1>6, CrtMoves
<1> HIDE DEF u
<1>9. KInv(s) /\ KInv(u) /\ s.panic = 0 /\ u.panic = 0
  BY <1>3, <1>5, <1>8, WithinFacts DEF Moves
<1>10. CallsOk(s, call) /\ SameHolders(s, call, k, call)
  BY <1>3, <1>5, <1>9, CallsStill
<1>11. CallsOk(u, call) /\ SameHolders(u, call, s, call)
  BY <1>8, <1>9, <1>10, CallsStill
<1>12. SameHolders(u, call, k, call)  BY <1>10, <1>11 DEF SameHolders
<1>13. \A x \in QueueSem \ {Items(b), Slots(b)} : u.num[x] = k.num[x]
  BY <1>5, <1>8
<1>14. \A x \in QueueSem : x \in u.used <=>
          x \in k.used \/ x = Items(b) \/ (b \in Bmq /\ x = Slots(b))
  BY <1>5, <1>8
<1>15. bmq' = bmq \cup ({b} \cap Bmq)  BY <1>1
<1>16. u.num[Slots(b)] = Limit  BY <1>2, <1>5, <1>8
<1>. QED  BY <1>1, <1>2, <1>7, <1>8, <1>9, <1>11, <1>12, <1>13, <1>14, <1>15, <1>16, CrtKeeps

\* A queue without nodes is deleted; nobody is left on its semaphores.
LEMMA DelKeeps ==
  ASSUME QInv, NEW q \in msgq, ptr.num[q] = 0, NEW u, Within(u, rcv),
         k' = Leave(u), CallsOk(u, call),
         SameHolders(u, call, k, call),
         u.panic = 0, u.num = k.num,
         u.wait[Items(q)] = <<>>, q \in Bmq => u.wait[Slots(q)] = <<>>,
         \A x \in QueueSem : x \in u.used <=>
            x \in k.used /\ x # Items(q) /\ (q \in Bmq => x # Slots(q)),
         msgq' = msgq \ {q}, bmq' = bmq \ {q},
         ptr' = Del_Fifo(ptr, q), Outlive(q), UNCHANGED <<rcv, got>>
  PROVE  QInv' /\ Balance
<1>1. /\ q \in Msgq /\ q \in ptr.used /\ KInv(u)
      /\ k.num[Items(q)] \in Nat /\ Cardinality(Grantees(k, call, q)) \in Nat
      /\ k.num[Items(q)] + Cardinality(Grantees(k, call, q)) <= 0
  <2>1. KInv(u)  BY WithinFacts
  <2>. QED  BY <2>1, QueueFacts
<1>2. Grantees(k, call, q) = {}
  <2>1. Cardinality(Grantees(k, call, q)) = 0  BY <1>1
  <2>. QED  BY <2>1, AtHolders, ThdCards
<1>3. call' = Outlived(call, q)  BY DEF Outlive, Outlived
<1>4. /\ CallsOk(u, call')
      /\ SameHolders(u, call', u, call)
      /\ \A t \in Thd :
            /\ call'[t] # NoCall <=> call[t] # NoCall
            /\ call[t] # NoCall => /\ call'[t].node = call[t].node /\ call'[t].q = call[t].q
                                   /\ call'[t].q # q => call'[t].fresh = call[t].fresh
  BY <1>1, <1>3, CallsOutlive
<1>5. \A t \in Thd : call[t] # NoCall /\ call[t].q = q => ~call'[t].fresh
  <2>1. ASSUME NEW t \in Thd, call[t] # NoCall, call[t].q = q  PROVE ~call'[t].fresh
    <3>1. call[t] \in Call  BY <2>1, QueueSems DEF QInv, CallsOk
    <3>2. call'[t] = [call[t] EXCEPT !.fresh = FALSE]  BY <1>3, <2>1 DEF Outlived
    <3>. QED  BY <3>1, <3>2 DEF Call
  <2>. QED  BY <2>1
<1>6. /\ IpcInv' /\ k'.num = k.num /\ k'.used = u.used /\ k'.panic = 0
      /\ CallsOk(k', call')
      /\ SameHolders(k', call', k, call)
      /\ \A p : Grantees(k', call', p) = Grantees(k, call, p)
  <2>1. SameHolders(u, call', k, call)  BY <1>4 DEF SameHolders
  <2>. QED  BY <1>4, <2>1, LeaveKeeps
<1>7. /\ ListsOk(ptr') /\ ptr'.used = ptr.used \ {q}
      /\ \A g \in ptr'.used : Nodes(ptr', g) = Nodes(ptr, g)
      /\ Linked(ptr') \subseteq Linked(ptr)
  BY ListsDel DEF QInv
<1>8. UsedOk(k', ptr', msgq')
  <2>1. \A p \in Msgq : p \in msgq' <=> p \in ptr'.used
    BY <1>7 DEF QInv, UsedOk
  <2>2. \A p \in Msgq : p \in msgq' <=> Items(p) \in k'.used
    BY <1>6, QueueSems DEF QInv, UsedOk
  <2>3. \A b \in Bmq : b \in msgq' <=> Slots(b) \in k'.used
    BY <1>6, QueueSems DEF QInv, UsedOk
  <2>. QED  BY <2>1, <2>2, <2>3 DEF UsedOk
<1>9. FreshOk(call', msgq')
  BY <1>4, <1>5 DEF QInv, FreshOk
<1>10. NodesOk(ptr', call')  BY <1>4, <1>7 DEF QInv, NodesOk
<1>11. ASSUME NEW p \in Msgq, NEW t \in Grantees(k', call', p)  PROVE call'[t].fresh
  <2>1. t \in Grantees(k, call, p)  BY <1>6, <1>11
  <2>2. p # q  BY <1>2, <2>1
  <2>3. t \in Thd /\ call[t] # NoCall /\ call[t].q = p /\ call[t].fresh
    BY <2>1, InvFacts DEF InCall
  <2>. QED  BY <1>4, <2>2, <2>3
<1>12. ASSUME NEW p \in msgq'
       PROVE  p \in msgq /\ p # q /\ p \in Msgq /\ Nodes(ptr', p) = Nodes(ptr, p)
  BY <1>7, QueueFacts
<1>13. \A p \in msgq' : p \in msgq /\ Stranded(p)' = Stranded(p)
  BY <1>6, <1>12, AtHolders
<1>14. SlotsStep
  <2>1. ASSUME NEW b \in bmq'  PROVE Accounted(b)' = Accounted(b)
    <3>1. b \in msgq'  BY DEF QInv
    <3>2. Nodes(ptr', b) = Nodes(ptr, b) /\ b # q  BY <1>12, <3>1
    <3>3. ASSUME NEW t  PROVE t \in Slotted(k', call', b) <=> t \in Slotted(k, call, b)
      <4>1. t \in Slotted(k', call', b) <=>
               t \in Holders(k, call, b, {"slot", "send", "post"}) /\ call'[t].fresh
        BY <1>6 DEF SameHolders, Slotted
      <4>2. t \in Holders(k, call, b, {"slot", "send", "post"}) =>
               t \in Thd /\ call[t] # NoCall /\ call[t].q = b
        BY DEF Holders
      <4>3. t \in Holders(k, call, b, {"slot", "send", "post"}) =>
               call'[t].fresh = call[t].fresh
        BY <1>4, <3>2, <4>2
      <4>. QED  BY <4>1, <4>3 DEF Slotted
    <3>4. Slotted(k', call', b) = Slotted(k, call, b)  BY <3>3
    <3>. QED  BY <1>6, <3>2, <3>4, AtHolders
  <2>. QED  BY <2>1 DEF SlotsStep
<1>15. msgq' \subseteq Msgq /\ bmq' = msgq' \cap Bmq  BY DEF QInv
<1>. QED  BY <1>6, <1>7, <1>8, <1>9, <1>10, <1>11, <1>13, <1>14, <1>15, StepKeeps

\* RMP_Msgq_Del
LEMMA MsgqDelKeeps ==
  ASSUME QInv, NEW q \in Msgq \ Bmq, Msgq_Del(q)
  PROVE  QInv' /\ Balance
<1> DEFINE x == Items(q)
           u == Del_Sem(k, x)
<1>1. /\ q \in msgq /\ ptr.num[q] = 0 /\ k' = Leave(u) /\ msgq' = msgq \ {q}
      /\ ptr' = Del_Fifo(ptr, q) /\ Outlive(q) /\ UNCHANGED <<rcv, got, bmq>>
  BY DEF Msgq_Del
<1>2. Within(k, rcv) /\ KInv(k) /\ CallsOk(k, call) /\ k.panic = 0  BY InvFacts
<1>3. x \in QueueSem  BY QueueSems
<1> HIDE DEF x
<1>4. /\ Within(u, rcv) /\ Moves(u, k, Thd, {})
      /\ u.wait[x] = <<>> /\ u.num = k.num /\ u.used = k.used \ {x}
  BY <1>2, <1>3, DelMoves
<1> HIDE DEF u
<1>5. KInv(u) /\ u.panic = 0  BY <1>2, <1>4, WithinFacts DEF Moves
<1>6. CallsOk(u, call) /\ SameHolders(u, call, k, call)
  BY <1>2, <1>4, <1>5, CallsStill
<1>7. bmq' = bmq \ {q}  BY <1>1 DEF QInv
<1>8. \A y \in QueueSem : y \in u.used <=>
         y \in k.used /\ y # x /\ (q \in Bmq => y # Slots(q))
  BY <1>4
<1>9. u.wait[Items(q)] = <<>>  BY <1>4 DEF x
<1>. QED  BY <1>1, <1>4, <1>5, <1>6, <1>7, <1>8, <1>9, DelKeeps DEF x

\* RMP_Bmq_Del
LEMMA BmqDelKeeps ==
  ASSUME QInv, NEW b \in Bmq, Bmq_Del(b)
  PROVE  QInv' /\ Balance
<1> DEFINE x == Items(b)
           y == Slots(b)
           s == Del_Sem(k, x)
           u == Del_Sem(s, y)
<1>1. /\ b \in bmq /\ ptr.num[b] = 0 /\ k' = Leave(u) /\ msgq' = msgq \ {b}
      /\ bmq' = bmq \ {b}
      /\ ptr' = Del_Fifo(ptr, b) /\ Outlive(b) /\ UNCHANGED <<rcv, got>>
  BY DEF Bmq_Del
<1>2. Within(k, rcv) /\ KInv(k) /\ CallsOk(k, call) /\ k.panic = 0  BY InvFacts
<1>3. x \in QueueSem /\ y \in QueueSem /\ x # y /\ x \in Sem  BY QueueSems
<1> HIDE DEF x, y
<1>4. /\ Within(s, rcv) /\ Moves(s, k, Thd, {})
      /\ s.wait[x] = <<>> /\ s.num = k.num /\ s.used = k.used \ {x}
  BY <1>2, <1>3, DelMoves
<1> HIDE DEF s
<1>5. /\ Within(u, rcv) /\ Moves(u, s, Thd, {})
      /\ u.wait[y] = <<>> /\ u.num = s.num /\ u.used = s.used \ {y}
      /\ u.wait[x] = <<>>
  BY <1>3, <1>4, DelMoves
<1> HIDE DEF u
<1>6. KInv(s) /\ KInv(u) /\ s.panic = 0 /\ u.panic = 0
  BY <1>2, <1>4, <1>5, WithinFacts DEF Moves
<1>7. CallsOk(s, call) /\ SameHolders(s, call, k, call)
  BY <1>2, <1>4, <1>6, CallsStill
<1>8. CallsOk(u, call) /\ SameHolders(u, call, s, call)
  BY <1>5, <1>6, <1>7, CallsStill
<1>9. SameHolders(u, call, k, call)  BY <1>7, <1>8 DEF SameHolders
<1>10. \A z \in QueueSem : z \in u.used <=>
          z \in k.used /\ z # x /\ (b \in Bmq => z # y)
  BY <1>4, <1>5
<1>11. b \in msgq /\ u.num = k.num  BY <1>1, <1>4, <1>5 DEF QInv
<1>. QED  BY <1>1, <1>5, <1>6, <1>8, <1>9, <1>10, <1>11, DelKeeps DEF x, y

----------------------------------------------------------------------------
(* Sending, and giving a slot back.                                        *)

\* c is what is left of the calls after some running threads returned.
Returned(c) ==
    /\ DOMAIN c = Thd
    /\ \A t \in InCall(c) : t \in InCall(call) /\ c[t] = call[t]
    /\ \A t \in InCall(call) \ InCall(c) : k.state[t] = "RUNNING"

\* One thread returns.
Returns(a, c) ==
    /\ DOMAIN c = Thd /\ c[a] = NoCall
    /\ \A t \in Thd \ {a} : c[t] = call[t]

\* What is left then.
LEMMA ReturnOne ==
  ASSUME QInv, NEW a \in Thd, NEW c, Returns(a, c)
  PROVE  /\ k.state[a] = "RUNNING" => Returned(c)
         /\ InCall(c) = InCall(call) \ {a}
         /\ \A s, q : /\ Grantees(s, c, q) = Grantees(s, call, q) \ {a}
                      /\ Slotted(s, c, q) = Slotted(s, call, q) \ {a}
         /\ \A s, q : a \notin Grantees(s, call, q) =>
               Grantees(s, c, q) = Grantees(s, call, q)
         /\ \A s, q : a \notin Slotted(s, call, q) =>
               Slotted(s, c, q) = Slotted(s, call, q)
<1>1. DOMAIN call = Thd  BY DEF QInv, CallsOk
<1>2. DOMAIN c = Thd /\ c[a] = NoCall /\ \A t \in Thd \ {a} : c[t] = call[t]
  BY DEF Returns
<1>3. InCall(c) = InCall(call) \ {a}  BY <1>2 DEF InCall
<1>4. \A t \in InCall(c) : c[t] = call[t]  BY <1>2, <1>3 DEF InCall
<1>5. k.state[a] = "RUNNING" => Returned(c)
  BY <1>2, <1>3, <1>4 DEF Returned
<1>6. \A s, q, S : Holders(s, c, q, S) = Holders(s, call, q, S) \ {a}
  BY <1>2 DEF Holders
<1>7. \A s, q : Grantees(s, c, q) = Grantees(s, call, q) \ {a}
  BY <1>6 DEF Grantees
<1>8. \A s, q : Slotted(s, c, q) = Slotted(s, call, q) \ {a}
  <2>1. ASSUME NEW s, NEW q  PROVE Slotted(s, c, q) = Slotted(s, call, q) \ {a}
    <3> DEFINE H == Holders(s, call, q, {"slot", "send", "post"})
    <3>1. Slotted(s, c, q) = {t \in H \ {a} : c[t].fresh}  BY <1>6 DEF Slotted
    <3>2. \A t \in H \ {a} : c[t] = call[t]  BY <1>2 DEF Holders
    <3>3. Slotted(s, call, q) = {t \in H : call[t].fresh}  BY DEF Slotted
    <3> HIDE DEF H
    <3>. QED  BY <3>1, <3>2, <3>3
  <2>. QED  BY <2>1
<1>9. ASSUME NEW s, NEW q
      PROVE  /\ a \notin Grantees(s, call, q) =>
                   Grantees(s, c, q) = Grantees(s, call, q)
             /\ a \notin Slotted(s, call, q) =>
                   Slotted(s, c, q) = Slotted(s, call, q)
  <2>1. /\ Grantees(s, c, q) = Grantees(s, call, q) \ {a}
        /\ Slotted(s, c, q) = Slotted(s, call, q) \ {a}
    BY <1>7, <1>8
  <2>. QED  BY <2>1
<1>. QED  BY <1>2, <1>3, <1>5, <1>7, <1>8, <1>9

\* One semaphore is posted once, from the memory s that differs from k in
\* counts only.
LEMMA PostGrants ==
  ASSUME QInv, NEW s, Within(s, rcv), s.state = k.state, s.retval = k.retval,
         s.wait = k.wait, s.panic = 0, NEW x \in QueueSem, (s.num[x] + 1) % W < SemMax,
         NEW c, Returned(c),
         k' = Leave(Serve(s, x, 1)), UNCHANGED <<rcv, got>>
  PROVE  /\ IpcInv' /\ k'.panic = 0 /\ k'.used = s.used
         /\ \A y \in QueueSem \ {x} : k'.num[y] = s.num[y]
         /\ CallsOk(k', c)
         /\ \A q : /\ x # Items(q) => Grantees(k', c, q) = Grantees(k, c, q)
                   /\ x # Slots(q) => Slotted(k', c, q) = Slotted(k, c, q)
                   /\ x = Items(q) =>
                         k'.num[x] + Cardinality(Grantees(k', c, q)) =
                         s.num[x] + Cardinality(Grantees(k, c, q)) + 1
                   /\ x = Slots(q) =>
                         k'.num[x] + Cardinality(Slotted(k', c, q)) =
                         s.num[x] + Cardinality(Slotted(k, c, q)) + 1
                   /\ \A t \in Grantees(k', c, q) : c[t].fresh
<1> DEFINE u == Serve(s, x, 1)
<1>1. /\ Within(u, rcv)
      /\ \E G \in SUBSET ToSet(s.wait[x]) :
            /\ Moves(u, s, Thd, G) /\ \A t \in G : u.state[t] = "RUNNING"
            /\ Cardinality(G) \in Nat
            /\ u.num[x] + Cardinality(G) = s.num[x] + 1
      /\ \A y \in QueueSem \ {x} : u.num[y] = s.num[y]
      /\ u.used = s.used /\ u.panic = s.panic
  BY ServeMoves
<1>2. PICK G \in SUBSET ToSet(s.wait[x]) :
         /\ Moves(u, s, Thd, G) /\ \A t \in G : u.state[t] = "RUNNING"
         /\ Cardinality(G) \in Nat
         /\ u.num[x] + Cardinality(G) = s.num[x] + 1
  BY <1>1
<1>3. k' = Leave(u)  OBVIOUS
<1> HIDE DEF u
<1>4. KInv(s) /\ KInv(u) /\ Mem(u) /\ KInv(k) /\ CallsOk(k, call) /\ x \in Sem
      /\ (\A y \in Sem : s.num[y] \in Nat /\ u.num[y] \in Nat)
  BY <1>1, WithinFacts, InvFacts, QueueSems
<1>5. IpcInv'  BY <1>1, <1>3, WithinInv DEF QInv
<1>6. /\ k'.num = u.num /\ k'.used = s.used /\ k'.panic = 0
      /\ k'.state = u.state /\ k'.retval = u.retval /\ k'.wait = u.wait
  BY <1>1, <1>3, <1>4, LeaveMoves
<1>7. CallsOk(s, call)  BY <1>4 DEF CallsOk
<1>8. ASSUME NEW t \in G
      PROVE  /\ t \in InCall(c) /\ t \in Thd /\ c[t] = call[t] /\ k.state[t] # "RUNNING"
             /\ CallType(c[t]) /\ Wants(c[t]) = x /\ c[t].fresh
             /\ c[t].at \in {"slot", "item"} /\ t \in ToSet(s.wait[x])
  <2>1. t \in ToSet(s.wait[x])  OBVIOUS
  <2>2. t \in Thd /\ s.state[t] # "RUNNING"  BY <1>4, <2>1, Waiters, StateFacts
  <2>3. call[t] # NoCall /\ Wants(call[t]) = x /\ call[t].at \in {"slot", "item"}
    BY <1>7, <2>1 DEF CallsOk
  <2>4. CallType(call[t]) /\ call[t].fresh  BY <1>7, <2>2, <2>3 DEF CallsOk
  <2>5. t \in InCall(c) /\ c[t] = call[t]  BY <2>2, <2>3 DEF Returned, InCall
  <2>. QED  BY <2>1, <2>2, <2>3, <2>4, <2>5
<1>9. /\ CallsOk(u, c)
      /\ \A q, S : Holders(u, c, q, S) =
            {t \in InCall(c) : /\ c[t].q = q /\ c[t].at \in S
                               /\ t \in Holders(s, call, q, S) \/ t \in G}
  <2>1. Moves(u, s, InCall(c), G)  BY <1>2 DEF Moves, InCall
  <2>2. \A t \in InCall(call) \ InCall(c) : u.state[t] \notin Blocked
    <3>1. \A t \in InCall(call) \ InCall(c) : t \in Thd /\ s.state[t] = "RUNNING"
      BY DEF Returned, InCall
    <3>2. \A t \in InCall(call) \ InCall(c) : u.state[t] = "RUNNING"
      BY <1>2, <3>1 DEF Moves
    <3>. QED  BY <3>2, StateFacts
  <2>3. \A t \in G : \E y \in QueueSem : t \in ToSet(s.wait[y])  BY <1>8
  <2>4. /\ DOMAIN c = Thd
        /\ \A t \in InCall(c) : t \in InCall(call) /\ c[t] = call[t]
    BY DEF Returned
  <2>. QED  BY <1>2, <1>4, <1>7, <2>1, <2>2, <2>3, <2>4, CallsMove
<1>10. CallsOk(k', c)  BY <1>6, <1>9 DEF CallsOk
<1>11. ASSUME NEW q, NEW S
       PROVE  Holders(k', c, q, S) =
                 Holders(k, c, q, S) \cup {t \in G : c[t].q = q /\ c[t].at \in S}
  <2>1. Holders(k', c, q, S) = Holders(u, c, q, S)  BY <1>6 DEF Holders
  <2>2. Holders(s, call, q, S) = Holders(k, call, q, S)  BY DEF Holders
  <2>3. \A t \in InCall(c) : t \in Holders(k, call, q, S) <=> t \in Holders(k, c, q, S)
    BY DEF Returned, Holders, InCall
  <2>4. \A t \in Holders(k, c, q, S) : t \in InCall(c) /\ c[t].q = q /\ c[t].at \in S
    BY DEF Holders, InCall
  <2>. QED  BY <1>8, <1>9, <2>1, <2>2, <2>3, <2>4
<1>12. ASSUME NEW q
       PROVE  /\ x # Items(q) => Grantees(k', c, q) = Grantees(k, c, q)
              /\ x = Items(q) => Grantees(k', c, q) = Grantees(k, c, q) \cup G
  <2>1. Grantees(k', c, q) =
           Grantees(k, c, q) \cup {t \in G : c[t].q = q /\ c[t].at \in {"item", "read"}}
    BY <1>11 DEF Grantees
  <2>2. \A t \in G : c[t].q = q /\ c[t].at \in {"item", "read"} <=> x = Items(q)
    BY <1>8, QueueSems DEF Wants
  <2>. QED  BY <2>1, <2>2
<1>13. ASSUME NEW q
       PROVE  /\ x # Slots(q) => Slotted(k', c, q) = Slotted(k, c, q)
              /\ x = Slots(q) => Slotted(k', c, q) = Slotted(k, c, q) \cup G
  <2> DEFINE S == {"slot", "send", "post"}
  <2>1. Holders(k', c, q, S) =
           Holders(k, c, q, S) \cup {t \in G : c[t].q = q /\ c[t].at \in S}
    BY <1>11
  <2>2. \A t \in G : c[t].q = q /\ c[t].at \in S <=> x = Slots(q)
    BY <1>8, QueueSems DEF Wants
  <2> HIDE DEF S
  <2>3. x # Slots(q) => Holders(k', c, q, S) = Holders(k, c, q, S)  BY <2>1, <2>2
  <2>4. x = Slots(q) => Holders(k', c, q, S) = Holders(k, c, q, S) \cup G
    BY <2>1, <2>2
  <2>5. \A t \in G : c[t].fresh  BY <1>8
  <2>6. \A v : Slotted(v, c, q) = {t \in Holders(v, c, q, S) : c[t].fresh}
    BY DEF Slotted, S
  <2>. QED  BY <2>3, <2>4, <2>5, <2>6
<1>14. \A q : G \cap Grantees(k, c, q) = {} /\ G \cap Slotted(k, c, q) = {}
  <2>1. \A t \in G : k.state[t] # "RUNNING" /\ c[t].at \in {"slot", "item"}
    BY <1>8
  <2>. QED  BY <2>1 DEF Grantees, Slotted, Holders
<1>15. \A A \in SUBSET Thd : A \cap G = {} =>
          /\ Cardinality(A \cup G) = Cardinality(A) + Cardinality(G)
          /\ Cardinality(A) \in Nat
  <2>1. G \subseteq Thd  BY <1>8
  <2>. QED  BY <2>1, ThdCards
<1>16. ASSUME NEW q, x = Items(q)
       PROVE  k'.num[x] + Cardinality(Grantees(k', c, q)) =
              s.num[x] + Cardinality(Grantees(k, c, q)) + 1
  <2> DEFINE A == Grantees(k, c, q)
  <2>1. A \in SUBSET Thd /\ A \cap G = {}  BY <1>14, AtHolders
  <2>2. Grantees(k', c, q) = A \cup G  BY <1>12, <1>16
  <2> HIDE DEF A
  <2>3. Cardinality(A \cup G) = Cardinality(A) + Cardinality(G) /\ Cardinality(A) \in Nat
    BY <1>15, <2>1
  <2>4. s.num[x] \in Nat /\ k'.num[x] \in Nat /\ k'.num[x] + Cardinality(G) = s.num[x] + 1
    BY <1>2, <1>4, <1>6
  <2>5. k'.num[x] + Cardinality(A \cup G) = s.num[x] + Cardinality(A) + 1
    BY <1>2, <2>3, <2>4
  <2>. QED  BY <2>2, <2>5 DEF A
<1>17. ASSUME NEW q, x = Slots(q)
       PROVE  k'.num[x] + Cardinality(Slotted(k', c, q)) =
              s.num[x] + Cardinality(Slotted(k, c, q)) + 1
  <2> DEFINE A == Slotted(k, c, q)
  <2>1. A \in SUBSET Thd /\ A \cap G = {}  BY <1>14, AtHolders
  <2>2. Slotted(k', c, q) = A \cup G  BY <1>13, <1>17
  <2> HIDE DEF A
  <2>3. Cardinality(A \cup G) = Cardinality(A) + Cardinality(G) /\ Cardinality(A) \in Nat
    BY <1>15, <2>1
  <2>4. s.num[x] \in Nat /\ k'.num[x] \in Nat /\ k'.num[x] + Cardinality(G) = s.num[x] + 1
    BY <1>2, <1>4, <1>6
  <2>5. k'.num[x] + Cardinality(A \cup G) = s.num[x] + Cardinality(A) + 1
    BY <1>2, <2>3, <2>4
  <2>. QED  BY <2>2, <2>5 DEF A
<1>18. ASSUME NEW q, NEW t \in Grantees(k', c, q)  PROVE c[t].fresh
  <2>1. CASE t \in G  BY <2>1, <1>8
  <2>2. CASE t \notin G
    <3>1. t \in Grantees(k, c, q)  BY <2>2, <1>12
    <3>2. t \in Grantees(k, call, q) /\ c[t] = call[t]
      BY <3>1 DEF Grantees, Holders, Returned, InCall
    <3>. QED  BY <3>2, InvFacts
  <2>. QED  BY <2>1, <2>2
<1>19. \A y \in QueueSem \ {x} : k'.num[y] = s.num[y]  BY <1>1, <1>6
<1>. QED  BY <1>5, <1>6, <1>10, <1>12, <1>13, <1>16, <1>17, <1>18, <1>19

\* A thread returns and nothing else happens.
LEMMA DropKeeps ==
  ASSUME QInv, UNCHANGED <<k, rcv, got, msgq, bmq, ptr>>,
         NEW a \in InCall(call), k.state[a] = "RUNNING",
         call' = [call EXCEPT ![a] = NoCall],
         a \notin Grantees(k, call, call[a].q),
         \A b \in bmq : a \in Slotted(k, call, b) => ~(Accounted(b) <= Limit)
  PROVE  QInv' /\ Balance
<1>1. a \in Thd /\ call[a] # NoCall /\ DOMAIN call = Thd
  BY InvFacts DEF InCall
<1>2. /\ InCall(call') = InCall(call) \ {a} /\ call'[a] = NoCall
      /\ \A t \in Thd \ {a} : call'[t] = call[t]
      /\ \A q : a \notin Grantees(k, call, q) => Grantees(k, call', q) = Grantees(k, call, q)
      /\ \A q : a \notin Slotted(k, call, q) => Slotted(k, call', q) = Slotted(k, call, q)
  <2>1. Returns(a, call')  BY <1>1 DEF Returns
  <2>2. InCall(call') = InCall(call) \ {a}  BY <1>1, <2>1, ReturnOne
  <2>3. \A q : a \notin Grantees(k, call, q) => Grantees(k, call', q) = Grantees(k, call, q)
    BY <1>1, <2>1, ReturnOne
  <2>4. \A q : a \notin Slotted(k, call, q) => Slotted(k, call', q) = Slotted(k, call, q)
    BY <1>1, <2>1, ReturnOne
  <2>. QED  BY <2>1, <2>2, <2>3, <2>4 DEF Returns
<1>3. CallsOk(k, call')
  BY <1>1, InvFacts, CallsChange
<1>4. \A q : Grantees(k, call', q) = Grantees(k, call, q)
  <2>1. \A q : a \in Grantees(k, call, q) => q = call[a].q
    BY DEF Grantees, Holders
  <2>. QED  BY <1>2, <2>1
<1>5. FreshOk(call', msgq) /\ NodesOk(ptr, call')
  BY <1>2 DEF QInv, FreshOk, NodesOk, InCall
<1>6. \A q \in Msgq : \A t \in Grantees(k, call', q) : call'[t].fresh
  <2>1. \A q \in Msgq : \A t \in Grantees(k, call', q) : t \in InCall(call')
    BY DEF Grantees, Holders, InCall
  <2>. QED  BY <1>1, <1>2, <1>4, <2>1, InvFacts DEF InCall
<1>7. \A q \in msgq : Stranded(q)' = Stranded(q)  BY <1>4, AtHolders
<1>8. SlotsStep
  <2>1. ASSUME NEW b \in bmq, Accounted(b) <= Limit  PROVE Accounted(b)' = Accounted(b)
    <3>1. Slotted(k, call', b) = Slotted(k, call, b)  BY <1>2, <2>1
    <3>. QED  BY <3>1, AtHolders
  <2>. QED  BY <2>1 DEF SlotsStep
<1>9. IpcInv' /\ k'.panic = 0  BY DEF QInv, IpcInv, IInv
<1>. QED  BY <1>3, <1>5, <1>6, <1>7, <1>8, <1>9, StepKeeps DEF QInv

\* While the slots of a queue add up, somebody who has one can send and, once
\* received, give it back: neither post runs into the limit of a count.
LEMMA SlotRoom ==
  ASSUME QInv, NEW b \in bmq, Accounted(b) <= Limit
  PROVE  /\ k.num[Slots(b)] # 0 => MayPost(Items(b), 1)
         /\ Slotted(k, call, b) # {} => MayPost(Items(b), 1) /\ MayPost(Slots(b), 1)
<1> DEFINE i == k.num[Items(b)]
           h == Cardinality(Grantees(k, call, b))
           l == Len(Nodes(ptr, b))
           n == k.num[Slots(b)]
           s == Cardinality(Slotted(k, call, b))
<1>1. b \in msgq /\ b \in Bmq  BY DEF QInv
<1>2. /\ i \in Nat /\ h \in Nat /\ l \in Nat /\ n \in Nat /\ s \in Nat /\ i + h <= l
      /\ Items(b) \in k.used /\ Slots(b) \in k.used
  BY <1>1, QueueFacts
<1>3. n + l + s <= Limit  BY AtHolders
<1>4. Slotted(k, call, b) # {} => s # 0  BY AtHolders, ThdCards
<1>5. Limit \in Nat /\ Limit < SemMax /\ SemMax \in Nat /\ SemMax < W /\ W \in Nat
  <2>1. Within(k, rcv)  BY InvFacts
  <2>2. SemMax \in Nat /\ SemMax < W  BY <2>1, WithinFacts
  <2>3. W \in Nat /\ Limit \in Nat  BY CoreAssumption, QueueAssumption DEF Word
  <2>. QED  BY <2>2, <2>3, QueueAssumption
<1> HIDE DEF i, h, l, n, s
<1>6. \A z \in Nat : z + 1 <= Limit => (z + 1) % W < SemMax
  BY <1>5
<1>7. n # 0 \/ s # 0 => i + 1 <= Limit  BY <1>2, <1>3, <1>5
<1>8. s # 0 => n + 1 <= Limit  BY <1>2, <1>3, <1>5
<1>9. n # 0 \/ s # 0 => (i + 1) % W < SemMax  BY <1>2, <1>6, <1>7
<1>10. s # 0 => (n + 1) % W < SemMax  BY <1>2, <1>6, <1>8
<1>. QED  BY <1>2, <1>4, <1>9, <1>10 DEF MayPost, i, n

\* RMP_Msgq_Snd, in the memory s in which a slot may have been taken and for
\* the calls that are left if the caller was in one.
LEMMA SendKeeps ==
  ASSUME QInv, NEW q \in msgq, NEW n \in Node, n \notin Linked(ptr),
         NEW s, Within(s, rcv), s.state = k.state, s.retval = k.retval,
         s.wait = k.wait, s.panic = 0, s.used = k.used,
         \A p \in Msgq : s.num[Items(p)] = k.num[Items(p)],
         Send(s, q, n), UNCHANGED <<rcv, got, msgq, bmq>>,
         Returned(call'),
         \A t \in InCall(call') : n \notin call'[t].node,
         \A p : Grantees(k, call', p) = Grantees(k, call, p)
  PROVE  /\ SlotsStep => QInv' /\ Balance
         /\ MayPost(Items(q), 1) => /\ Nodes(ptr', q) = Append(Nodes(ptr, q), n)
                                    /\ Len(Nodes(ptr', q)) = Len(Nodes(ptr, q)) + 1
         /\ ~MayPost(Items(q), 1) => ptr' = ptr
         /\ \A b \in bmq : /\ k'.num[Slots(b)] = s.num[Slots(b)]
                           /\ Slotted(k', call', b) = Slotted(k, call', b)
                           /\ b # q => Nodes(ptr', b) = Nodes(ptr, b)
<1> DEFINE x == Items(q)
<1>1. /\ q \in Msgq /\ q \in ptr.used /\ x \in QueueSem /\ x \in k.used
      /\ KInv(k) /\ CallsOk(k, call) /\ Mem(s) /\ KInv(s)
      /\ \A b \in bmq : b \in Bmq /\ Slots(b) \in QueueSem \ {x} /\ b \in ptr.used
  <2>1. q \in Msgq /\ q \in ptr.used /\ x \in k.used  BY QueueFacts
  <2>2. x \in QueueSem  BY <2>1, QueueSems
  <2>3. ASSUME NEW b \in bmq
        PROVE  b \in Bmq /\ Slots(b) \in QueueSem \ {x} /\ b \in ptr.used
    <3>1. b \in msgq /\ b \in Bmq  BY DEF QInv
    <3>2. b \in ptr.used  BY <3>1, QueueFacts
    <3>. QED  BY <3>1, <3>2, QueueSems
  <2>. QED  BY <2>1, <2>2, <2>3, InvFacts, WithinFacts
<1>2. \A p : \A t \in Grantees(k, call', p) : call'[t].fresh
  <2>1. \A p : \A t \in Grantees(k, call', p) :
           t \in Grantees(k, call, p) /\ t \in InCall(call')
    BY DEF Grantees, Holders, InCall
  <2>. QED  BY <2>1, InvFacts DEF Returned
<1>3. FreshOk(call', msgq) /\ (\A t \in InCall(call') : call'[t].node \cap Linked(ptr) = {})
      /\ (\A t, u \in InCall(call') : t # u => call'[t].node \cap call'[u].node = {})
  BY DEF QInv, FreshOk, NodesOk, Returned, InCall
<1>4. CASE ~MayPost(x, 1)
  <2>1. k' = Leave(s) /\ ptr' = ptr  BY <1>4 DEF Send
  <2>2. /\ k'.num = s.num /\ k'.used = k.used /\ k'.panic = 0
        /\ k'.state = k.state /\ k'.retval = k.retval /\ k'.wait = k.wait
    BY <1>1, <2>1, LeaveMoves
  <2>3. IpcInv'  BY <2>1, WithinInv DEF QInv
  <2>4. \A p, S : Holders(k', call', p, S) = Holders(k, call', p, S)
    BY <2>2 DEF Holders
  <2>5. \A p : /\ Grantees(k', call', p) = Grantees(k, call', p)
               /\ Slotted(k', call', p) = Slotted(k, call', p)
    BY <2>4 DEF Grantees, Slotted
  <2>6. CallsOk(k', call')
    <3>1. /\ DOMAIN call' = Thd
          /\ \A t \in Thd : call'[t] # NoCall => call[t] # NoCall /\ call'[t] = call[t]
          /\ \A t \in Thd : call[t] # NoCall /\ call'[t] = NoCall => k.state[t] = "RUNNING"
      BY DEF Returned, InCall
    <3>2. ASSUME NEW y \in QueueSem, NEW t \in ToSet(k.wait[y])
          PROVE  call'[t] # NoCall /\ call'[t].at \in {"slot", "item"} /\ Wants(call'[t]) = y
      <4>1. t \in Thd /\ k.state[t] # "RUNNING"
        BY <1>1, Waiters, QueueSems, StateFacts
      <4>2. call[t] # NoCall /\ call[t].at \in {"slot", "item"} /\ Wants(call[t]) = y
        BY <1>1 DEF CallsOk
      <4>. QED  BY <3>1, <4>1, <4>2
    <3>. QED  BY <1>1, <2>2, <3>1, <3>2 DEF CallsOk
  <2>7. \A p \in msgq : p \in Msgq /\ Stranded(p)' = Stranded(p)
    BY <2>1, <2>2, <2>5, AtHolders DEF QInv
  <2>8. NodesOk(ptr', call')  BY <1>3, <2>1 DEF NodesOk, InCall
  <2>9. UsedOk(k', ptr', msgq')  BY <2>1, <2>2 DEF QInv, UsedOk
  <2>10. ListsOk(ptr') /\ msgq' \subseteq Msgq /\ bmq' = msgq' \cap Bmq
    BY <2>1 DEF QInv
  <2>11. SlotsStep => QInv' /\ Balance
    BY <1>2, <1>3, <2>2, <2>3, <2>5, <2>6, <2>7, <2>8, <2>9, <2>10, StepKeeps
  <2>. QED  BY <1>4, <2>1, <2>2, <2>5, <2>11
<1>5. CASE MayPost(x, 1)
  <2>1. k' = Leave(Serve(s, x, 1)) /\ ptr' = Write_Fifo(ptr, q, n)
    BY <1>1, <1>5 DEF Send
  <2>2. (s.num[x] + 1) % W < SemMax  BY <1>1, <1>5 DEF MayPost
  <2>3. /\ IpcInv' /\ k'.panic = 0 /\ k'.used = k.used
        /\ \A y \in QueueSem \ {x} : k'.num[y] = s.num[y]
        /\ CallsOk(k', call')
    BY <1>1, <2>1, <2>2, PostGrants
  <2>4. ASSUME NEW p
        PROVE  /\ x # Items(p) => Grantees(k', call', p) = Grantees(k, call', p)
               /\ x # Slots(p) => Slotted(k', call', p) = Slotted(k, call', p)
               /\ x = Items(p) =>
                     k'.num[x] + Cardinality(Grantees(k', call', p)) =
                     s.num[x] + Cardinality(Grantees(k, call', p)) + 1
               /\ \A t \in Grantees(k', call', p) : call'[t].fresh
    BY <1>1, <2>1, <2>2, PostGrants
  <2>5. /\ ListsOk(ptr') /\ ptr'.used = ptr.used
        /\ Nodes(ptr', q) = Append(Nodes(ptr, q), n)
        /\ \A g \in ptr.used \ {q} : Nodes(ptr', g) = Nodes(ptr, g)
        /\ Linked(ptr') = Linked(ptr) \cup {n}
        /\ Len(Nodes(ptr', q)) = Len(Nodes(ptr, q)) + 1
    <3>1. ListsOk(ptr)  BY DEF QInv
    <3>. QED  BY <1>1, <2>1, <3>1, ListsWrite
  <2>6. Stranded(q)' = Stranded(q)
    <3> DEFINE i == k.num[x]
               j == k'.num[x]
               h == Cardinality(Grantees(k, call, q))
               g == Cardinality(Grantees(k', call', q))
               l == Len(Nodes(ptr, q))
               m == Len(Nodes(ptr', q))
    <3>1. /\ i \in Nat /\ h \in Nat /\ l \in Nat /\ m = l + 1 /\ g \in Nat
          /\ j \in Nat /\ j + g = i + h + 1
      <4>1. i \in Nat /\ h \in Nat /\ l \in Nat  BY QueueFacts
      <4>2. g \in Nat  BY AtHolders, ThdCards
      <4>3. j + g = i + h + 1  BY <1>1, <2>4
      <4>4. j \in Nat
        <5>1. KInv(k')  BY <2>3, SafeInner DEF IpcInv, IInv
        <5>2. k'.num \in [Sem -> Word]  BY <5>1 DEF KInv, Good, Kernel
        <5>. QED  BY <1>1, <5>2, CoreAssumption, QueueSems DEF Word
      <4>. QED  BY <2>5, <4>1, <4>2, <4>3, <4>4
    <3>2. Stranded(q) = l - i - h /\ Stranded(q)' = m - j - g  BY AtHolders
    <3> HIDE DEF i, j, h, g, l, m
    <3>. QED  BY <3>1, <3>2
  <2>7. ASSUME NEW p \in msgq, p # q  PROVE Stranded(p)' = Stranded(p)
    <3>1. p \in Msgq /\ p \in ptr.used  BY QueueFacts
    <3>2. Items(p) \in QueueSem \ {x}  BY <2>7, <3>1, QueueSems
    <3>3. k'.num[Items(p)] = k.num[Items(p)]  BY <2>3, <3>1, <3>2
    <3>4. Grantees(k', call', p) = Grantees(k, call, p)  BY <2>4, <3>2
    <3>5. Nodes(ptr', p) = Nodes(ptr, p)  BY <2>5, <2>7, <3>1
    <3>. QED  BY <3>3, <3>4, <3>5, AtHolders
  <2>8. NodesOk(ptr', call')  BY <1>3, <2>5 DEF NodesOk, InCall
  <2>9. UsedOk(k', ptr', msgq')  BY <2>3, <2>5 DEF QInv, UsedOk
  <2>10. msgq' \subseteq Msgq /\ bmq' = msgq' \cap Bmq  BY DEF QInv
  <2>11. \A p \in Msgq : \A t \in Grantees(k', call', p) : call'[t].fresh
    BY <2>4
  <2>12. SlotsStep => QInv' /\ Balance
    BY <1>3, <2>3, <2>5, <2>6, <2>7, <2>8, <2>9, <2>10, <2>11, StepKeeps
  <2>13. ASSUME NEW b \in bmq
         PROVE  /\ k'.num[Slots(b)] = s.num[Slots(b)]
                /\ Slotted(k', call', b) = Slotted(k, call', b)
                /\ b # q => Nodes(ptr', b) = Nodes(ptr, b)
    <3>1. Slots(b) \in QueueSem \ {x} /\ b \in ptr.used  BY <1>1
    <3>. QED  BY <2>3, <2>4, <2>5, <3>1
  <2>. QED  BY <1>5, <2>5, <2>12, <2>13
<1>. QED  BY <1>4, <1>5

\* A node of the caller's is on no list and in no call.
LEMMA OwnNode ==
  ASSUME NEW n \in Own
  PROVE  /\ n \in Node /\ n \notin Linked(ptr)
         /\ \A t \in InCall(call) : n \notin call[t].node
<1>1. n \in Node /\ \A t \in InCall(call) : n \notin call[t].node
  BY DEF Own, InCall
<1>2. \A f \in ptr.used : n \notin ToSet(Nodes(ptr, f))  BY DEF Own
<1>3. n \notin Linked(ptr)  BY <1>2 DEF Linked
<1>. QED  BY <1>1, <1>3

\* RMP_Msgq_Snd and RMP_Msgq_Snd_ISR
LEMMA MsgqSndKeeps ==
  ASSUME QInv, NEW q \in Msgq \ Bmq, NEW n, Msgq_Snd(q, n) \/ Msgq_Snd_ISR(q, n)
  PROVE  QInv' /\ Balance
<1>1. /\ q \in msgq /\ n \in Own /\ Send(k, q, n)
      /\ UNCHANGED <<rcv, got, msgq, bmq, call>>
  BY DEF Msgq_Snd, Msgq_Snd_ISR
<1>2. /\ Returned(call') /\ Within(k, rcv) /\ k.panic = 0 /\ DOMAIN call = Thd
  BY <1>1, InvFacts DEF Returned
<1>3. /\ n \in Node /\ n \notin Linked(ptr)
      /\ \A t \in InCall(call') : n \notin call'[t].node
  BY <1>1, OwnNode
<1>4. \A p : Grantees(k, call', p) = Grantees(k, call, p)  BY <1>1
<1>5. /\ SlotsStep => QInv' /\ Balance
      /\ \A b \in bmq : /\ k'.num[Slots(b)] = k.num[Slots(b)]
                        /\ Slotted(k', call', b) = Slotted(k, call', b)
                        /\ b # q => Nodes(ptr', b) = Nodes(ptr, b)
  BY <1>1, <1>2, <1>3, <1>4, SendKeeps
<1>6. SlotsStep
  <2>1. ASSUME NEW b \in bmq  PROVE Accounted(b)' = Accounted(b)
    <3>1. b # q  BY DEF QInv
    <3>2. Slotted(k', call', b) = Slotted(k, call, b)  BY <1>1, <1>5
    <3>. QED  BY <1>5, <3>1, <3>2, AtHolders
  <2>. QED  BY <2>1 DEF SlotsStep
<1>. QED  BY <1>5, <1>6

\* RMP_Bmq_Snd_ISR: the slot it takes becomes the node it writes.
LEMMA BmqSndIsrKeeps ==
  ASSUME QInv, NEW q \in Bmq, NEW n, Bmq_Snd_ISR(q, n)
  PROVE  QInv' /\ Balance
<1> DEFINE y == Slots(q)
           s == [k EXCEPT !.num[y] = k.num[y] - 1]
<1>1. /\ q \in bmq /\ n \in Own /\ k.num[y] # 0 /\ Send(s, q, n)
      /\ UNCHANGED <<rcv, got, msgq, bmq, call>>
  BY DEF Bmq_Snd_ISR
<1>2. /\ Returned(call') /\ Within(k, rcv) /\ k.panic = 0 /\ k \in Kernel
      /\ q \in msgq
  <2>1. Within(k, rcv) /\ k.panic = 0 /\ DOMAIN call = Thd  BY InvFacts
  <2>2. Returned(call')  BY <1>1, <2>1 DEF Returned
  <2>3. k \in Kernel  BY <2>1, WithinFacts
  <2>. QED  BY <1>1, <2>1, <2>2, <2>3 DEF QInv
<1>3. /\ n \in Node /\ n \notin Linked(ptr)
      /\ \A t \in InCall(call') : n \notin call'[t].node
  BY <1>1, OwnNode
<1>4. \A p : Grantees(k, call', p) = Grantees(k, call, p)  BY <1>1
<1>5. /\ Within(s, rcv) /\ s.num[y] = k.num[y] - 1
      /\ \A z \in QueueSem \ {y} : s.num[z] = k.num[z]
      /\ s.used = k.used
  BY <1>1, <1>2, QueueSems, TakeMoves
<1>6. s.state = k.state /\ s.retval = k.retval /\ s.wait = k.wait /\ s.panic = 0
  BY <1>2 DEF Kernel
<1> HIDE DEF s
<1>7. \A p \in Msgq : s.num[Items(p)] = k.num[Items(p)]  BY <1>5, QueueSems
<1>8. /\ SlotsStep => QInv' /\ Balance
      /\ MayPost(Items(q), 1) => Len(Nodes(ptr', q)) = Len(Nodes(ptr, q)) + 1
      /\ \A b \in bmq : /\ k'.num[Slots(b)] = s.num[Slots(b)]
                        /\ Slotted(k', call', b) = Slotted(k, call', b)
                        /\ b # q => Nodes(ptr', b) = Nodes(ptr, b)
  BY <1>1, <1>2, <1>3, <1>4, <1>5, <1>6, <1>7, SendKeeps
<1>9. SlotsStep
  <2>1. ASSUME NEW b \in bmq, Accounted(b) <= Limit
        PROVE  Accounted(b)' = Accounted(b)
    <3>1. Slotted(k', call', b) = Slotted(k, call, b)  BY <1>1, <1>8
    <3>2. CASE b # q
      <4>1. Slots(b) \in QueueSem \ {y}  BY <3>2, QueueSems DEF QInv
      <4>2. k'.num[Slots(b)] = k.num[Slots(b)]  BY <1>5, <1>8, <4>1
      <4>. QED  BY <1>8, <3>1, <3>2, <4>2, AtHolders
    <3>3. CASE b = q
      <4>1. MayPost(Items(q), 1)  BY <1>1, <2>1, <3>3, SlotRoom
      <4> DEFINE m == Len(Nodes(ptr', b))
                 l == Len(Nodes(ptr, b))
                 h == Cardinality(Slotted(k, call, b))
                 i == k.num[Slots(b)]
                 j == k'.num[Slots(b)]
      <4>2. m = l + 1 /\ j = i - 1  BY <1>5, <1>8, <3>3, <4>1
      <4>3. l \in Nat /\ h \in Nat /\ i \in Nat  BY <1>2, <3>3, QueueFacts
      <4>4. Accounted(b) = i + l + h /\ Accounted(b)' = j + m + h
        BY <3>1, AtHolders
      <4> HIDE DEF m, l, h, i, j
      <4>. QED  BY <4>2, <4>3, <4>4
    <3>. QED  BY <3>2, <3>3
  <2>. QED  BY <2>1 DEF SlotsStep
<1>. QED  BY <1>8, <1>9

\* The send of RMP_Bmq_Snd: the slot it holds becomes the node it writes.
LEMMA BmqSndMsgqKeeps ==
  ASSUME QInv, NEW t \in Thd, Bmq_Snd_Msgq(t)
  PROVE  /\ QInv' /\ Balance
         /\ call[t].fresh /\ Accounted(call[t].q) <= Limit =>
               \E n \in call[t].node :
                  Nodes(ptr', call[t].q) = Append(Nodes(ptr, call[t].q), n)
<1> DEFINE q == call[t].q
<1>1. /\ User /\ t = k.cur /\ call[t].at \in {"slot", "send"}
      /\ call[t].at = "slot" => k.retval[t] = "ok"
      /\ call' = [call EXCEPT ![t] = NoCall]
      /\ UNCHANGED <<rcv, got, msgq, bmq>>
  BY DEF Bmq_Snd_Msgq, Resume, Awoken, Return
<1>2. PICK n \in call[t].node : IF q \in msgq THEN Send(k, q, n) ELSE UNCHANGED <<k, ptr>>
  BY DEF Bmq_Snd_Msgq
<1>3. /\ Within(k, rcv) /\ KInv(k) /\ CallsOk(k, call) /\ DOMAIN call = Thd
      /\ k.state[t] = "RUNNING" /\ k.panic = 0
  BY <1>1, InvFacts
<1>4. call[t] # NoCall /\ t \in InCall(call)  BY <1>2, <1>1 DEF NoCall, InCall
<1>5. /\ CallType(call[t]) /\ q \in Msgq /\ q \in Bmq /\ call[t].node = {n} /\ n \in Node
  <2>1. CallType(call[t]) /\ q \in Msgq  BY <1>3, <1>4, CallFacts, QueueSems
  <2>2. PICK m \in Node : call[t].node = {m}  BY <1>1, <2>1 DEF CallType
  <2>. QED  BY <1>1, <1>2, <2>1, <2>2 DEF CallType
<1>6. Returns(t, call')  BY <1>1, <1>3 DEF Returns
<1>7. Returned(call') /\ InCall(call') = InCall(call) \ {t}
  BY <1>3, <1>6, ReturnOne
<1>8. \A p : t \notin Grantees(k, call, p)  BY <1>1 DEF Grantees, Holders
<1>9. \A p : Grantees(k, call', p) = Grantees(k, call, p)
  BY <1>6, <1>8, ReturnOne
<1>10. \A p : t \in Slotted(k, call, p) <=> p = q /\ call[t].fresh
  <2>1. \A p : t \in Holders(k, call, p, {"slot", "send", "post"}) <=> p = q
    BY <1>1, <1>3, <1>4 DEF Holders
  <2>. QED  BY <2>1 DEF Slotted
<1>11. \A p : Slotted(k, call', p) = Slotted(k, call, p) \ {t}
  BY <1>6, ReturnOne
<1>12. \A p : p # q \/ ~call[t].fresh => Slotted(k, call', p) = Slotted(k, call, p)
  BY <1>6, <1>10, ReturnOne
<1>13. CASE q \notin msgq
  <2>1. ~call[t].fresh  BY <1>4, <1>13 DEF QInv, FreshOk
  <2>2. \A b \in bmq : t \notin Slotted(k, call, b)  BY <2>1, <1>10
  <2>3. UNCHANGED <<k, rcv, got, msgq, bmq, ptr>>  BY <1>1, <1>2, <1>13
  <2>4. QInv' /\ Balance  BY <1>1, <1>3, <1>4, <1>8, <2>2, <2>3, DropKeeps
  <2>. QED  BY <2>1, <2>4
<1>14. CASE q \in msgq
  <2>1. Send(k, q, n) /\ q \in bmq  BY <1>2, <1>5, <1>14 DEF QInv
  <2>2. n \notin Linked(ptr) /\ \A u \in InCall(call') : n \notin call'[u].node
    <3>1. call[t].node \cap Linked(ptr) = {}  BY <1>4 DEF QInv, NodesOk
    <3>2. \A u \in InCall(call) \ {t} : call[t].node \cap call[u].node = {}
      BY <1>4 DEF QInv, NodesOk, InCall
    <3>3. \A u \in InCall(call') : u \in InCall(call) \ {t} /\ call'[u] = call[u]
      BY <1>7 DEF Returned
    <3>. QED  BY <1>5, <3>1, <3>2, <3>3
  <2>3. /\ SlotsStep => QInv' /\ Balance
        /\ MayPost(Items(q), 1) => /\ Nodes(ptr', q) = Append(Nodes(ptr, q), n)
                                   /\ Len(Nodes(ptr', q)) = Len(Nodes(ptr, q)) + 1
        /\ \A b \in bmq : /\ k'.num[Slots(b)] = k.num[Slots(b)]
                          /\ Slotted(k', call', b) = Slotted(k, call', b)
                          /\ b # q => Nodes(ptr', b) = Nodes(ptr, b)
    <3> HIDE DEF q
    <3>. QED  BY <1>1, <1>3, <1>5, <1>7, <1>9, <1>14, <2>1, <2>2, SendKeeps
  <2>4. call[t].fresh /\ Accounted(q) <= Limit => MayPost(Items(q), 1)
    BY <1>10, <2>1, SlotRoom
  <2>5. SlotsStep
    <3>1. ASSUME NEW b \in bmq, Accounted(b) <= Limit, b # q \/ call[t].fresh
          PROVE  Accounted(b)' = Accounted(b)
      <4>1. CASE b # q
        <5>1. Slotted(k', call', b) = Slotted(k, call, b)  BY <1>12, <2>3, <4>1
        <5>. QED  BY <2>3, <4>1, <5>1, AtHolders
      <4>2. CASE b = q
        <5> DEFINE m == Len(Nodes(ptr', b))
                   l == Len(Nodes(ptr, b))
                   S == Slotted(k, call, b)
                   h == Cardinality(S)
                   i == k.num[Slots(b)]
        <5>1. m = l + 1  BY <2>3, <2>4, <3>1, <4>2
        <5>2. t \in S  BY <1>10, <3>1, <4>2
        <5>3. Slotted(k', call', b) = S \ {t}  BY <1>11, <2>3
        <5>4. S \subseteq Thd  BY AtHolders
        <5>5. l \in Nat /\ h \in Nat /\ i \in Nat
          <6>1. b \in msgq /\ b \in Bmq  BY DEF QInv
          <6>. QED  BY <6>1, QueueFacts
        <5>6. Accounted(b) = i + l + h /\ Accounted(b)' = i + m + Cardinality(S \ {t})
          BY <2>3, <5>3, AtHolders
        <5> HIDE DEF m, l, S, i
        <5>7. Cardinality(S \ {t}) = h - 1  BY <5>2, <5>4, ThdCards
        <5> HIDE DEF h
        <5>. QED  BY <5>1, <5>5, <5>6, <5>7
      <4>. QED  BY <4>1, <4>2
    <3>2. call[t] # NoCall /\ call'[t] = NoCall  BY <1>4, <1>6 DEF Returns
    <3>. QED  BY <3>1, <3>2 DEF SlotsStep
  <2>. QED  BY <1>2, <2>3, <2>4, <2>5
<1>. QED  BY <1>13, <1>14

----------------------------------------------------------------------------
(* The steps of the other calls.                                           *)

\* A call whose wait failed, by a thread that was granted nothing.
LEMMA FailKeeps ==
  ASSUME QInv, NEW t \in Thd, Queue_Fail(t)
  PROVE  QInv' /\ Balance
<1>1. /\ User /\ t = k.cur /\ call[t].at \in {"slot", "item"} /\ k.retval[t] = "err"
      /\ call' = [call EXCEPT ![t] = NoCall]
      /\ UNCHANGED <<k, rcv, got, msgq, bmq, ptr>>
  BY DEF Queue_Fail, Awoken, Resume, Return
<1>2. k.state[t] = "RUNNING" /\ t \in InCall(call)
  BY <1>1, InvFacts DEF NoCall, InCall
<1>3. \A p, S : t \notin Holders(k, call, p, S)  BY <1>1 DEF Holders
<1>. QED  BY <1>1, <1>2, <1>3, DropKeeps DEF Grantees, Slotted

\* The post of RMP_Bmq_Rcv: the slot is given to a sender or counted.
LEMMA BmqRcvPostKeeps ==
  ASSUME QInv, NEW t \in Thd, Bmq_Rcv_Post(t)
  PROVE  QInv' /\ Balance
<1> DEFINE q == call[t].q
           x == Slots(q)
<1>1. /\ User /\ t = k.cur /\ call[t].at = "post"
      /\ k' = IF MayPost(x, 1) THEN Leave(Serve(k, x, 1)) ELSE k
      /\ call' = [call EXCEPT ![t] = NoCall]
      /\ UNCHANGED <<rcv, got, msgq, bmq, ptr>>
  BY DEF Bmq_Rcv_Post, Resume, Return
<1>2. /\ Within(k, rcv) /\ KInv(k) /\ CallsOk(k, call) /\ DOMAIN call = Thd
      /\ k.state[t] = "RUNNING" /\ k.panic = 0 /\ t \in InCall(call)
  BY <1>1, InvFacts DEF NoCall, InCall
<1>3. call[t] # NoCall /\ CallType(call[t]) /\ q \in Msgq /\ q \in Bmq
  <2>1. call[t] # NoCall /\ CallType(call[t])  BY <1>2, CallFacts
  <2>. QED  BY <1>1, <2>1, QueueSems DEF CallType
<1>4. \A p : t \notin Grantees(k, call, p)  BY <1>1 DEF Grantees, Holders
<1>5. \A p : t \in Slotted(k, call, p) <=> p = q /\ call[t].fresh
  <2>1. \A p : t \in Holders(k, call, p, {"slot", "send", "post"}) <=> p = q
    BY <1>1, <1>2, <1>3 DEF Holders
  <2>. QED  BY <2>1 DEF Slotted
<1>6. CASE ~MayPost(x, 1)
  <2>1. UNCHANGED <<k, rcv, got, msgq, bmq, ptr>>  BY <1>1, <1>6
  <2>2. \A b \in bmq : t \in Slotted(k, call, b) => ~(Accounted(b) <= Limit)
    BY <1>5, <1>6, SlotRoom
  <2>. QED  BY <1>1, <1>2, <1>4, <2>1, <2>2, DropKeeps
<1>7. CASE MayPost(x, 1)
  <2>1. x \in QueueSem /\ (k.num[x] + 1) % W < SemMax
    BY <1>3, <1>7, QueueSems DEF MayPost
  <2>2. k' = Leave(Serve(k, x, 1))  BY <1>1, <1>7
  <2>3. Returns(t, call')  BY <1>1, <1>2 DEF Returns
  <2>4. Returned(call') /\ InCall(call') = InCall(call) \ {t}
    BY <1>2, <2>3, ReturnOne
  <2>5. \A p : Grantees(k, call', p) = Grantees(k, call, p)
    BY <1>4, <2>3, ReturnOne
  <2>6. \A p : Slotted(k, call', p) = Slotted(k, call, p) \ {t}
    BY <2>3, ReturnOne
  <2>7. \A p : p # q \/ ~call[t].fresh => Slotted(k, call', p) = Slotted(k, call, p)
    BY <1>5, <2>3, ReturnOne
  <2> HIDE DEF x
  <2>8. /\ IpcInv' /\ k'.panic = 0 /\ k'.used = k.used
        /\ \A y \in QueueSem \ {x} : k'.num[y] = k.num[y]
        /\ CallsOk(k', call')
    BY <1>1, <1>2, <2>1, <2>2, <2>4, PostGrants
  <2>9. ASSUME NEW p
        PROVE  /\ x # Items(p) => Grantees(k', call', p) = Grantees(k, call', p)
               /\ x # Slots(p) => Slotted(k', call', p) = Slotted(k, call', p)
               /\ x = Slots(p) =>
                     k'.num[x] + Cardinality(Slotted(k', call', p)) =
                     k.num[x] + Cardinality(Slotted(k, call', p)) + 1
               /\ \A u \in Grantees(k', call', p) : call'[u].fresh
    <3>1. UNCHANGED <<rcv, got>>  BY <1>1
    <3>. QED  BY <1>2, <2>1, <2>2, <2>4, <3>1, PostGrants
  <2>10. \A p : x # Items(p) /\ (p # q => x # Slots(p))
    BY QueueSems DEF x
  <2>11. ASSUME NEW p \in msgq  PROVE p \in Msgq /\ Stranded(p)' = Stranded(p)
    <3>1. p \in Msgq /\ Items(p) \in QueueSem \ {x}
      BY <2>10, QueueFacts, QueueSems
    <3>2. k'.num[Items(p)] = k.num[Items(p)]  BY <2>8, <3>1
    <3>3. Grantees(k', call', p) = Grantees(k, call, p)  BY <2>5, <2>9, <2>10
    <3>. QED  BY <1>1, <3>1, <3>2, <3>3, AtHolders
  <2>12. SlotsStep
    <3>1. ASSUME NEW b \in bmq, b # q \/ call[t].fresh
          PROVE  Accounted(b)' = Accounted(b)
      <4>1. CASE b # q
        <5>1. Slots(b) \in QueueSem \ {x}  BY <2>10, <4>1, QueueSems DEF QInv
        <5>2. k'.num[Slots(b)] = k.num[Slots(b)]  BY <2>8, <5>1
        <5>3. Slotted(k', call', b) = Slotted(k, call, b)
          BY <2>7, <2>9, <2>10, <4>1
        <5>. QED  BY <1>1, <5>2, <5>3, AtHolders
      <4>2. CASE b = q
        <5> DEFINE l == Len(Nodes(ptr, b))
                   S == Slotted(k, call, b)
                   h == Cardinality(S)
                   g == Cardinality(Slotted(k', call', b))
                   i == k.num[Slots(b)]
                   j == k'.num[Slots(b)]
        <5>1. t \in S /\ call[t].fresh  BY <1>5, <3>1, <4>2
        <5>2. Slotted(k, call', b) = S \ {t}  BY <2>6
        <5>3. S \subseteq Thd  BY AtHolders
        <5>4. l \in Nat /\ h \in Nat /\ i \in Nat
          <6>1. b \in msgq /\ b \in Bmq  BY DEF QInv
          <6>. QED  BY <6>1, QueueFacts
        <5>5. j + g = i + Cardinality(Slotted(k, call', b)) + 1
          <6>1. x = Slots(b)  BY <4>2 DEF x
          <6>. QED  BY <2>9, <6>1
        <5>6. Accounted(b) = i + l + h /\ Accounted(b)' = j + l + g
          BY <1>1, AtHolders
        <5>7. g \in Nat /\ j \in Nat
          <6>1. g \in Nat  BY AtHolders, ThdCards
          <6>2. KInv(k')  BY <2>8, SafeInner DEF IpcInv, IInv
          <6>3. k'.num \in [Sem -> Word]  BY <6>2 DEF KInv, Good, Kernel
          <6>4. Slots(b) \in Sem  BY QueueSems DEF QInv
          <6>. QED  BY <6>1, <6>3, <6>4, CoreAssumption DEF Word
        <5> HIDE DEF l, S, i, j, g
        <5>8. Cardinality(S \ {t}) = h - 1  BY <5>1, <5>3, ThdCards
        <5> HIDE DEF h
        <5>9. j + g = i + h  BY <5>2, <5>4, <5>5, <5>8
        <5>. QED  BY <5>4, <5>6, <5>7, <5>9
      <4>. QED  BY <4>1, <4>2
    <3>2. call[t] # NoCall /\ call'[t] = NoCall  BY <1>3, <2>3 DEF Returns
    <3>. QED  BY <3>1, <3>2 DEF SlotsStep
  <2>13. /\ ListsOk(ptr') /\ UsedOk(k', ptr', msgq') /\ FreshOk(call', msgq')
         /\ NodesOk(ptr', call')
    <3>1. ListsOk(ptr') /\ UsedOk(k', ptr', msgq')
      BY <1>1, <2>8 DEF QInv, UsedOk
    <3>2. \A u \in Thd : call'[u] # NoCall => call[u] # NoCall /\ call'[u] = call[u]
      BY <2>4 DEF Returned, InCall
    <3>. QED  BY <1>1, <3>1, <3>2 DEF QInv, FreshOk, NodesOk
  <2>14. msgq' \subseteq Msgq /\ bmq' = msgq' \cap Bmq  BY <1>1 DEF QInv
  <2>15. \A p \in Msgq : \A u \in Grantees(k', call', p) : call'[u].fresh  BY <2>9
  <2>. QED  BY <1>1, <2>8, <2>11, <2>12, <2>13, <2>14, <2>15, StepKeeps
<1>. QED  BY <1>6, <1>7

\* A FIFO that belongs to no queue changes.
LEMMA LoneKeeps ==
  ASSUME QInv, UNCHANGED <<k, rcv, got, msgq, bmq, call>>, ListsOk(ptr'),
         \A q \in Msgq : q \in ptr'.used <=> q \in ptr.used,
         \A q \in msgq : Nodes(ptr', q) = Nodes(ptr, q),
         \A t \in InCall(call) : call[t].node \cap Linked(ptr') = {}
  PROVE  QInv' /\ Balance
<1>1. IpcInv' /\ k'.panic = 0  BY DEF QInv, IpcInv, IInv
<1>2. UsedOk(k', ptr', msgq') /\ CallsOk(k', call') /\ FreshOk(call', msgq')
      /\ msgq' \subseteq Msgq /\ bmq' = msgq' \cap Bmq
  BY DEF QInv, UsedOk
<1>3. NodesOk(ptr', call')  BY DEF QInv, NodesOk, InCall
<1>4. \A q \in Msgq : \A t \in Grantees(k', call', q) : call'[t].fresh  BY InvFacts
<1>5. \A q \in msgq' : q \in msgq /\ Stranded(q)' = Stranded(q)  BY AtHolders
<1>6. SlotsStep
  <2>1. \A b \in bmq : b \in msgq  BY DEF QInv
  <2>2. \A b \in bmq : Accounted(b)' = Accounted(b)  BY <2>1, AtHolders
  <2>. QED  BY <2>2 DEF SlotsStep
<1>. QED  BY <1>1, <1>2, <1>3, <1>4, <1>5, <1>6, StepKeeps

\* RMP_Fifo_Crt, RMP_Fifo_Del, RMP_Fifo_Write and RMP_Fifo_Read
LEMMA FifoKeeps ==
  ASSUME QInv, FifoNext
  PROVE  QInv' /\ Balance
<1>1. PICK f \in Lone : \/ Fifo_Crt(f) \/ Fifo_Del(f) \/ Fifo_Read(f)
                        \/ \E n \in Node : Fifo_Write(f, n)
  BY DEF FifoNext
<1>2. /\ f \in Fifo /\ f \notin Msgq /\ ListsOk(ptr)
      /\ \A q \in msgq : q \in ptr.used \ {f} /\ q \in Msgq
  <2>1. f \in Fifo /\ f \notin Msgq /\ ListsOk(ptr)  BY DEF Lone, QInv
  <2>. QED  BY <2>1, QueueFacts
<1>3. \A t \in InCall(call) : call[t].node \cap Linked(ptr) = {}
  BY DEF QInv, NodesOk, InCall
<1>4. CASE Fifo_Crt(f)
  <2>1. /\ f \notin ptr.used /\ ptr' = Crt_Fifo(ptr, f)
        /\ UNCHANGED <<k, rcv, got, msgq, bmq, call>>
    BY <1>4 DEF Fifo_Crt, vars
  <2>2. /\ ListsOk(ptr') /\ ptr'.used = ptr.used \cup {f}
        /\ \A g \in ptr.used : Nodes(ptr', g) = Nodes(ptr, g)
        /\ Linked(ptr') = Linked(ptr)
    BY <1>2, <2>1, ListsCrt
  <2>. QED  BY <1>2, <1>3, <2>1, <2>2, LoneKeeps
<1>5. CASE Fifo_Del(f)
  <2>1. /\ f \in ptr.used /\ ptr.num[f] = 0 /\ ptr' = Del_Fifo(ptr, f)
        /\ UNCHANGED <<k, rcv, got, msgq, bmq, call>>
    BY <1>5 DEF Fifo_Del, vars
  <2>2. /\ ListsOk(ptr') /\ ptr'.used = ptr.used \ {f}
        /\ \A g \in ptr'.used : Nodes(ptr', g) = Nodes(ptr, g)
        /\ Linked(ptr') \subseteq Linked(ptr)
    BY <1>2, <2>1, ListsDel
  <2>. QED  BY <1>2, <1>3, <2>1, <2>2, LoneKeeps
<1>6. CASE Fifo_Read(f)
  <2>1. Readable(ptr, f) /\ f \in ptr.used  BY <1>6 DEF Fifo_Read, Readable
  <2>2. Nodes(ptr, f) # <<>>  BY <1>2, <2>1, ReadableNodes
  <2>3. ptr.num[f] # 0
    <3>1. Nodes(ptr, f) \in Seq(Node) /\ ptr.num[f] = Len(Nodes(ptr, f))
      BY <1>2, <2>1, ListFacts
    <3>. QED  BY <2>2, <3>1
  <2>4. ptr' = Read_Fifo(ptr, f) /\ UNCHANGED <<k, rcv, got, msgq, bmq, call>>
    BY <1>6, <2>3 DEF Fifo_Read, Read
  <2>5. /\ ListsOk(ptr') /\ ptr'.used = ptr.used
        /\ \A g \in ptr.used \ {f} : Nodes(ptr', g) = Nodes(ptr, g)
        /\ Linked(ptr') \subseteq Linked(ptr)
    BY <1>2, <2>1, <2>2, <2>4, ListsRead
  <2>. QED  BY <1>2, <1>3, <2>4, <2>5, LoneKeeps
<1>7. ASSUME NEW n \in Node, Fifo_Write(f, n)  PROVE QInv' /\ Balance
  <2>1. /\ f \in ptr.used /\ n \in Own /\ ptr' = Write_Fifo(ptr, f, n)
        /\ UNCHANGED <<k, rcv, got, msgq, bmq, call>>
    BY <1>7 DEF Fifo_Write, vars
  <2>2. n \notin Linked(ptr) /\ \A t \in InCall(call) : n \notin call[t].node
    BY <2>1, OwnNode
  <2>3. /\ ListsOk(ptr') /\ ptr'.used = ptr.used
        /\ \A g \in ptr.used \ {f} : Nodes(ptr', g) = Nodes(ptr, g)
        /\ Linked(ptr') = Linked(ptr) \cup {n}
    BY <1>2, <2>1, <2>2, ListsWrite
  <2>4. \A t \in InCall(call) : call[t].node \cap Linked(ptr') = {}
    BY <1>3, <2>2, <2>3
  <2>. QED  BY <1>2, <2>1, <2>3, <2>4, LoneKeeps
<1>. QED  BY <1>1, <1>4, <1>5, <1>6, <1>7

----------------------------------------------------------------------------
(* Beginning a call, and reading.                                          *)

\* A running thread gets to the step e of a call, past a semaphore.
LEMMA ChangeCall ==
  ASSUME QInv, NEW a \in Thd, k.state[a] = "RUNNING",
         NEW e, CallType(e), e.at \in {"send", "read", "post"},
         NEW c, Becomes(c, call, a, e)
  PROVE  /\ CallsOk(k, c) /\ c[a] = e /\ \A t \in Thd \ {a} : c[t] = call[t]
         /\ \A q : Grantees(k, c, q) =
               IF e.at = "read" /\ e.q = q THEN Grantees(k, call, q) \cup {a}
                                           ELSE Grantees(k, call, q) \ {a}
         /\ \A q : Slotted(k, c, q) =
               IF e.at # "read" /\ e.q = q /\ e.fresh THEN Slotted(k, call, q) \cup {a}
                                                      ELSE Slotted(k, call, q) \ {a}
<1>1. KInv(k) /\ CallsOk(k, call) /\ DOMAIN call = Thd  BY InvFacts
<1>2. c[a] = e /\ \A t \in Thd \ {a} : c[t] = call[t]  BY <1>1 DEF Becomes
<1>3. e # NoCall  BY QueueSems
<1>4. CallsOk(k, c)  BY <1>1, CallsChange DEF Becomes
<1>5. ASSUME NEW q, NEW S
      PROVE  Holders(k, c, q, S) = IF e.at \in S /\ e.q = q
                                   THEN Holders(k, call, q, S) \cup {a}
                                   ELSE Holders(k, call, q, S) \ {a}
  <2>1. a \in Holders(k, c, q, S) <=> e.at \in S /\ e.q = q
    BY <1>2, <1>3 DEF Holders
  <2>2. \A t \in Thd \ {a} : t \in Holders(k, c, q, S) <=> t \in Holders(k, call, q, S)
    BY <1>2 DEF Holders
  <2>3. Holders(k, c, q, S) \subseteq Thd /\ Holders(k, call, q, S) \subseteq Thd
    BY DEF Holders
  <2>. QED  BY <2>1, <2>2, <2>3
<1>6. ASSUME NEW q
      PROVE  Grantees(k, c, q) =
               IF e.at = "read" /\ e.q = q THEN Grantees(k, call, q) \cup {a}
                                           ELSE Grantees(k, call, q) \ {a}
  <2>1. e.at \in {"item", "read"} <=> e.at = "read"  OBVIOUS
  <2>. QED  BY <1>5, <2>1 DEF Grantees
<1>7. ASSUME NEW q
      PROVE  Slotted(k, c, q) =
               IF e.at # "read" /\ e.q = q /\ e.fresh THEN Slotted(k, call, q) \cup {a}
                                                      ELSE Slotted(k, call, q) \ {a}
  <2> DEFINE S == {"slot", "send", "post"}
             H == Holders(k, call, q, S)
             I == Holders(k, c, q, S)
  <2>1. e.at \in S <=> e.at # "read"  OBVIOUS
  <2>2. /\ Slotted(k, c, q) = {t \in I : c[t].fresh}
        /\ Slotted(k, call, q) = {t \in H : call[t].fresh}
        /\ H \subseteq Thd
    BY DEF Slotted, Holders
  <2>3. I = IF e.at # "read" /\ e.q = q THEN H \cup {a} ELSE H \ {a}
    BY <1>5, <2>1
  <2> HIDE DEF H, I
  <2>4. \A t : t \in Slotted(k, c, q) <=> t \in I /\ c[t].fresh  BY <2>2
  <2>5. \A t : t \in Slotted(k, call, q) <=> t \in H /\ call[t].fresh  BY <2>2
  <2>6. CASE e.at # "read" /\ e.q = q
    <3>1. I = H \cup {a}  BY <2>3, <2>6
    <3>2. \A t : t # a /\ t \in H => c[t] = call[t]  BY <1>2, <2>2
    <3>3. CASE e.fresh
      <4>1. \A t : t \in Slotted(k, c, q) <=> t \in Slotted(k, call, q) \cup {a}
        BY <1>2, <2>4, <2>5, <3>1, <3>2, <3>3
      <4>. QED  BY <2>6, <3>3, <4>1
    <3>4. CASE ~e.fresh
      <4>1. ASSUME NEW t
            PROVE  t \in Slotted(k, c, q) <=> t \in Slotted(k, call, q) \ {a}
        <5>1. CASE t = a
          <6>1. ~c[t].fresh  BY <1>2, <3>4, <5>1
          <6>. QED  BY <2>4, <5>1, <6>1
        <5>2. CASE t # a
          <6>1. t \in I <=> t \in H  BY <3>1, <5>2
          <6>2. t \in H => c[t] = call[t]  BY <3>2, <5>2
          <6>3. t \in Slotted(k, c, q) <=> t \in Slotted(k, call, q)
            BY <2>4, <2>5, <6>1, <6>2
          <6>. QED  BY <5>2, <6>3
        <5>. QED  BY <5>1, <5>2
      <4>. QED  BY <3>4, <4>1
    <3>. QED  BY <3>3, <3>4
  <2>7. CASE ~(e.at # "read" /\ e.q = q)
    <3>1. I = H \ {a}  BY <2>3, <2>7
    <3>2. \A t : t # a /\ t \in H => c[t] = call[t]  BY <1>2, <2>2
    <3>3. \A t : t \in Slotted(k, c, q) <=> t \in Slotted(k, call, q) \ {a}
      BY <2>4, <2>5, <3>1, <3>2
    <3>. QED  BY <2>7, <3>3
  <2>. QED  BY <2>6, <2>7
<1>. QED  BY <1>2, <1>4, <1>6, <1>7

\* RMP_Bmq_Snd and RMP_Msgq_Rcv up to their pend: the current thread takes
\* the semaphore x and is past it, or waits for it.
LEMMA EnterKeeps ==
  ASSUME QInv, User, call[k.cur] = NoCall,
         NEW e, CallType(e), e.at # "post", e.fresh, e.q \in msgq, e.node \subseteq Own,
         call' = [call EXCEPT ![k.cur] = e],
         NEW x, x = (IF e.at \in {"slot", "send"} THEN Slots(e.q) ELSE Items(e.q)),
         NEW w \in Waits, k' = Pend_Core(k, x, w),
         k.num[x] = 0 => MayBlock /\ w # 0 /\ e.at \in {"slot", "item"},
         k.num[x] # 0 => e.at \in {"send", "read"},
         UNCHANGED <<rcv, got, msgq, bmq, ptr>>
  PROVE  QInv' /\ Balance
<1> DEFINE a == k.cur
           q == e.q
<1>1. /\ IpcInv /\ KInv(k) /\ CallsOk(k, call) /\ DOMAIN call = Thd /\ a \in Thd
      /\ k.state[a] = "RUNNING" /\ k.panic = 0
  BY InvFacts
<1>2. e # NoCall /\ (e.at \in {"slot", "send"} => q \in Bmq)
      /\ e.at \in {"slot", "send", "item", "read"}
  <2>1. e \in Call /\ e # NoCall  BY QueueSems
  <2>2. e.at \in {"slot", "send", "item", "read", "post"}  BY <2>1 DEF Call
  <2>. QED  BY <2>1, <2>2 DEF CallType
<1>3. x \in QueueSem /\ x \in k.used /\ q \in Msgq
  BY <1>2, QueueFacts, QueueSems
<1>4. w \in Word  BY CoreAssumption
<1>5. call'[a] = e /\ \A t \in Thd \ {a} : call'[t] = call[t]  BY <1>1
<1>6. FreshOk(call', msgq')
  <2>1. \A t \in Thd : call'[t] # NoCall /\ call'[t].fresh => call'[t].q \in msgq
    BY <1>5 DEF QInv, FreshOk
  <2>. QED  BY <2>1 DEF FreshOk
<1>7. NodesOk(ptr', call')
  <2>1. \A n \in e.node : n \notin Linked(ptr) /\ \A t \in InCall(call) : n \notin call[t].node
    BY OwnNode
  <2>2. \A t \in Thd \ {a} : call'[t] # NoCall =>
           t \in InCall(call) /\ call'[t] = call[t]
    BY <1>5 DEF InCall
  <2>3. \A t \in Thd : call'[t] # NoCall => call'[t].node \cap Linked(ptr) = {}
    BY <1>5, <2>1, <2>2 DEF QInv, NodesOk
  <2>4. \A t \in Thd \ {a} : call'[t] # NoCall => call'[t].node \cap e.node = {}
    BY <2>1, <2>2
  <2>5. \A t, u \in Thd : t # u /\ call'[t] # NoCall /\ call'[u] # NoCall =>
           call'[t].node \cap call'[u].node = {}
    <3> TAKE t \in Thd, u \in Thd
    <3>1. CASE t = a  BY <1>5, <2>4, <3>1
    <3>2. CASE u = a  BY <1>5, <2>4, <3>2
    <3>3. CASE t # a /\ u # a  BY <1>5, <3>3 DEF QInv, NodesOk
    <3>. QED  BY <3>1, <3>2, <3>3
  <2>. QED  BY <2>3, <2>5 DEF NodesOk
<1>8. /\ ListsOk(ptr') /\ msgq' \subseteq Msgq /\ bmq' = msgq' \cap Bmq
      /\ \A b \in bmq : b \in Bmq /\ b \in msgq
  BY DEF QInv
<1>9. CASE k.num[x] = 0
  <2>1. MayBlock /\ w # 0 /\ e.at \in {"slot", "item"}  BY <1>9
  <2>2. Wants(e) = x  BY <2>1 DEF Wants
  <2> HIDE DEF a
  <2>3. /\ IpcInv' /\ k'.panic = k.panic /\ k'.num = k.num /\ k'.used = k.used
        /\ k'.state[a] \in Pending
        /\ \A t \in Thd \ {a} : k'.state[t] = k.state[t] /\ k'.retval[t] = k.retval[t]
        /\ \A y \in Sem : ToSet(k'.wait[y]) = IF y = x THEN ToSet(k.wait[x]) \cup {a}
                                                       ELSE ToSet(k.wait[y])
    BY <1>1, <1>3, <1>4, <1>9, <2>1, PendBlocks DEF a
  <2>4. KInv(k')  BY <2>3, SafeInner DEF IpcInv, IInv
  <2>5. CallsOk(k', call') /\ SameHolders(k', call', k, call)
    <3>1. call[a] = NoCall /\ Becomes(call', call, a, e)  BY DEF a, Becomes
    <3>2. Blocks(k', k, a, Wants(e))  BY <2>2, <2>3 DEF Blocks
    <3>. QED  BY <1>1, <2>1, <2>4, <3>1, <3>2, CallsBlock
  <2>6. \A p : Grantees(k', call', p) = Grantees(k, call, p)
    BY <2>5 DEF SameHolders, Grantees
  <2>7. ASSUME NEW p  PROVE Slotted(k', call', p) = Slotted(k, call, p)
    <3> DEFINE H == Holders(k, call, p, {"slot", "send", "post"})
    <3>1. \A t \in H : t \in Thd \ {a}  BY DEF Holders, a
    <3>2. Slotted(k', call', p) = {t \in H : call'[t].fresh}  BY <2>5 DEF SameHolders, Slotted
    <3>3. Slotted(k, call, p) = {t \in H : call[t].fresh}  BY DEF Slotted
    <3> HIDE DEF H
    <3>4. \A t \in H : call'[t] = call[t]  BY <1>5, <3>1
    <3>. QED  BY <3>2, <3>3, <3>4
  <2>8. UsedOk(k', ptr', msgq')  BY <2>3 DEF QInv, UsedOk
  <2>9. \A p \in Msgq : \A t \in Grantees(k', call', p) : call'[t].fresh
    <3>1. \A p : \A t \in Grantees(k, call, p) : t \in Thd \ {a} /\ call[t].fresh
      <4>1. \A p : \A t \in Grantees(k, call, p) : t \in InCall(call) /\ call[t].fresh
        BY InvFacts
      <4>. QED  BY <4>1 DEF InCall, a
    <3>. QED  BY <1>5, <2>6, <3>1
  <2>10. \A p \in msgq : Stranded(p)' = Stranded(p)  BY <2>3, <2>6, AtHolders
  <2>11. SlotsStep
    <3>1. \A b \in bmq : Accounted(b)' = Accounted(b)  BY <2>3, <2>7, AtHolders
    <3>. QED  BY <3>1 DEF SlotsStep
  <2>12. k'.panic = 0  BY <1>1, <2>3
  <2>. QED  BY <1>6, <1>7, <1>8, <2>3, <2>5, <2>8, <2>9, <2>10, <2>11, <2>12, StepKeeps
<1>10. CASE k.num[x] # 0
  <2>1. e.at \in {"send", "read"}  BY <1>10
  <2> DEFINE c == call'
  <2>2. Becomes(c, call, a, e)  BY DEF Becomes
  <2> HIDE DEF c
  <2>3. /\ CallsOk(k, c)
        /\ \A p : Grantees(k, c, p) =
              IF e.at = "read" /\ e.q = p THEN Grantees(k, call, p) \cup {a}
                                          ELSE Grantees(k, call, p) \ {a}
        /\ \A p : Slotted(k, c, p) =
              IF e.at # "read" /\ e.q = p /\ e.fresh THEN Slotted(k, call, p) \cup {a}
                                                     ELSE Slotted(k, call, p) \ {a}
    BY <1>1, <2>1, <2>2, ChangeCall
  <2>4. \A p : a \notin Grantees(k, call, p) /\ a \notin Slotted(k, call, p)
    BY DEF Grantees, Slotted, Holders
  <2>5. /\ IpcInv' /\ Moves(k', k, Thd, {})
        /\ k'.num[x] = k.num[x] - 1 /\ \A y \in QueueSem \ {x} : k'.num[y] = k.num[y]
        /\ k'.used = k.used /\ k'.state = k.state /\ k'.retval = k.retval
    BY <1>1, <1>3, <1>10, PendTakes
  <2>6. KInv(k') /\ k'.panic = 0
    BY <1>1, <2>5, SafeInner DEF IpcInv, IInv, Moves
  <2>7. CallsOk(k', c) /\ SameHolders(k', c, k, c)
    BY <1>1, <2>3, <2>5, <2>6, CallsStill
  <2>8. \A p : /\ Grantees(k', c, p) = Grantees(k, c, p)
               /\ Slotted(k', c, p) = Slotted(k, c, p)
    BY <2>7 DEF SameHolders, Grantees, Slotted
  <2>9. UsedOk(k', ptr', msgq')  BY <2>5 DEF QInv, UsedOk
  <2>10. \A p \in Msgq : \A t \in Grantees(k', c, p) : c[t].fresh
    <3>1. \A p : \A t \in Grantees(k', c, p) : t = a \/ t \in Grantees(k, call, p)
      BY <2>3, <2>8
    <3>2. \A p : \A t \in Grantees(k, call, p) : t \in Thd /\ call[t].fresh
      BY InvFacts DEF InCall
    <3>. QED  BY <1>5, <3>1, <3>2 DEF c
  <2>11. ASSUME NEW p \in msgq  PROVE Stranded(p)' = Stranded(p)
    <3>1. p \in Msgq  BY QueueFacts
    <3>2. CASE Items(p) # x
      <4>1. k'.num[Items(p)] = k.num[Items(p)]  BY <2>5, <3>1, <3>2, QueueSems
      <4>2. ~(e.at = "read" /\ e.q = p)  BY <3>2
      <4>3. Grantees(k', c, p) = Grantees(k, call, p)  BY <2>3, <2>4, <2>8, <4>2
      <4>. QED  BY <4>1, <4>3, AtHolders DEF c
    <3>3. CASE Items(p) = x
      <4>1. e.at = "read" /\ e.q = p  BY <2>1, <3>3, QueueSems
      <4> DEFINE H == Grantees(k, call, p)
      <4>2. Grantees(k', c, p) = H \cup {a}  BY <2>3, <2>8, <4>1
      <4>3. H \subseteq Thd /\ a \notin H  BY <2>4, AtHolders
      <4>4. Stranded(p) = Len(Nodes(ptr, p)) - k.num[x] - Cardinality(H)
        BY <3>3, AtHolders
      <4>5. Stranded(p)' = Len(Nodes(ptr, p)) - k'.num[x] - Cardinality(H \cup {a})
        BY <3>3, <4>2, AtHolders DEF c
      <4>6. k.num[x] \in Nat /\ Cardinality(H) \in Nat /\ Len(Nodes(ptr, p)) \in Nat
        BY <3>3, QueueFacts
      <4> HIDE DEF H
      <4>7. Cardinality(H \cup {a}) = Cardinality(H) + 1  BY <1>1, <4>3, ThdCards
      <4>8. k'.num[x] = k.num[x] - 1  BY <2>5
      <4> DEFINE K == k.num[x]
                 L == Len(Nodes(ptr, p))
                 C == Cardinality(H)
      <4>9. /\ Stranded(p) = L - K - C /\ Stranded(p)' = L - (K - 1) - (C + 1)
            /\ K \in Nat /\ L \in Nat /\ C \in Nat
        BY <4>4, <4>5, <4>6, <4>7, <4>8
      <4> HIDE DEF K, L, C
      <4>. QED  BY <4>9
    <3>. QED  BY <3>2, <3>3
  <2>12. SlotsStep
    <3>1. ASSUME NEW b \in bmq  PROVE Accounted(b)' = Accounted(b)
      <4>1. b \in Bmq /\ b \in msgq  BY <1>8
      <4>2. CASE Slots(b) # x
        <5>1. k'.num[Slots(b)] = k.num[Slots(b)]  BY <2>5, <4>1, <4>2, QueueSems
        <5>2. ~(e.at # "read" /\ e.q = b)  BY <2>1, <4>2
        <5>3. Slotted(k', c, b) = Slotted(k, call, b)  BY <2>3, <2>4, <2>8, <5>2
        <5>. QED  BY <5>1, <5>3, AtHolders DEF c
      <4>3. CASE Slots(b) = x
        <5>1. e.at # "read" /\ e.q = b  BY <2>1, <4>3, QueueSems
        <5> DEFINE H == Slotted(k, call, b)
        <5>2. Slotted(k', c, b) = H \cup {a}  BY <2>3, <2>8, <5>1
        <5>3. H \subseteq Thd /\ a \notin H  BY <2>4, AtHolders
        <5>4. Accounted(b) = k.num[x] + Len(Nodes(ptr, b)) + Cardinality(H)
          BY <4>3, AtHolders
        <5>5. Accounted(b)' = k'.num[x] + Len(Nodes(ptr, b)) + Cardinality(H \cup {a})
          BY <4>3, <5>2, AtHolders DEF c
        <5>6. k.num[x] \in Nat /\ Cardinality(H) \in Nat /\ Len(Nodes(ptr, b)) \in Nat
          BY <4>1, <4>3, QueueFacts
        <5> HIDE DEF H
        <5>7. Cardinality(H \cup {a}) = Cardinality(H) + 1  BY <1>1, <5>3, ThdCards
        <5>8. k'.num[x] = k.num[x] - 1  BY <2>5
        <5> DEFINE K == k.num[x]
                   L == Len(Nodes(ptr, b))
                   C == Cardinality(H)
        <5>9. /\ Accounted(b) = K + L + C /\ Accounted(b)' = (K - 1) + L + (C + 1)
              /\ K \in Nat /\ L \in Nat /\ C \in Nat
          BY <5>4, <5>5, <5>6, <5>7, <5>8
        <5> HIDE DEF K, L, C
        <5>. QED  BY <5>9
      <4>. QED  BY <4>2, <4>3
    <3>. QED  BY <3>1 DEF SlotsStep
  <2>. QED  BY <1>6, <1>7, <1>8, <2>5, <2>6, <2>7, <2>9, <2>10, <2>11, <2>12, StepKeeps DEF c
<1>. QED  BY <1>9, <1>10

\* RMP_Bmq_Snd up to its RMP_Sem_Pend
LEMMA BmqSndKeeps ==
  ASSUME QInv, NEW b, NEW n, NEW w \in Waits, Bmq_Snd(b, n, w)
  PROVE  QInv' /\ Balance
<1> DEFINE at == IF k.num[Slots(b)] = 0 THEN "slot" ELSE "send"
           e == [at |-> at, q |-> b, node |-> {n}, fresh |-> TRUE]
<1>1. /\ User /\ call[k.cur] = NoCall /\ b \in bmq /\ n \in Own
      /\ k.num[Slots(b)] = 0 => MayBlock /\ w # 0
      /\ k' = Pend_Core(k, Slots(b), w)
      /\ UNCHANGED <<rcv, got, msgq, bmq, ptr>>
  BY DEF Bmq_Snd, Begin
<1>2. call' = [call EXCEPT ![k.cur] = e]  BY DEF Bmq_Snd, Enter
<1>3. /\ at \in {"slot", "send"}
      /\ k.num[Slots(b)] = 0 => at = "slot"
      /\ k.num[Slots(b)] # 0 => at = "send"
  OBVIOUS
<1>4. b \in msgq /\ b \in Bmq /\ b \in Msgq /\ n \in Node
  BY <1>1, OwnNode DEF QInv
<1> HIDE DEF at
<1>5. e \in Call /\ CallType(e) /\ e.at = at /\ e.q = b /\ e.node = {n} /\ e.fresh
  BY <1>3, <1>4 DEF Call, CallType
<1> HIDE DEF e
<1>6. Slots(b) = IF e.at \in {"slot", "send"} THEN Slots(e.q) ELSE Items(e.q)
  BY <1>3, <1>5
<1> DEFINE x == Slots(b)
<1>7. /\ e.at # "post" /\ e.q \in msgq /\ e.node \subseteq Own
      /\ x = IF e.at \in {"slot", "send"} THEN Slots(e.q) ELSE Items(e.q)
      /\ k.num[x] = 0 => MayBlock /\ w # 0 /\ e.at \in {"slot", "item"}
      /\ k.num[x] # 0 => e.at \in {"send", "read"}
      /\ k' = Pend_Core(k, x, w)
  BY <1>1, <1>3, <1>4, <1>5, <1>6
<1> HIDE DEF x
<1>. QED  BY <1>1, <1>2, <1>5, <1>7, EnterKeeps

\* RMP_Msgq_Rcv up to its RMP_Sem_Pend_Unlock
LEMMA MsgqRcvKeeps ==
  ASSUME QInv, NEW q, NEW w \in Waits, Msgq_Rcv(q, w)
  PROVE  QInv' /\ Balance
<1> DEFINE at == IF k.num[Items(q)] = 0 THEN "item" ELSE "read"
           e == [at |-> at, q |-> q, node |-> {}, fresh |-> TRUE]
<1>1. /\ User /\ call[k.cur] = NoCall /\ q \in msgq
      /\ k.num[Items(q)] = 0 => MayBlock /\ w # 0
      /\ k' = Pend_Core(k, Items(q), w)
      /\ UNCHANGED <<rcv, got, msgq, bmq, ptr>>
  BY DEF Msgq_Rcv, Begin
<1>2. call' = [call EXCEPT ![k.cur] = e]  BY DEF Msgq_Rcv, Enter
<1>3. /\ at \in {"item", "read"}
      /\ k.num[Items(q)] = 0 => at = "item"
      /\ k.num[Items(q)] # 0 => at = "read"
  OBVIOUS
<1>4. q \in Msgq  BY <1>1, QueueFacts
<1> HIDE DEF at
<1>5. e \in Call /\ CallType(e) /\ e.at = at /\ e.q = q /\ e.node = {} /\ e.fresh
  BY <1>3, <1>4 DEF Call, CallType
<1> HIDE DEF e
<1>6. Items(q) = IF e.at \in {"slot", "send"} THEN Slots(e.q) ELSE Items(e.q)
  BY <1>3, <1>5
<1> DEFINE x == Items(q)
<1>7. /\ e.at # "post" /\ e.q \in msgq /\ e.node \subseteq Own
      /\ x = IF e.at \in {"slot", "send"} THEN Slots(e.q) ELSE Items(e.q)
      /\ k.num[x] = 0 => MayBlock /\ w # 0 /\ e.at \in {"slot", "item"}
      /\ k.num[x] # 0 => e.at \in {"send", "read"}
      /\ k' = Pend_Core(k, x, w)
  BY <1>1, <1>3, <1>5, <1>6
<1> HIDE DEF x
<1>. QED  BY <1>1, <1>2, <1>5, <1>7, EnterKeeps

\* RMP_Msgq_Rcv reads the FIFO: there is a node, since the thread was granted
\* one, and a receiver of a blocking queue now has a slot to give back.
LEMMA MsgqRcvReadKeeps ==
  ASSUME QInv, NEW t \in Thd, Msgq_Rcv_Read(t)
  PROVE  QInv' /\ Balance
<1> DEFINE q == call[t].q
<1>1. /\ User /\ t = k.cur /\ call[t].at \in {"item", "read"}
      /\ call[t].at = "item" => k.retval[t] = "ok"
      /\ UNCHANGED <<rcv, got, msgq, bmq>>
  BY DEF Msgq_Rcv_Read, Resume, Awoken
<1>2. /\ Within(k, rcv) /\ KInv(k) /\ CallsOk(k, call) /\ DOMAIN call = Thd
      /\ k.state[t] = "RUNNING" /\ k.panic = 0 /\ t \in InCall(call)
  BY <1>1, InvFacts DEF NoCall, InCall
<1>3. call[t] # NoCall /\ CallType(call[t]) /\ call[t] \in Call /\ q \in Msgq
  BY <1>2, CallFacts, QueueSems
<1>4. \A p : t \in Grantees(k, call, p) <=> p = q
  BY <1>1, <1>2, <1>3 DEF Grantees, Holders
<1>5. call[t].fresh /\ q \in msgq  BY <1>4, InvFacts
<1>6. q \in ptr.used /\ Nodes(ptr, q) # <<>> /\ ptr.num[q] # 0
  <2> DEFINE l == Len(Nodes(ptr, q))
             h == Cardinality(Grantees(k, call, q))
             i == k.num[Items(q)]
  <2>1. /\ q \in ptr.used /\ i \in Nat /\ l \in Nat /\ h \in Nat
        /\ i + h <= l /\ ptr.num[q] = l
    BY <1>5, QueueFacts
  <2>2. h # 0  BY <1>4, AtHolders, ThdCards
  <2>3. l # 0
    <3> HIDE DEF l, h, i
    <3>. QED  BY <2>1, <2>2
  <2>4. Nodes(ptr, q) # <<>>  BY <2>3
  <2>. QED  BY <2>1, <2>3, <2>4
<1>7. Readable(ptr, q)  BY <1>6, ReadableNodes DEF QInv
<1>8. /\ UNCHANGED <<k, rcv, got, msgq, bmq>> /\ ptr' = Read_Fifo(ptr, q)
      /\ IF q \in Bmq THEN Proceed(t, "post") ELSE Return(t)
  BY <1>1, <1>6, <1>7 DEF Msgq_Rcv_Read, Read
<1>9. /\ ListsOk(ptr') /\ ptr'.used = ptr.used
      /\ \A g \in ptr.used \ {q} : Nodes(ptr', g) = Nodes(ptr, g)
      /\ Linked(ptr') \subseteq Linked(ptr)
      /\ Len(Nodes(ptr', q)) = Len(Nodes(ptr, q)) - 1
  <2>1. ListsOk(ptr)  BY DEF QInv
  <2> HIDE DEF q
  <2>. QED  BY <1>6, <1>8, <2>1, ListsRead
<1>10. \A p : t \notin Slotted(k, call, p)  BY <1>1 DEF Slotted, Holders
<1>11. /\ CallsOk(k, call')
       /\ \A p : Grantees(k, call', p) = Grantees(k, call, p) \ {t}
       /\ \A p : Slotted(k, call', p) = IF p = q /\ q \in Bmq
                                        THEN Slotted(k, call, p) \cup {t}
                                        ELSE Slotted(k, call, p)
       /\ \A u \in Thd : call'[u] # NoCall =>
             /\ call[u] # NoCall /\ call'[u].node \subseteq call[u].node
             /\ call'[u].q = call[u].q /\ call'[u].fresh = call[u].fresh
  <2>1. CASE q \notin Bmq
    <3>1. call' = [call EXCEPT ![t] = NoCall]  BY <1>8, <2>1 DEF Return
    <3>2. Returns(t, call')  BY <1>2, <3>1 DEF Returns
    <3>3. CallsOk(k, call')  BY <1>2, <3>1, CallsChange
    <3>4. \A p : Grantees(k, call', p) = Grantees(k, call, p) \ {t}
      BY <3>2, ReturnOne
    <3>5. \A p : Slotted(k, call', p) = Slotted(k, call, p)
      BY <1>10, <3>2, ReturnOne
    <3>6. \A u \in Thd : call'[u] # NoCall => call[u] # NoCall /\ call'[u] = call[u]
      BY <3>2 DEF Returns
    <3>. QED  BY <2>1, <3>3, <3>4, <3>5, <3>6
  <2>2. CASE q \in Bmq
    <3> DEFINE e == [[call[t] EXCEPT !.at = "post"] EXCEPT !.node = {}]
    <3>1. call' = [call EXCEPT ![t] = e]
      <4>1. call' = [call EXCEPT ![t].at = "post", ![t].node = {}]
        BY <1>8, <2>2 DEF Proceed
      <4>. QED  BY <1>2, <4>1
    <3>2. e \in Call /\ e.at = "post" /\ e.node = {} /\ e.q = q /\ e.fresh = call[t].fresh
      BY <1>3 DEF Call
    <3> HIDE DEF e
    <3>3. CallType(e) /\ Becomes(call', call, t, e)
      BY <2>2, <3>1, <3>2 DEF CallType, Becomes
    <3>4. /\ CallsOk(k, call') /\ call'[t] = e /\ \A u \in Thd \ {t} : call'[u] = call[u]
          /\ \A p : Grantees(k, call', p) =
                IF e.at = "read" /\ e.q = p THEN Grantees(k, call, p) \cup {t}
                                            ELSE Grantees(k, call, p) \ {t}
          /\ \A p : Slotted(k, call', p) =
                IF e.at # "read" /\ e.q = p /\ e.fresh THEN Slotted(k, call, p) \cup {t}
                                                       ELSE Slotted(k, call, p) \ {t}
      <4>1. e.at \in {"send", "read", "post"}  BY <3>2
      <4>. QED  BY <1>2, <3>3, <4>1, ChangeCall
    <3>5. \A p : Grantees(k, call', p) = Grantees(k, call, p) \ {t}  BY <3>2, <3>4
    <3>6. ASSUME NEW p
          PROVE  Slotted(k, call', p) = IF p = q /\ q \in Bmq
                                        THEN Slotted(k, call, p) \cup {t}
                                        ELSE Slotted(k, call, p)
      <4>1. Slotted(k, call, p) \ {t} = Slotted(k, call, p)  BY <1>10
      <4>2. e.at # "read" /\ e.fresh  BY <1>5, <3>2
      <4>3. e.q = q  BY <3>2
      <4>4. Slotted(k, call', p) =
                IF e.q = p THEN Slotted(k, call, p) \cup {t}
                           ELSE Slotted(k, call, p) \ {t}
        BY <3>4, <4>2
      <4>. QED  BY <2>2, <4>1, <4>3, <4>4
    <3>7. ASSUME NEW u \in Thd, call'[u] # NoCall
          PROVE  /\ call[u] # NoCall /\ call'[u].node \subseteq call[u].node
                 /\ call'[u].q = call[u].q /\ call'[u].fresh = call[u].fresh
      <4>1. CASE u = t  BY <1>3, <3>2, <3>4, <4>1
      <4>2. CASE u # t  BY <3>4, <3>7, <4>2
      <4>. QED  BY <4>1, <4>2
    <3>. QED  BY <3>4, <3>5, <3>6, <3>7
  <2>. QED  BY <2>1, <2>2
<1>12. FreshOk(call', msgq') /\ NodesOk(ptr', call')
  <2>1. FreshOk(call', msgq')  BY <1>1, <1>11 DEF QInv, FreshOk
  <2>2. \A u \in Thd : call'[u] # NoCall => call'[u].node \cap Linked(ptr') = {}
    BY <1>9, <1>11 DEF QInv, NodesOk
  <2>3. ASSUME NEW u \in Thd, NEW v \in Thd, u # v, call'[u] # NoCall, call'[v] # NoCall
        PROVE  call'[u].node \cap call'[v].node = {}
    <3>1. /\ call'[u].node \subseteq call[u].node /\ call'[v].node \subseteq call[v].node
          /\ call[u] # NoCall /\ call[v] # NoCall
      BY <1>11, <2>3
    <3>2. call[u].node \cap call[v].node = {}  BY <2>3, <3>1 DEF QInv, NodesOk
    <3>. QED  BY <3>1, <3>2
  <2>. QED  BY <2>1, <2>2, <2>3 DEF NodesOk
<1>13. \A p \in Msgq : \A u \in Grantees(k', call', p) : call'[u].fresh
  <2>1. ASSUME NEW p \in Msgq, NEW u \in Grantees(k', call', p)  PROVE call'[u].fresh
    <3>1. u \in Grantees(k, call, p) /\ u # t  BY <1>8, <1>11
    <3>2. u \in Thd /\ call[u].fresh  BY <3>1, InvFacts DEF InCall
    <3>3. call'[u] # NoCall  BY <2>1 DEF Grantees, Holders
    <3>. QED  BY <1>11, <3>2, <3>3
  <2>. QED  BY <2>1
<1>14. ASSUME NEW p \in msgq  PROVE Stranded(p)' = Stranded(p)
  <2>1. CASE p # q
    <3>1. p \in ptr.used  BY QueueFacts
    <3>2. Nodes(ptr', p) = Nodes(ptr, p)  BY <1>9, <2>1, <3>1
    <3>3. Grantees(k', call', p) = Grantees(k, call, p)
      <4>1. t \notin Grantees(k, call, p)  BY <1>4, <2>1
      <4>. QED  BY <1>8, <1>11, <4>1
    <3>. QED  BY <1>8, <3>2, <3>3, AtHolders
  <2>2. CASE p = q
    <3> DEFINE H == Grantees(k, call, p)
               l == Len(Nodes(ptr, p))
               h == Cardinality(H)
               i == k.num[Items(p)]
    <3>1. l \in Nat /\ h \in Nat /\ i \in Nat  BY QueueFacts
    <3>2. Grantees(k', call', p) = H \ {t}  BY <1>8, <1>11
    <3>3. Stranded(p) = l - i - h  BY AtHolders
    <3>4. Stranded(p)' = (l - 1) - i - Cardinality(H \ {t})
      BY <1>8, <1>9, <2>2, <3>2, AtHolders
    <3>5. t \in H /\ H \subseteq Thd  BY <1>4, <2>2, AtHolders
    <3> HIDE DEF H, l, i
    <3>6. Cardinality(H \ {t}) = h - 1  BY <3>5, ThdCards
    <3> HIDE DEF h
    <3>. QED  BY <3>1, <3>3, <3>4, <3>6
  <2>. QED  BY <2>1, <2>2
<1>15. ASSUME NEW b \in bmq  PROVE Accounted(b)' = Accounted(b)
  <2>1. b \in msgq /\ b \in Bmq  BY DEF QInv
  <2>2. CASE b # q
    <3>1. b \in ptr.used  BY <2>1, QueueFacts
    <3>2. Nodes(ptr', b) = Nodes(ptr, b)  BY <1>9, <2>2, <3>1
    <3>3. Slotted(k', call', b) = Slotted(k, call, b)  BY <1>8, <1>11, <2>2
    <3>. QED  BY <1>8, <3>2, <3>3, AtHolders
  <2>3. CASE b = q
    <3> DEFINE H == Slotted(k, call, b)
               l == Len(Nodes(ptr, b))
               h == Cardinality(H)
               i == k.num[Slots(b)]
    <3>1. l \in Nat /\ h \in Nat /\ i \in Nat  BY <2>1, QueueFacts
    <3>2. Slotted(k', call', b) = H \cup {t}  BY <1>8, <1>11, <2>1, <2>3
    <3>3. Accounted(b) = i + l + h  BY AtHolders
    <3>4. Accounted(b)' = i + (l - 1) + Cardinality(H \cup {t})
      BY <1>8, <1>9, <2>3, <3>2, AtHolders
    <3>5. t \notin H /\ H \subseteq Thd  BY <1>10, AtHolders
    <3> HIDE DEF H, l, i
    <3>6. Cardinality(H \cup {t}) = h + 1  BY <3>5, ThdCards
    <3> HIDE DEF h
    <3>. QED  BY <3>1, <3>3, <3>4, <3>6
  <2>. QED  BY <2>2, <2>3
<1>16. SlotsStep  BY <1>15 DEF SlotsStep
<1>17. /\ IpcInv' /\ k'.panic = 0 /\ msgq' \subseteq Msgq /\ bmq' = msgq' \cap Bmq
       /\ UsedOk(k', ptr', msgq') /\ CallsOk(k', call')
  BY <1>2, <1>8, <1>9, <1>11 DEF QInv, IpcInv, IInv, UsedOk
<1>18. \A p \in msgq' : p \in msgq /\ Stranded(p)' = Stranded(p)  BY <1>1, <1>14
<1>. QED  BY <1>9, <1>12, <1>13, <1>16, <1>17, <1>18, StepKeeps

----------------------------------------------------------------------------
(* The invariant and what follows from it.                                 *)

\* What a step promises a sender that has a slot.
SendStep ==
    \A t \in Thd :
       Bmq_Snd_Msgq(t) /\ call[t].fresh /\ Accounted(call[t].q) <= Limit =>
          \E n \in call[t].node :
             LET q == call[t].q
             IN  Nodes(ptr', q) = Append(Nodes(ptr, q), n)

\* No queue, no FIFO and no call: the invariant holds at boot.
LEMMA QueueBoot == QueueInit => QInv
<1> SUFFICES ASSUME QueueInit  PROVE QInv
  OBVIOUS
<1>1. /\ Init /\ msgq = {} /\ bmq = {}
      /\ ptr = [next |-> [c \in Cell |-> c], prev |-> [c \in Cell |-> c],
                num |-> [f \in Fifo |-> 0], used |-> {}]
      /\ call = [t \in Thd |-> NoCall]
  BY DEF QueueInit
<1>2. IpcInv  BY <1>1, InitSafe, InitIpc DEF IpcInv
<1>3. k.panic = 0 /\ k.used = {} /\ k.wait = [x \in Sem |-> <<>>]
  BY <1>1 DEF Init, Boot
<1>4. ptr \in Pointers /\ ptr.used = {}
  BY <1>1 DEF Pointers, Cell
<1>5. ListsOk(ptr) /\ Linked(ptr) = {}  BY <1>4 DEF ListsOk, Linked
<1>6. UsedOk(k, ptr, msgq)  BY <1>1, <1>3, <1>4 DEF UsedOk
<1>7. \A t \in Thd : call[t] = NoCall  BY <1>1
<1>8. CallsOk(k, call)
  <2>1. DOMAIN call = Thd  BY <1>1
  <2>2. \A x \in QueueSem : ToSet(k.wait[x]) = {}
    BY <1>3, QueueSems, EmptySet DEF ToSet
  <2>. QED  BY <1>7, <2>1, <2>2 DEF CallsOk
<1>9. FreshOk(call, msgq) /\ NodesOk(ptr, call)
  BY <1>7 DEF FreshOk, NodesOk
<1>10. GrantsOk(k, call, ptr, msgq)  BY <1>1, <1>7 DEF GrantsOk, Holders
<1>. QED  BY <1>1, <1>2, <1>3, <1>5, <1>6, <1>8, <1>9, <1>10 DEF QInv

\* Every call on a queue keeps the invariant, and what the queues promise of
\* a step.
LEMMA QueueKeeps ==
  ASSUME QInv, QueueNext
  PROVE  QInv' /\ Balance
<1>1. CASE \E q \in Msgq \ Bmq : Msgq_Crt(q) \/ Msgq_Del(q)
  BY <1>1, MsgqCrtKeeps, MsgqDelKeeps
<1>2. CASE \E b \in Bmq : Bmq_Crt(b) \/ Bmq_Del(b)
  BY <1>2, BmqCrtKeeps, BmqDelKeeps
<1>3. CASE \E q \in Msgq \ Bmq, n \in Node : Msgq_Snd(q, n) \/ Msgq_Snd_ISR(q, n)
  BY <1>3, MsgqSndKeeps
<1>4. CASE \E b \in Bmq, n \in Node : Bmq_Snd_ISR(b, n)
  BY <1>4, BmqSndIsrKeeps
<1>5. CASE \E b \in Bmq, n \in Node : \E w \in Waits : Bmq_Snd(b, n, w)
  BY <1>5, BmqSndKeeps
<1>6. CASE \E q \in Msgq, w \in Waits : Msgq_Rcv(q, w)
  BY <1>6, MsgqRcvKeeps
<1>7. CASE \E t \in Thd : Bmq_Snd_Msgq(t)
  BY <1>7, BmqSndMsgqKeeps
<1>8. CASE \E t \in Thd : Msgq_Rcv_Read(t)
  BY <1>8, MsgqRcvReadKeeps
<1>9. CASE \E t \in Thd : Bmq_Rcv_Post(t)
  BY <1>9, BmqRcvPostKeeps
<1>10. CASE \E t \in Thd : Queue_Fail(t)
  BY <1>10, FailKeeps
<1>. QED  BY <1>1, <1>2, <1>3, <1>4, <1>5, <1>6, <1>7, <1>8, <1>9, <1>10 DEF QueueNext

\* Every step of the kernel does.
LEMMA SysKeeps ==
  ASSUME QInv, [QueueSys]_<<vars, qvars>>
  PROVE  QInv' /\ Balance /\ SendStep
<1>1. SendStep
  <2>1. ASSUME NEW t \in Thd, Bmq_Snd_Msgq(t), call[t].fresh,
               Accounted(call[t].q) <= Limit
        PROVE  \E n \in call[t].node :
                  Nodes(ptr', call[t].q) = Append(Nodes(ptr, call[t].q), n)
    BY <2>1, BmqSndMsgqKeeps
  <2>. QED  BY <2>1 DEF SendStep
<1>2. CASE UNCHANGED <<vars, qvars>>
  <2>1. UNCHANGED <<k, rcv, got, msgq, bmq, ptr, call>>  BY <1>2 DEF vars, qvars
  <2>2. QInv'  BY <2>1 DEF QInv, IpcInv, IInv
  <2>3. \A q : Stranded(q)' = Stranded(q) /\ Accounted(q)' = Accounted(q)
    BY <2>1, AtHolders
  <2>. QED  BY <1>1, <2>2, <2>3 DEF Balance, ItemsStep, SlotsStep
<1>3. CASE \/ Behind \/ Aside(Thd_Call)
           \/ \E x \in Sem \ QueueSem : \/ Aside(Sem_Call(x))
                                        \/ Sem_Handler(x) /\ UNCHANGED qvars
           \/ \E t \in Thd : Thd_Del_Call(t)
  BY <1>1, <1>3, OtherKeeps
<1>4. CASE FifoNext  BY <1>1, <1>4, FifoKeeps
<1>5. CASE QueueNext  BY <1>1, <1>5, QueueKeeps
<1>. QED  BY <1>2, <1>3, <1>4, <1>5 DEF QueueSys

\* The invariant holds in every behaviour.
THEOREM QueueInvariance == QueueSpec => []QInv
<1>1. QueueInit => QInv  BY QueueBoot
<1>2. QInv /\ [QueueSys]_<<vars, qvars>> => QInv'  BY SysKeeps
<1>. QED  BY <1>1, <1>2, PTL DEF QueueSpec

\* The lists of all FIFOs and queues are well-formed and share no node,
\* whatever threads and interrupt handlers write, read and delete.
THEOREM ListsCorrect == QueueSpec => []ListsExact
<1>1. QInv => ListsExact  BY ListsExactly DEF QInv
<1>. QED  BY <1>1, QueueInvariance, PTL

\* A thread that was granted an item finds one in the FIFO: RMP_Msgq_Rcv
\* never reads an empty or deleted queue.
THEOREM GrantsCorrect == QueueSpec => []GrantHasItem
<1>1. QInv => GrantHasItem
  <2> SUFFICES ASSUME QInv, NEW q \in Msgq
               PROVE  /\ At(q, {"item", "read"}) # {} => q \in msgq
                      /\ q \in msgq =>
                            k.num[Items(q)] + Cardinality(At(q, {"item", "read"}))
                               <= Len(Nodes(ptr, q))
    BY DEF GrantHasItem
  <2>1. At(q, {"item", "read"}) = Grantees(k, call, q)  BY AtHolders DEF Grantees
  <2>2. Grantees(k, call, q) # {} => q \in msgq  BY InvFacts
  <2>3. q \in msgq => k.num[Items(q)] + Cardinality(Grantees(k, call, q))
                         <= Len(Nodes(ptr, q))
    BY QueueFacts
  <2>. QED  BY <2>1, <2>2, <2>3
<1>. QED  BY <1>1, QueueInvariance, PTL

\* No assertion fails in a call on a queue: what RMP_Msgq_Crt creates was
\* free, what is sent is written, and what is read is counted.
THEOREM NoPanicCorrect == QueueSpec => []NoPanic
<1>1. QInv => NoPanic  BY DEF QInv, NoPanic
<1>. QED  BY <1>1, QueueInvariance, PTL

\* A node gets stranded only where a thread is deleted between its grant and
\* its read.
THEOREM ItemsCorrect == QueueSpec => ItemsConserved
<1>1. QInv /\ [QueueSys]_<<vars, qvars>> => ItemsStep  BY SysKeeps DEF Balance
<1>2. QInv /\ [QueueSys]_<<vars, qvars>> => [ItemsStep]_<<vars, qvars>>  BY <1>1
<1>. QED  BY <1>2, QueueInvariance, PTL DEF QueueSpec, ItemsConserved, ItemsStep

\* Slots are neither lost nor made, but by a call on a queue that was deleted
\* or by a thread that is.
THEOREM SlotsCorrect == QueueSpec => SlotsConserved
<1>1. QInv /\ [QueueSys]_<<vars, qvars>> => SlotsStep  BY SysKeeps DEF Balance
<1>2. QInv /\ [QueueSys]_<<vars, qvars>> => [SlotsStep]_<<vars, qvars>>  BY <1>1
<1>. QED  BY <1>2, QueueInvariance, PTL DEF QueueSpec, SlotsConserved, SlotsStep

\* A sender that has a slot can send, as long as the slots add up.
THEOREM SendCorrect == QueueSpec => SlotMeansSend
<1>1. QInv /\ [QueueSys]_<<vars, qvars>> => SendStep  BY SysKeeps
<1>2. QInv /\ [QueueSys]_<<vars, qvars>> => [SendStep]_<<vars, qvars>>  BY <1>1
<1>. QED  BY <1>2, QueueInvariance, PTL DEF QueueSpec, SlotMeansSend, SendStep

\* The count of a semaphore stays below RMP_SEM_CNT_MAX: the number that
\* RMP_Sem_Pend returns to RMP_Msgq_Rcv and RMP_Bmq_Snd is no error.
THEOREM CountsCorrect == QueueSpec => []CountBelowMax
<1>1. QInv => CountBelowMax
  <2> SUFFICES ASSUME QInv, NEW x \in Sem  PROVE k.num[x] < SemMax
    BY DEF CountBelowMax
  <2>1. k.num[x] = 0 \/ k.num[x] < SemMax  BY DEF QInv, IpcInv, Ipc
  <2>2. 0 < SemMax  BY QueueAssumption, CoreAssumption DEF Word
  <2>. QED  BY <2>1, <2>2
<1>. QED  BY <1>1, QueueInvariance, PTL

----------------------------------------------------------------------------
(* Without deletions the slots always add up to the limit, so that a FIFO  *)
(* never holds more nodes.                                                 *)

\* No blocking queue is deleted, and no thread within a call.
Lossless ==
    /\ bmq \subseteq bmq'
    /\ \A t \in Thd : call[t] # NoCall => k'.state[t] # "FREE"

\* The inductive invariant of such a behaviour.
SlotsFull ==
    /\ QInv
    /\ \A b \in bmq : Accounted(b) = Limit
    /\ \A t \in Thd : call[t] # NoCall /\ call[t].q \in Bmq => call[t].fresh

\* What a step may do to the calls and to the blocking queues.
LEMMA CallSteps ==
  ASSUME [QueueSys]_<<vars, qvars>>
  PROVE  \/ UNCHANGED <<bmq, call>>
         \/ UNCHANGED bmq /\ \E t \in Thd : Return(t)
         \/ UNCHANGED bmq /\ \E at, q, N : Enter(k.cur, at, q, N)
         \/ UNCHANGED bmq /\ \E t \in Thd : call[t] # NoCall /\ Proceed(t, "post")
         \/ UNCHANGED bmq /\ \E q \in Msgq \ Bmq : Outlive(q)
         \/ \E b \in Bmq : Bmq_Crt(b) \/ Bmq_Del(b)
<1>1. CASE UNCHANGED <<vars, qvars>>  BY <1>1 DEF qvars
<1>2. CASE \/ Behind \/ Aside(Thd_Call)
           \/ \E x \in Sem \ QueueSem : \/ Aside(Sem_Call(x))
                                        \/ Sem_Handler(x) /\ UNCHANGED qvars
  BY <1>2 DEF Behind, Aside, qvars
<1>3. CASE \E t \in Thd : Thd_Del_Call(t)  BY <1>3 DEF Thd_Del_Call, Return
<1>4. CASE FifoNext
  BY <1>4 DEF FifoNext, Fifo_Crt, Fifo_Del, Fifo_Read, Fifo_Write
<1>5. CASE \E q \in Msgq \ Bmq : Msgq_Crt(q) \/ Msgq_Del(q)
  BY <1>5 DEF Msgq_Crt, Msgq_Del
<1>6. CASE \E b \in Bmq : Bmq_Crt(b) \/ Bmq_Del(b)  BY <1>6
<1>7. CASE \E q \in Msgq \ Bmq, n \in Node : Msgq_Snd(q, n) \/ Msgq_Snd_ISR(q, n)
  BY <1>7 DEF Msgq_Snd, Msgq_Snd_ISR
<1>8. CASE \E b \in Bmq, n \in Node : Bmq_Snd_ISR(b, n)  BY <1>8 DEF Bmq_Snd_ISR
<1>9. CASE \E b \in Bmq, n \in Node : \E w \in Waits : Bmq_Snd(b, n, w)
  BY <1>9 DEF Bmq_Snd
<1>10. CASE \E q \in Msgq, w \in Waits : Msgq_Rcv(q, w)  BY <1>10 DEF Msgq_Rcv
<1>11. CASE \E t \in Thd : Bmq_Snd_Msgq(t)  BY <1>11 DEF Bmq_Snd_Msgq
<1>12. CASE \E t \in Thd : Msgq_Rcv_Read(t)
  BY <1>12 DEF Msgq_Rcv_Read, Resume, Awoken, NoCall
<1>13. CASE \E t \in Thd : Bmq_Rcv_Post(t)  BY <1>13 DEF Bmq_Rcv_Post
<1>14. CASE \E t \in Thd : Queue_Fail(t)  BY <1>14 DEF Queue_Fail
<1>. QED  BY <1>1, <1>2, <1>3, <1>4, <1>5, <1>6, <1>7, <1>8, <1>9, <1>10, <1>11,
             <1>12, <1>13, <1>14
          DEF QueueSys, QueueNext

\* A step that deletes nothing keeps the slots together.
LEMMA SlotsFullKeeps ==
  ASSUME SlotsFull, [QueueSys]_<<vars, qvars>>, Lossless
  PROVE  SlotsFull'
<1>1. QInv' /\ SlotsStep  BY SysKeeps DEF SlotsFull, Balance
<1>2. DOMAIN call = Thd  BY InvFacts DEF SlotsFull
<1>3. \/ UNCHANGED <<bmq, call>>
      \/ UNCHANGED bmq /\ \E t \in Thd : Return(t)
      \/ UNCHANGED bmq /\ \E at, q, N : Enter(k.cur, at, q, N)
      \/ UNCHANGED bmq /\ \E t \in Thd : call[t] # NoCall /\ Proceed(t, "post")
      \/ UNCHANGED bmq /\ \E q \in Msgq \ Bmq : Outlive(q)
      \/ \E b \in Bmq : Bmq_Crt(b)
  <2>1. ~ \E b \in Bmq : Bmq_Del(b)  BY DEF Bmq_Del, Lossless
  <2>. QED  BY <2>1, CallSteps
<1>4. ASSUME NEW b \in bmq'  PROVE Accounted(b)' = Limit
  <2>1. CASE b \in bmq
    <3>1. Accounted(b) = Limit /\ b \in Bmq  BY <2>1 DEF SlotsFull, QInv
    <3>2. Accounted(b) <= Limit  BY <3>1, QueueAssumption, CoreAssumption DEF Word
    <3>3. ASSUME NEW t \in Thd, call[t] # NoCall, call[t].q = b  PROVE call[t].fresh
      BY <3>1, <3>3 DEF SlotsFull
    <3>. QED  BY <1>1, <1>4, <2>1, <3>1, <3>2, <3>3 DEF SlotsStep, Lossless
  <2>2. CASE b \notin bmq
    <3>1. bmq' # bmq  BY <1>4, <2>2
    <3>2. PICK c \in Bmq : Bmq_Crt(c)  BY <1>3, <3>1
    <3>3. c = b  BY <1>4, <2>2, <3>2 DEF Bmq_Crt
    <3>. QED  BY <3>2, <3>3, BmqCrtKeeps DEF SlotsFull
  <2>. QED  BY <2>1, <2>2
<1>5. ASSUME NEW u \in Thd, call'[u] # NoCall, call'[u].q \in Bmq
      PROVE  call'[u].fresh
  <2>1. call[u] # NoCall /\ call[u].q \in Bmq => call[u].fresh  BY DEF SlotsFull
  <2>2. CASE call'[u] = call[u]  BY <1>5, <2>1, <2>2
  <2>3. ASSUME NEW t \in Thd, Return(t)  PROVE call'[u] = call[u]
    BY <1>2, <1>5, <2>3 DEF Return
  <2>4. ASSUME NEW at, NEW q, NEW N, Enter(k.cur, at, q, N)
        PROVE  call'[u] = call[u] \/ call'[u].fresh
    BY <1>2, <2>4 DEF Enter
  <2>5. ASSUME NEW t \in Thd, call[t] # NoCall, Proceed(t, "post")
        PROVE  call'[u] = call[u] \/ call'[u].fresh
    <3> DEFINE e == [[call[t] EXCEPT !.at = "post"] EXCEPT !.node = {}]
    <3>1. call' = [call EXCEPT ![t] = e]  BY <1>2, <2>5 DEF Proceed
    <3>2. call[t] \in Call  BY <2>5, InvFacts, CallFacts, QueueSems DEF SlotsFull, InCall
    <3>3. e.q = call[t].q /\ e.fresh = call[t].fresh  BY <3>2 DEF Call
    <3> HIDE DEF e
    <3>4. CASE u = t
      <4>1. call'[u] = e  BY <1>2, <3>1, <3>4
      <4>. QED  BY <1>5, <2>1, <2>5, <3>3, <3>4, <4>1
    <3>5. CASE u # t  BY <1>2, <3>1, <3>5
    <3>. QED  BY <3>4, <3>5
  <2>6. ASSUME NEW q \in Msgq \ Bmq, Outlive(q)  PROVE call'[u] = call[u]
    <3>1. call'[u] = IF call[u] # NoCall /\ call[u].q = q
                     THEN [call[u] EXCEPT !.fresh = FALSE] ELSE call[u]
      BY <2>6 DEF Outlive
    <3>2. CASE call[u] # NoCall /\ call[u].q = q
      <4>1. call[u] \in Call
        BY <3>2, InvFacts, CallFacts, QueueSems DEF SlotsFull, InCall
      <4>2. call'[u].q = q  BY <3>1, <3>2, <4>1 DEF Call
      <4>. QED  BY <1>5, <4>2
    <3>. QED  BY <3>1, <3>2
  <2>7. ASSUME NEW b \in Bmq, Bmq_Crt(b)  PROVE call'[u] = call[u]
    BY <2>7 DEF Bmq_Crt
  <2>. QED  BY <1>3, <2>2, <2>3, <2>4, <2>5, <2>6, <2>7
<1>. QED  BY <1>1, <1>4, <1>5 DEF SlotsFull

\* Where no blocking queue and no thread within a call is deleted, the slots
\* of every queue always add up to the limit; hence its FIFO never contains
\* more nodes than that, which is what the source says of every behaviour
\* (line 5136).
THEOREM LimitCorrect == QueueSpec /\ [][Lossless]_<<vars, qvars>> => []BelowLimit
<1>1. QueueInit => SlotsFull
  BY QueueBoot DEF QueueInit, SlotsFull
<1>2. SlotsFull /\ [QueueSys]_<<vars, qvars>> /\ [Lossless]_<<vars, qvars>> => SlotsFull'
  <2> SUFFICES ASSUME SlotsFull, [QueueSys]_<<vars, qvars>>, [Lossless]_<<vars, qvars>>
               PROVE  SlotsFull'
    OBVIOUS
  <2>1. CASE Lossless  BY <2>1, SlotsFullKeeps
  <2>2. CASE UNCHANGED <<vars, qvars>>
    <3>1. Lossless
      <4>1. bmq' = bmq /\ k' = k  BY <2>2 DEF vars, qvars
      <4>2. \A t \in Thd : call[t] # NoCall => k.state[t] # "FREE"
        <5>1. KInv(k) /\ CallsOk(k, call)  BY InvFacts DEF SlotsFull
        <5>. QED  BY <5>1, CallFacts, StateFacts DEF InCall
      <4>. QED  BY <4>1, <4>2 DEF Lossless
    <3>. QED  BY <3>1, SlotsFullKeeps
  <2>. QED  BY <2>1, <2>2
<1>3. SlotsFull => BelowLimit
  <2> SUFFICES ASSUME SlotsFull, NEW b \in bmq  PROVE Len(Nodes(ptr, b)) <= Limit
    BY DEF BelowLimit
  <2> DEFINE i == k.num[Slots(b)]
             l == Len(Nodes(ptr, b))
             h == Cardinality(Slotted(k, call, b))
  <2>1. i + l + h = Limit  BY AtHolders DEF SlotsFull
  <2>2. i \in Nat /\ l \in Nat /\ h \in Nat
    <3>1. b \in msgq /\ b \in Bmq  BY DEF SlotsFull, QInv
    <3>. QED  BY <3>1, QueueFacts DEF SlotsFull
  <2> HIDE DEF i, l, h
  <2>3. l <= Limit  BY <2>1, <2>2
  <2>. QED  BY <2>3 DEF l
<1>. QED  BY <1>1, <1>2, <1>3, PTL DEF QueueSpec

----------------------------------------------------------------------------
(* The lists of pointers implement AbsFifo.                                *)

\* What a step does to the memory of the FIFOs: nothing, or one operation on
\* one of them, each under the condition its call has checked.
FifoStep ==
    \/ UNCHANGED ptr
    \/ \E f \in Fifo \ ptr.used : ptr' = Crt_Fifo(ptr, f)
    \/ \E f \in ptr.used : ptr.num[f] = 0 /\ ptr' = Del_Fifo(ptr, f)
    \/ \E f \in ptr.used, n \in Node \ Linked(ptr) : ptr' = Write_Fifo(ptr, f, n)
    \/ \E f \in Fifo : Readable(ptr, f) /\ ptr' = Read_Fifo(ptr, f)

\* A send writes an unlinked node to a queue in use, or fails.
LEMMA SendFifo ==
  ASSUME QInv, NEW q \in msgq, NEW n \in Node, n \notin Linked(ptr),
         NEW s, Send(s, q, n)
  PROVE  FifoStep
<1>1. q \in ptr.used  BY DEF QInv, UsedOk
<1>2. UNCHANGED ptr \/ ptr' = Write_Fifo(ptr, q, n)  BY DEF Send
<1>. QED  BY <1>1, <1>2 DEF FifoStep

\* Every call on a queue or a FIFO does one of these to the memory.
LEMMA CallFifo ==
  ASSUME QInv, FifoNext \/ QueueNext
  PROVE  FifoStep
<1>1. /\ \A q \in Msgq : q \in msgq <=> q \in ptr.used
      /\ msgq \subseteq Msgq /\ bmq = msgq \cap Bmq
      /\ Msgq \subseteq Fifo /\ Bmq \subseteq Msgq /\ ptr.used \subseteq Fifo
  BY QueueAssumption DEF QInv, UsedOk, ListsOk, Pointers
<1>2. ASSUME NEW q \in Msgq, q \notin msgq, Msgq_Crt(q) \/ Bmq_Crt(q)
      PROVE  FifoStep
  <2>1. ptr' = Crt_Fifo(ptr, q)  BY <1>2 DEF Msgq_Crt, Bmq_Crt
  <2>. QED  BY <1>1, <1>2, <2>1 DEF FifoStep
<1>3. ASSUME NEW q \in msgq, Msgq_Del(q) \/ Bmq_Del(q)
      PROVE  FifoStep
  <2>1. ptr' = Del_Fifo(ptr, q) /\ ptr.num[q] = 0  BY <1>3 DEF Msgq_Del, Bmq_Del
  <2>. QED  BY <1>1, <2>1 DEF FifoStep
<1>4. ASSUME NEW q \in msgq, NEW n, Msgq_Snd(q, n) \/ Msgq_Snd_ISR(q, n) \/ Bmq_Snd_ISR(q, n)
      PROVE  FifoStep
  <2>1. PICK s : n \in Own /\ Send(s, q, n)
    BY <1>4 DEF Msgq_Snd, Msgq_Snd_ISR, Bmq_Snd_ISR
  <2>2. n \in Node /\ n \notin Linked(ptr)  BY <2>1, OwnNode
  <2>. QED  BY <2>1, <2>2, SendFifo
<1>5. ASSUME NEW t \in Thd, Bmq_Snd_Msgq(t)  PROVE FifoStep
  <2>1. PICK n \in call[t].node :
           IF call[t].q \in msgq THEN Send(k, call[t].q, n) ELSE UNCHANGED <<k, ptr>>
    BY <1>5 DEF Bmq_Snd_Msgq
  <2>2. call[t] # NoCall
    BY <1>5 DEF Bmq_Snd_Msgq, Resume, Awoken, NoCall
  <2>3. call[t].node \cap Linked(ptr) = {}  BY <2>2 DEF QInv, NodesOk
  <2>4. CallType(call[t])  BY <2>2 DEF QInv, CallsOk
  <2>5. call[t].node \subseteq Node  BY <2>4 DEF CallType
  <2>6. CASE call[t].q \in msgq  BY <2>1, <2>3, <2>5, <2>6, SendFifo
  <2>7. CASE call[t].q \notin msgq  BY <2>1, <2>7 DEF FifoStep
  <2>. QED  BY <2>6, <2>7
<1>6. ASSUME NEW t \in Thd, Msgq_Rcv_Read(t)  PROVE FifoStep
  <2> DEFINE q == call[t].q
  <2>1. UNCHANGED ptr \/ (Readable(ptr, q) /\ ptr' = Read_Fifo(ptr, q))
    <3>1. CASE Readable(ptr, q)  BY <1>6, <3>1 DEF Msgq_Rcv_Read, Read
    <3>2. CASE ~Readable(ptr, q)  BY <1>6, <3>2 DEF Msgq_Rcv_Read
    <3>. QED  BY <3>1, <3>2
  <2>2. Readable(ptr, q) => q \in Fifo  BY <1>1 DEF Readable
  <2>. QED  BY <2>1, <2>2 DEF FifoStep
<1>7. CASE FifoNext
  <2>1. PICK f \in Lone : \/ Fifo_Crt(f) \/ Fifo_Del(f) \/ Fifo_Read(f)
                          \/ \E n \in Node : Fifo_Write(f, n)
    BY <1>7 DEF FifoNext
  <2>2. CASE Fifo_Crt(f)  BY <2>1, <2>2 DEF Fifo_Crt, Lone, FifoStep
  <2>3. CASE Fifo_Del(f)  BY <2>3 DEF Fifo_Del, FifoStep
  <2>4. CASE Fifo_Read(f)  BY <2>1, <2>4 DEF Fifo_Read, Read, Lone, FifoStep
  <2>5. ASSUME NEW n \in Node, Fifo_Write(f, n)  PROVE FifoStep
    <3>1. f \in ptr.used /\ n \in Own /\ ptr' = Write_Fifo(ptr, f, n)
      BY <2>5 DEF Fifo_Write
    <3>2. n \notin Linked(ptr)  BY <3>1, OwnNode
    <3>. QED  BY <3>1, <3>2 DEF FifoStep
  <2>. QED  BY <2>1, <2>2, <2>3, <2>4, <2>5
<1>8. ASSUME \/ \E b \in Bmq, n \in Node, w \in Waits : Bmq_Snd(b, n, w)
             \/ \E q \in Msgq, w \in Waits : Msgq_Rcv(q, w)
             \/ \E t \in Thd : Bmq_Rcv_Post(t) \/ Queue_Fail(t)
      PROVE  FifoStep
  BY <1>8 DEF Bmq_Snd, Msgq_Rcv, Bmq_Rcv_Post, Queue_Fail, FifoStep
<1>9. CASE \E q \in Msgq \ Bmq : Msgq_Crt(q) \/ Msgq_Del(q)
  BY <1>2, <1>3, <1>9 DEF Msgq_Crt, Msgq_Del
<1>10. CASE \E b \in Bmq : Bmq_Crt(b) \/ Bmq_Del(b)
  <2>1. ASSUME NEW b \in Bmq, Bmq_Crt(b)  PROVE FifoStep
    <3>1. b \notin msgq /\ b \in Msgq  BY <1>1, <2>1 DEF Bmq_Crt
    <3>. QED  BY <1>2, <2>1, <3>1
  <2>2. ASSUME NEW b \in Bmq, Bmq_Del(b)  PROVE FifoStep
    <3>1. b \in msgq  BY <1>1, <2>2 DEF Bmq_Del
    <3>. QED  BY <1>3, <2>2, <3>1
  <2>. QED  BY <1>10, <2>1, <2>2
<1>11. CASE \E q \in Msgq \ Bmq, n \in Node : Msgq_Snd(q, n) \/ Msgq_Snd_ISR(q, n)
  BY <1>4, <1>11 DEF Msgq_Snd, Msgq_Snd_ISR
<1>12. CASE \E b \in Bmq, n \in Node : Bmq_Snd_ISR(b, n)
  BY <1>1, <1>4, <1>12 DEF Bmq_Snd_ISR
<1>13. CASE QueueNext
  BY <1>5, <1>6, <1>8, <1>9, <1>10, <1>11, <1>12, <1>13 DEF QueueNext
<1>. QED  BY <1>7, <1>13

\* The operations on the pointers are those on the sequences.
LEMMA FifoMaps ==
  ASSUME QInv, FifoStep
  PROVE  [Fifos!Next]_<<ptr.used, Contents>>
<1>1. ListsOk(ptr) /\ ptr.used \subseteq Fifo  BY DEF QInv, ListsOk, Pointers
<1>2. /\ \A f \in ptr.used : Contents[f] = Nodes(ptr, f)
      /\ \A f \in Fifo \ ptr.used : Contents[f] = <<>>
      /\ DOMAIN Contents = Fifo /\ DOMAIN Contents' = Fifo
      /\ \A f \in ptr'.used \cap Fifo : Contents'[f] = Nodes(ptr', f)
      /\ \A f \in Fifo \ ptr'.used : Contents'[f] = <<>>
  BY <1>1 DEF Contents
<1>3. /\ Contents = [f \in Fifo |-> Contents[f]]
      /\ Contents' = [f \in Fifo |-> Contents'[f]]
  BY DEF Contents
<1>4. CASE UNCHANGED ptr  BY <1>4 DEF Contents
<1>5. ASSUME NEW f \in Fifo \ ptr.used, ptr' = Crt_Fifo(ptr, f)
      PROVE  Fifos!Create(f)
  <2>1. /\ ptr'.used = ptr.used \cup {f} /\ Nodes(ptr', f) = <<>>
        /\ \A g \in ptr.used : Nodes(ptr', g) = Nodes(ptr, g)
    BY <1>1, <1>5, ListsCrt
  <2>2. \A g \in Fifo : Contents'[g] = Contents[g]  BY <1>1, <1>2, <2>1
  <2>. QED  BY <1>3, <2>1, <2>2 DEF Fifos!Create
<1>6. ASSUME NEW f \in ptr.used, ptr.num[f] = 0, ptr' = Del_Fifo(ptr, f)
      PROVE  Fifos!Delete(f)
  <2>1. /\ ptr'.used = ptr.used \ {f}
        /\ \A g \in ptr'.used : Nodes(ptr', g) = Nodes(ptr, g)
    BY <1>1, <1>6, ListsDel
  <2>2. Nodes(ptr, f) = <<>>
    <3>1. Nodes(ptr, f) \in Seq(Node) /\ Len(Nodes(ptr, f)) = 0
      BY <1>1, <1>6, ListFacts
    <3>. QED  BY <3>1
  <2>3. \A g \in Fifo : Contents'[g] = Contents[g]  BY <1>1, <1>2, <2>1, <2>2
  <2>. QED  BY <1>2, <1>3, <2>1, <2>2, <2>3 DEF Fifos!Delete
<1>7. ASSUME NEW f \in ptr.used, NEW n \in Node \ Linked(ptr),
             ptr' = Write_Fifo(ptr, f, n)
      PROVE  Fifos!Write(f, n)
  <2>1. /\ ptr'.used = ptr.used /\ Nodes(ptr', f) = Append(Nodes(ptr, f), n)
        /\ \A g \in ptr.used \ {f} : Nodes(ptr', g) = Nodes(ptr, g)
    BY <1>1, <1>7, ListsWrite
  <2>2. \A g \in Fifo : Contents'[g] = IF g = f THEN Append(Contents[f], n)
                                                ELSE Contents[g]
    BY <1>1, <1>2, <2>1
  <2>3. Contents' = [Contents EXCEPT ![f] = Append(Contents[f], n)]
    BY <1>1, <1>2, <1>3, <2>2
  <2>4. ASSUME NEW g \in Fifo  PROVE n \notin ToSet(Contents[g])
    <3>1. CASE g \in ptr.used
      BY <1>2, <3>1 DEF Linked
    <3>2. CASE g \notin ptr.used
      <4>1. Contents[g] = <<>>  BY <1>2, <3>2
      <4>2. ToSet(<<>>) = {}  BY DEF ToSet
      <4>. QED  BY <4>1, <4>2
    <3>. QED  BY <3>1, <3>2
  <2>. QED  BY <2>1, <2>3, <2>4 DEF Fifos!Write, Fifos!ToSet, ToSet
<1>8. ASSUME NEW f \in Fifo, Readable(ptr, f), ptr' = Read_Fifo(ptr, f)
      PROVE  Fifos!Read(f)
  <2>1. f \in ptr.used  BY <1>8 DEF Readable
  <2>2. Nodes(ptr, f) # <<>>  BY <1>1, <1>8, <2>1, ReadableNodes
  <2>3. /\ ptr'.used = ptr.used /\ Nodes(ptr', f) = Tail(Nodes(ptr, f))
        /\ \A g \in ptr.used \ {f} : Nodes(ptr', g) = Nodes(ptr, g)
    BY <1>1, <1>8, <2>1, <2>2, ListsRead
  <2>4. \A g \in Fifo : Contents'[g] = IF g = f THEN Tail(Contents[f]) ELSE Contents[g]
    BY <1>1, <1>2, <2>1, <2>3
  <2>5. Contents' = [Contents EXCEPT ![f] = Tail(Contents[f])]
    BY <1>1, <1>2, <1>3, <2>4
  <2>. QED  BY <1>2, <2>1, <2>2, <2>3, <2>5 DEF Fifos!Read
<1>9. FifoStep => UNCHANGED ptr \/ Fifos!Next
  BY <1>1, <1>5, <1>6, <1>7, <1>8 DEF FifoStep, Fifos!Next
<1>. QED  BY <1>4, <1>9

\* Every FIFO, alone or in a queue, hands out its nodes in the order in which
\* they were written, each once, whatever threads and interrupt handlers do.
THEOREM FifoRefines == QueueSpec => FifoImplements
<1>1. QueueInit => Fifos!Init
  <2> SUFFICES ASSUME QueueInit  PROVE Fifos!Init
    OBVIOUS
  <2>1. ptr.used = {}  BY DEF QueueInit
  <2>2. Contents = [f \in Fifo |-> <<>>]  BY <2>1 DEF Contents
  <2>. QED  BY <2>1, <2>2 DEF Fifos!Init
<1>2. QInv /\ [QueueSys]_<<vars, qvars>> => [Fifos!Next]_<<ptr.used, Contents>>
  <2> SUFFICES ASSUME QInv, [QueueSys]_<<vars, qvars>>
               PROVE  [Fifos!Next]_<<ptr.used, Contents>>
    OBVIOUS
  <2>1. FifoNext \/ QueueNext \/ UNCHANGED ptr
    BY DEF QueueSys, Behind, Aside, Thd_Del_Call, qvars
  <2>. QED  BY <2>1, CallFifo, FifoMaps DEF FifoStep
<1>. QED  BY <1>1, <1>2, QueueInvariance, PTL
      DEF QueueSpec, FifoImplements, Fifos!Spec
=============================================================================
