--------------------------- MODULE RmpCoreProofs ---------------------------
(***************************************************************************)
(* What the helpers of RmpCore do to the lists of the kernel.              *)
(***************************************************************************)
EXTENDS RmpKernel, RmpListProofs

----------------------------------------------------------------------------
(* The lists of the kernel.                                                *)

\* The lists of s: the run queues hold R, the delay list D, the sender lists
\* S and the semaphores' lists P.  The states of the threads play no part,
\* so that this can be said of the memory inside a critical section.
Good(s, R, D, S, P) ==
    /\ s \in Kernel
    /\ R \subseteq Thd
    /\ Queued(s, R)
    /\ Highest(s, R)
    /\ IsInjective(s.delay) /\ ToSet(s.delay) = D
    /\ Listed(s.snd, S)
    /\ Listed(s.wait, P)

\* The fields that Good looks at.
SameLists(u, s) ==
    /\ u.run = s.run /\ u.bitmap = s.bitmap /\ u.prio = s.prio
    /\ u.cur = s.cur
    /\ u.delay = s.delay /\ u.snd = s.snd /\ u.wait = s.wait

\* The fields that no waking or queueing of threads changes.
SameRest(u, s) ==
    /\ u.susp = s.susp /\ u.full = s.full /\ u.prio = s.prio
    /\ u.slice = s.slice /\ u.left = s.left /\ u.mailbox = s.mailbox
    /\ u.now = s.now /\ u.cur = s.cur /\ u.lock = s.lock
    /\ u.soft = s.soft /\ u.panic = s.panic
    /\ u.used = s.used /\ u.num = s.num

\* The wait lists of u are those of s without the threads of T.
Shrunk(u, s, T) ==
    /\ \A r \in Thd : ToSet(u.snd[r]) = ToSet(s.snd[r]) \ T
    /\ \A x \in Sem : ToSet(u.wait[x]) = ToSet(s.wait[x]) \ T

----------------------------------------------------------------------------
\* Changing a field that Good does not look at, or pending a switch.
LEMMA GoodSame ==
  ASSUME NEW s, NEW u \in Kernel, NEW R, NEW D, NEW S, NEW P,
         Good(s, R, D, S, P), SameLists(u, s), u.pend = s.pend \/ u.pend = 1
  PROVE  Good(u, R, D, S, P)
BY DEF Good, SameLists, Queued, Highest

\* Only the empty list has no elements.
LEMMA EmptySet ==
  ASSUME NEW T, NEW q \in Seq(T)
  PROVE  ToSet(q) = {} <=> q = <<>>
<1>1. ASSUME q # <<>>  PROVE q[1] \in ToSet(q)
  <2>1. 1 \in 1..Len(q)  BY <1>1
  <2>. QED  BY <2>1, ToSetLemma
<1>2. ASSUME q = <<>>  PROVE ToSet(q) = {}
  BY <1>2 DEF ToSet
<1>. QED  BY <1>1, <1>2

\* _RMP_Run_Ins: the fields it changes.
LEMMA RunInsFields ==
  ASSUME NEW s \in Kernel, NEW t \in Thd, t \notin s.susp
  PROVE  LET u == Run_Ins(s, t)
             p == s.prio[t]
         IN  /\ u \in Kernel
             /\ u.run = [s.run EXCEPT ![p] = Append(@, t)]
             /\ u.bitmap = s.bitmap \cup {p}
             /\ u.pend = IF p > s.prio[s.cur] THEN 1 ELSE s.pend
             /\ SameRest(u, s)
             /\ u.state = s.state /\ u.timeout = s.timeout
             /\ u.retval = s.retval
             /\ u.delay = s.delay /\ u.snd = s.snd /\ u.wait = s.wait
<1> USE CoreAssumption
<1> DEFINE p == s.prio[t]
           r == [s.run EXCEPT ![p] = Append(@, t)]
           b == s.bitmap \cup {p}
           n == IF p > s.prio[s.cur] THEN 1 ELSE s.pend
           v == [s EXCEPT !.run = r, !.bitmap = b, !.pend = n]
<1>1. Run_Ins(s, t) = v  BY DEF Run_Ins
<1>2. r \in [Prio -> Seq(Thd)] /\ b \in SUBSET Prio /\ n \in {0, 1}
  BY DEF Kernel
<1> HIDE DEF r, b, n
<1>3. v \in Kernel /\ v.run = r /\ v.bitmap = b /\ v.pend = n
  BY <1>2 DEF Kernel
<1>4. /\ SameRest(v, s)
      /\ v.state = s.state /\ v.timeout = s.timeout /\ v.retval = s.retval
      /\ v.delay = s.delay /\ v.snd = s.snd /\ v.wait = s.wait
  BY DEF Kernel, SameRest
<1>. QED  BY <1>1, <1>3, <1>4 DEF r, b, n

\* _RMP_Run_Del: the fields it changes.
LEMMA RunDelFields ==
  ASSUME NEW s \in Kernel, NEW t \in Thd, t \notin s.susp,
         IsInjective(s.run[s.prio[t]])
  PROVE  LET u == Run_Del(s, t)
             p == s.prio[t]
         IN  /\ u \in Kernel
             /\ u.run = [s.run EXCEPT ![p] = RemoveFirst(@, t)]
             /\ u.bitmap = IF s.run[p] = <<t>> THEN s.bitmap \ {p}
                                               ELSE s.bitmap
             /\ u.pend = IF t = s.cur THEN 1 ELSE s.pend
             /\ SameRest(u, s)
             /\ u.state = s.state /\ u.timeout = s.timeout
             /\ u.retval = s.retval
             /\ u.delay = s.delay /\ u.snd = s.snd /\ u.wait = s.wait
<1> USE CoreAssumption
<1> DEFINE p == s.prio[t]
           r == [s.run EXCEPT ![p] = RemoveFirst(@, t)]
           b == IF s.run[p] = <<t>> THEN s.bitmap \ {p} ELSE s.bitmap
           n == IF t = s.cur THEN 1 ELSE s.pend
           v == [s EXCEPT !.run = r, !.bitmap = b, !.pend = n]
<1>1. Run_Del(s, t) = v  BY DEF Run_Del
<1>2. r \in [Prio -> Seq(Thd)] /\ b \in SUBSET Prio /\ n \in {0, 1}
  <2>1. p \in Prio /\ s.run[p] \in Seq(Thd)  BY DEF Kernel
  <2>2. RemoveFirst(s.run[p], t) \in Seq(Thd)  BY <2>1, RemoveLemma
  <2>. QED  BY <2>1, <2>2 DEF Kernel
<1> HIDE DEF r, b, n
<1>3. v \in Kernel /\ v.run = r /\ v.bitmap = b /\ v.pend = n
  BY <1>2 DEF Kernel
<1>4. /\ SameRest(v, s)
      /\ v.state = s.state /\ v.timeout = s.timeout /\ v.retval = s.retval
      /\ v.delay = s.delay /\ v.snd = s.snd /\ v.wait = s.wait
  BY DEF Kernel, SameRest
<1>. QED  BY <1>1, <1>3, <1>4 DEF r, b, n

\* A list without repetition whose only element is t is <<t>>.
LEMMA OnlyElement ==
  ASSUME NEW T, NEW q \in Seq(T), NEW t, IsInjective(q), ToSet(q) = {t}
  PROVE  q = <<t>>
<1>1. \A i \in 1..Len(q) : q[i] = t  BY ToSetLemma
<1>2. q # <<>>  BY EmptySet
<1>3. Len(q) = 1
  <2> DEFINE n == Len(q)
  <2>1. \A i, j \in 1..n : i = j  BY <1>1 DEF IsInjective
  <2>2. n \in Nat /\ n # 0  BY <1>2
  <2> HIDE DEF n
  <2>3. n # 1 => 1 \in 1..n /\ 2 \in 1..n  BY <2>2
  <2>4. n = 1  BY <2>1, <2>3
  <2>. QED  BY <2>4 DEF n
<1>. QED  BY <1>1, <1>3

\* _RMP_Run_Ins adds a thread that is not suspended to the run queues, and
\* pends a switch if that thread should run.
LEMMA RunIns ==
  ASSUME NEW s, NEW R, NEW D, NEW S, NEW P, Good(s, R, D, S, P),
         NEW t \in Thd, t \notin R, t \notin s.susp
  PROVE  Good(Run_Ins(s, t), R \cup {t}, D, S, P)
<1> DEFINE u == Run_Ins(s, t)
           p == s.prio[t]
<1>1. s \in Kernel  BY DEF Good
<1>2. /\ u \in Kernel
      /\ u.run = [s.run EXCEPT ![p] = Append(@, t)]
      /\ u.bitmap = s.bitmap \cup {p}
      /\ u.pend = IF p > s.prio[s.cur] THEN 1 ELSE s.pend
      /\ u.prio = s.prio /\ u.cur = s.cur
      /\ u.delay = s.delay /\ u.snd = s.snd /\ u.wait = s.wait
  BY <1>1, RunInsFields DEF SameRest
<1>3. /\ p \in Prio /\ s.cur \in Thd /\ s.prio[s.cur] \in Prio
      /\ \A x \in Prio : s.run[x] \in Seq(Thd)
      /\ s.run \in [Prio -> Seq(Thd)] /\ s.bitmap \subseteq Prio
  BY <1>1 DEF Kernel
<1> HIDE DEF u, p
<1>4. Queued(u, R \cup {t})
  <2> SUFFICES ASSUME NEW x \in Prio
               PROVE  /\ IsInjective(u.run[x])
                      /\ ToSet(u.run[x]) = {y \in R \cup {t} : u.prio[y] = x}
                      /\ x \in u.bitmap <=> u.run[x] # <<>>
    BY DEF Queued
  <2>1. /\ IsInjective(s.run[x])
        /\ ToSet(s.run[x]) = {y \in R : s.prio[y] = x}
        /\ x \in s.bitmap <=> s.run[x] # <<>>
    BY DEF Good, Queued
  <2>2. CASE x # p
    <3>1. u.run[x] = s.run[x]  BY <1>2, <1>3, <2>2
    <3>. QED  BY <2>1, <2>2, <3>1, <1>2 DEF p
  <2>3. CASE x = p
    <3>1. u.run[x] = Append(s.run[x], t)  BY <1>2, <1>3, <2>3
    <3>2. /\ ToSet(u.run[x]) = ToSet(s.run[x]) \cup {t}
          /\ IsInjective(u.run[x])
      BY <3>1, <1>3, <2>1, AppendLemma
    <3>3. u.run[x] # <<>>
      <4>1. u.run[x] \in Seq(Thd)  BY <1>2 DEF Kernel
      <4>. QED  BY <3>2, <4>1, EmptySet
    <3>4. x \in u.bitmap  BY <1>2, <2>3
    <3>. QED  BY <2>1, <2>3, <3>2, <3>3, <3>4, <1>2 DEF p
  <2>. QED  BY <2>2, <2>3
<1>5. Highest(u, R \cup {t})
  <2> SUFFICES ASSUME u.pend = 0
               PROVE  /\ u.cur \in R \cup {t}
                      /\ u.cur = Head(u.run[u.prio[u.cur]])
                      /\ \A x \in u.bitmap : x <= u.prio[u.cur]
    BY DEF Highest
  <2>1. ~(p > s.prio[s.cur]) /\ s.pend = 0  BY <1>2
  <2>2. /\ s.cur \in R
        /\ s.cur = Head(s.run[s.prio[s.cur]])
        /\ \A x \in s.bitmap : x <= s.prio[s.cur]
    BY <2>1 DEF Good, Highest
  <2>3. s.run[s.prio[s.cur]] # <<>>
    BY <2>2, <1>3, EmptySet DEF Good, Queued
  <2>4. Head(u.run[s.prio[s.cur]]) = Head(s.run[s.prio[s.cur]])
    BY <1>2, <1>3, <2>3, AppendLemma
  <2>5. p <= s.prio[s.cur]  BY <2>1, <1>3 DEF Prio
  <2>. QED  BY <1>2, <2>2, <2>4, <2>5
<1>. QED  BY <1>2, <1>4, <1>5 DEF Good, u

\* _RMP_Run_Del removes a thread from the run queues, and pends a switch if
\* it is the current one.
LEMMA RunDel ==
  ASSUME NEW s, NEW R, NEW D, NEW S, NEW P, Good(s, R, D, S, P),
         NEW t \in R, t \notin s.susp
  PROVE  /\ Good(Run_Del(s, t), R \ {t}, D, S, P)
         /\ Run_Del(s, t).pend = IF t = s.cur THEN 1 ELSE s.pend
<1> DEFINE u == Run_Del(s, t)
           p == s.prio[t]
<1>1. s \in Kernel /\ t \in Thd  BY DEF Good
<1>2. /\ p \in Prio /\ s.cur \in Thd /\ s.prio[s.cur] \in Prio
      /\ \A x \in Prio : s.run[x] \in Seq(Thd)
      /\ s.run \in [Prio -> Seq(Thd)] /\ s.bitmap \subseteq Prio
  BY <1>1 DEF Kernel
<1>3. IsInjective(s.run[p])  BY <1>2 DEF Good, Queued
<1>4. /\ u \in Kernel
      /\ u.run = [s.run EXCEPT ![p] = RemoveFirst(@, t)]
      /\ u.bitmap = IF s.run[p] = <<t>> THEN s.bitmap \ {p} ELSE s.bitmap
      /\ u.pend = IF t = s.cur THEN 1 ELSE s.pend
      /\ u.prio = s.prio /\ u.cur = s.cur
      /\ u.delay = s.delay /\ u.snd = s.snd /\ u.wait = s.wait
  <2>1. /\ u \in Kernel
        /\ u.run = [s.run EXCEPT ![p] = RemoveFirst(@, t)]
        /\ u.bitmap = IF s.run[p] = <<t>> THEN s.bitmap \ {p} ELSE s.bitmap
        /\ u.pend = IF t = s.cur THEN 1 ELSE s.pend
        /\ u.delay = s.delay /\ u.snd = s.snd /\ u.wait = s.wait
        /\ SameRest(u, s)
    <3>1. IsInjective(s.run[s.prio[t]])  BY <1>3
    <3> HIDE DEF p
    <3>2. p = s.prio[t]  BY DEF p
    <3>3. u = Run_Del(s, t)  OBVIOUS
    <3> HIDE DEF u
    <3>. QED  BY <1>1, <3>1, <3>2, <3>3, RunDelFields
  <2> HIDE DEF u, p
  <2>. QED  BY <2>1 DEF SameRest
<1> HIDE DEF u, p
<1>5. Queued(u, R \ {t})
  <2> SUFFICES ASSUME NEW x \in Prio
               PROVE  /\ IsInjective(u.run[x])
                      /\ ToSet(u.run[x]) = {y \in R \ {t} : u.prio[y] = x}
                      /\ x \in u.bitmap <=> u.run[x] # <<>>
    BY DEF Queued
  <2>1. /\ IsInjective(s.run[x])
        /\ ToSet(s.run[x]) = {y \in R : s.prio[y] = x}
        /\ x \in s.bitmap <=> s.run[x] # <<>>
    BY DEF Good, Queued
  <2>2. CASE x # p
    <3>1. u.run[x] = s.run[x]  BY <1>2, <1>4, <2>2
    <3>2. x \in u.bitmap <=> x \in s.bitmap  BY <1>4, <2>2
    <3>. QED  BY <2>1, <2>2, <3>1, <3>2, <1>4 DEF p
  <2>3. CASE x = p
    <3>1. u.run[x] = RemoveFirst(s.run[x], t)  BY <1>2, <1>4, <2>3
    <3>2. /\ u.run[x] \in Seq(Thd)
          /\ ToSet(u.run[x]) = ToSet(s.run[x]) \ {t}
          /\ IsInjective(u.run[x])
      BY <3>1, <1>2, <2>1, RemoveLemma
    <3>3. t \in ToSet(s.run[x])  BY <2>1, <2>3 DEF p
    <3>4. s.run[x] # <<>>  BY <3>3, <1>2, EmptySet
    <3>5. s.run[x] = <<t>> <=> ToSet(s.run[x]) = {t}
      <4>1. ToSet(<<t>>) = {t}  BY DEF ToSet
      <4>2. ToSet(s.run[x]) = {t} => s.run[x] = <<t>>
        BY <1>2, <2>1, OnlyElement
      <4>. QED  BY <4>1, <4>2
    <3>6. u.run[x] # <<>> <=> ToSet(s.run[x]) # {t}
      BY <3>2, <3>3, EmptySet
    <3>7. x \in u.bitmap <=> u.run[x] # <<>>
      BY <3>4, <3>5, <3>6, <2>1, <1>4, <2>3
    <3>. QED  BY <2>1, <2>3, <3>2, <3>7, <1>4
  <2>. QED  BY <2>2, <2>3
<1>6. Highest(u, R \ {t})
  <2> SUFFICES ASSUME u.pend = 0
               PROVE  /\ u.cur \in R \ {t}
                      /\ u.cur = Head(u.run[u.prio[u.cur]])
                      /\ \A x \in u.bitmap : x <= u.prio[u.cur]
    BY DEF Highest
  <2>1. t # s.cur /\ s.pend = 0  BY <1>4
  <2>2. /\ s.cur \in R
        /\ s.cur = Head(s.run[s.prio[s.cur]])
        /\ \A x \in s.bitmap : x <= s.prio[s.cur]
    BY <2>1 DEF Good, Highest
  <2>3. s.run[s.prio[s.cur]] # <<>>
    BY <2>2, <1>2, EmptySet DEF Good, Queued
  <2>4. Head(u.run[s.prio[s.cur]]) = Head(s.run[s.prio[s.cur]])
    BY <1>2, <1>3, <1>4, <2>1, <2>2, <2>3, RemoveLemma
  <2>. QED  BY <1>4, <2>1, <2>2, <2>4
<1>. QED  BY <1>4, <1>5, <1>6 DEF Good, u

\* Both helpers, for a thread that may be suspended.
LEMMA RunInsAny ==
  ASSUME NEW s, NEW R, NEW D, NEW S, NEW P, Good(s, R, D, S, P),
         NEW t \in Thd, t \notin R
  PROVE  LET u == Run_Ins(s, t)
         IN  /\ Good(u, IF t \in s.susp THEN R ELSE R \cup {t}, D, S, P)
             /\ SameRest(u, s)
             /\ u.state = s.state /\ u.retval = s.retval
             /\ u.snd = s.snd /\ u.wait = s.wait
<1>1. s \in Kernel  BY DEF Good
<1>2. CASE t \in s.susp
  <2>1. Run_Ins(s, t) = s  BY <1>2 DEF Run_Ins
  <2>. QED  BY <1>2, <2>1 DEF SameRest
<1>3. CASE t \notin s.susp
  <2>1. Good(Run_Ins(s, t), R \cup {t}, D, S, P)  BY <1>3, RunIns
  <2>. QED  BY <1>1, <1>3, <2>1, RunInsFields
<1>. QED  BY <1>2, <1>3

\* _RMP_Run_Del, called for a thread that is queued unless it is suspended.
LEMMA RunDelAny ==
  ASSUME NEW s, NEW R, NEW D, NEW S, NEW P, Good(s, R, D, S, P),
         NEW t \in Thd, t \in R <=> t \notin s.susp
  PROVE  LET u == Run_Del(s, t)
         IN  /\ Good(u, R \ {t}, D, S, P)
             /\ t = s.cur => u.pend = 1
             /\ SameRest(u, s)
             /\ u.state = s.state /\ u.retval = s.retval
             /\ u.snd = s.snd /\ u.wait = s.wait
<1>1. s \in Kernel /\ s.pend \in {0, 1}  BY DEF Good, Kernel
<1>2. CASE t \in s.susp
  <2>1. Run_Del(s, t) = s  BY <1>2 DEF Run_Del
  <2>2. t \notin R /\ R \ {t} = R  BY <1>2
  <2>3. t = s.cur => s.pend = 1  BY <1>1, <2>2 DEF Good, Highest
  <2>. QED  BY <2>1, <2>2, <2>3 DEF SameRest
<1>3. CASE t \notin s.susp
  <2>1. t \in R  BY <1>3
  <2>2. /\ Good(Run_Del(s, t), R \ {t}, D, S, P)
        /\ Run_Del(s, t).pend = IF t = s.cur THEN 1 ELSE s.pend
    BY <1>3, <2>1, RunDel
  <2>3. IsInjective(s.run[s.prio[t]])
    <3>1. s.prio[t] \in Prio  BY <1>1 DEF Kernel
    <3>. QED  BY <3>1 DEF Good, Queued
  <2>4. LET u == Run_Del(s, t)
        IN  /\ SameRest(u, s)
            /\ u.state = s.state /\ u.retval = s.retval
            /\ u.snd = s.snd /\ u.wait = s.wait
    BY <1>1, <1>3, <2>3, RunDelFields
  <2>. QED  BY <2>2, <2>4
<1>. QED  BY <1>2, <1>3

----------------------------------------------------------------------------
\* No list of f holds a thread twice, no two share one, and together they
\* hold T: said of elements, where Listed speaks of sets of elements.
Apart(f, T) ==
    /\ \A x \in DOMAIN f : IsInjective(f[x])
    /\ \A x, y \in DOMAIN f :
          \A z : z \in ToSet(f[x]) /\ z \in ToSet(f[y]) => x = y
    /\ \A z : z \in T <=> \E x \in DOMAIN f : z \in ToSet(f[x])

\* Both ways of saying that the lists of f hold T are the same.
LEMMA ListedDef ==
  ASSUME NEW f, NEW T
  PROVE  Listed(f, T) <=> Apart(f, T)
<1>1. ASSUME NEW x \in DOMAIN f, NEW y \in DOMAIN f
      PROVE  ToSet(f[x]) \cap ToSet(f[y]) = {} <=>
                \A z : ~(z \in ToSet(f[x]) /\ z \in ToSet(f[y]))
  OBVIOUS
<1>2. (\A x, y \in DOMAIN f : x # y => ToSet(f[x]) \cap ToSet(f[y]) = {}) <=>
      \A x, y \in DOMAIN f :
         \A z : z \in ToSet(f[x]) /\ z \in ToSet(f[y]) => x = y
  BY <1>1
<1>3. UNION {ToSet(f[x]) : x \in DOMAIN f} = T <=>
         \A z : z \in T <=> \E x \in DOMAIN f : z \in ToSet(f[x])
  OBVIOUS
<1>. QED  BY <1>2, <1>3 DEF Listed, Apart

\* Removing a thread from every list of a family.
LEMMA ListedRemove ==
  ASSUME NEW f, NEW T, Listed(f, T), NEW t, NEW g, DOMAIN g = DOMAIN f,
         \A x \in DOMAIN f : f[x] \in Seq(Thd) /\ g[x] = RemoveFirst(f[x], t)
  PROVE  Listed(g, T \ {t})
<1>1. Apart(f, T)  BY ListedDef
<1>2. \A x \in DOMAIN f : /\ ToSet(g[x]) = ToSet(f[x]) \ {t}
                          /\ IsInjective(g[x])
  BY <1>1, RemoveLemma DEF Apart
<1>3. \A x \in DOMAIN f :
         \A z : z \in ToSet(g[x]) <=> z \in ToSet(f[x]) /\ z # t
  BY <1>2
<1>4. \A x, y \in DOMAIN f :
         \A z : z \in ToSet(g[x]) /\ z \in ToSet(g[y]) => x = y
  BY <1>1, <1>3 DEF Apart
<1>5. \A z : z \in T \ {t} <=> \E x \in DOMAIN f : z \in ToSet(g[x])
  BY <1>1, <1>3 DEF Apart
<1>6. Apart(g, T \ {t})  BY <1>2, <1>4, <1>5 DEF Apart
<1>. QED  BY <1>6, ListedDef

\* Adding a thread at the tail of one list of a family.
LEMMA ListedAppend ==
  ASSUME NEW f, NEW T, Listed(f, T), NEW t \in Thd, t \notin T,
         NEW c \in DOMAIN f, NEW g, DOMAIN g = DOMAIN f,
         f[c] \in Seq(Thd), g[c] = Append(f[c], t),
         \A x \in DOMAIN f : x # c => g[x] = f[x]
  PROVE  Listed(g, T \cup {t})
<1>1. Apart(f, T)  BY ListedDef
<1>2. IsInjective(g[c]) /\ ToSet(g[c]) = ToSet(f[c]) \cup {t}
  <2>1. f[c] \in Seq(Thd) /\ IsInjective(f[c])  BY <1>1 DEF Apart
  <2>2. t \notin ToSet(f[c])  BY <1>1 DEF Apart
  <2>. QED  BY <2>1, <2>2, AppendLemma
<1>3. \A x \in DOMAIN f : IsInjective(g[x])  BY <1>1, <1>2 DEF Apart
<1>4. \A x \in DOMAIN f : \A z : z \in ToSet(g[x]) <=>
                                 z \in ToSet(f[x]) \/ (x = c /\ z = t)
  BY <1>2
<1>5. ASSUME NEW x \in DOMAIN f, NEW y \in DOMAIN f, NEW z,
             z \in ToSet(g[x]), z \in ToSet(g[y])
      PROVE  x = y
  <2>1. CASE z = t
    <3>1. z \notin ToSet(f[x]) /\ z \notin ToSet(f[y])
      BY <1>1, <2>1 DEF Apart
    <3>. QED  BY <1>4, <1>5, <3>1
  <2>2. CASE z # t
    <3>1. z \in ToSet(f[x]) /\ z \in ToSet(f[y])  BY <1>4, <1>5, <2>2
    <3>. QED  BY <1>1, <3>1 DEF Apart
  <2>. QED  BY <2>1, <2>2
<1>6. \A z : z \in T \cup {t} <=> \E x \in DOMAIN f : z \in ToSet(g[x])
  BY <1>1, <1>4 DEF Apart
<1>7. Apart(g, T \cup {t})  BY <1>3, <1>5, <1>6 DEF Apart
<1>. QED  BY <1>7, ListedDef

\* Unlink: the fields it changes.
LEMMA UnlinkFields ==
  ASSUME NEW s \in Kernel, NEW t \in Thd, IsInjective(s.delay),
         \A r \in Thd : IsInjective(s.snd[r]),
         \A x \in Sem : IsInjective(s.wait[x])
  PROVE  LET u == Unlink(s, t)
         IN  /\ u \in Kernel
             /\ u.snd = IF s.state[t] \in Sending
                        THEN [r \in Thd |-> RemoveFirst(s.snd[r], t)]
                        ELSE s.snd
             /\ u.wait = IF s.state[t] \in Pending
                         THEN [x \in Sem |-> RemoveFirst(s.wait[x], t)]
                         ELSE s.wait
             /\ u.delay = IF s.state[t] \in Timed THEN RemoveFirst(s.delay, t)
                                                  ELSE s.delay
             /\ SameRest(u, s)
             /\ u.state = s.state /\ u.timeout = s.timeout
             /\ u.retval = s.retval
             /\ u.run = s.run /\ u.bitmap = s.bitmap /\ u.pend = s.pend
<1> DEFINE f == IF s.state[t] \in Sending
                THEN [r \in Thd |-> RemoveFirst(s.snd[r], t)] ELSE s.snd
           w == IF s.state[t] \in Pending
                THEN [x \in Sem |-> RemoveFirst(s.wait[x], t)] ELSE s.wait
           d == IF s.state[t] \in Timed THEN RemoveFirst(s.delay, t)
                                        ELSE s.delay
           v == [s EXCEPT !.snd = f, !.wait = w, !.delay = d]
<1>1. Unlink(s, t) = v  BY DEF Unlink
<1>2. /\ \A r \in Thd : s.snd[r] \in Seq(Thd)
      /\ \A x \in Sem : s.wait[x] \in Seq(Thd)
      /\ s.snd \in [Thd -> Seq(Thd)] /\ s.wait \in [Sem -> Seq(Thd)]
      /\ s.delay \in Seq(Thd)
  BY DEF Kernel
<1>3. /\ \A r \in Thd : RemoveFirst(s.snd[r], t) \in Seq(Thd)
      /\ \A x \in Sem : RemoveFirst(s.wait[x], t) \in Seq(Thd)
      /\ RemoveFirst(s.delay, t) \in Seq(Thd)
  BY <1>2, RemoveLemma
<1>4. f \in [Thd -> Seq(Thd)] /\ w \in [Sem -> Seq(Thd)] /\ d \in Seq(Thd)
  BY <1>2, <1>3
<1> HIDE DEF f, w, d
<1>5. v \in Kernel /\ v.snd = f /\ v.wait = w /\ v.delay = d
  BY <1>4 DEF Kernel
<1>6. /\ SameRest(v, s)
      /\ v.state = s.state /\ v.timeout = s.timeout /\ v.retval = s.retval
      /\ v.run = s.run /\ v.bitmap = s.bitmap /\ v.pend = s.pend
  BY DEF Kernel, SameRest
<1>. QED  BY <1>1, <1>5, <1>6 DEF f, w, d

\* What unlinking does not change.
LEMMA UnlinkRest ==
  ASSUME NEW s \in Kernel, NEW t
  PROVE  LET u == Unlink(s, t)
         IN  /\ SameRest(u, s)
             /\ u.state = s.state /\ u.retval = s.retval
BY DEF Unlink, SameRest, Kernel

\* Unlinking a thread takes it off every list but the run queues.
LEMMA Unlinked ==
  ASSUME NEW s, NEW R, NEW D, NEW S, NEW P, Good(s, R, D, S, P),
         NEW t \in Thd,
         t \in D <=> s.state[t] \in Timed,
         t \in S <=> s.state[t] \in Sending,
         t \in P <=> s.state[t] \in Pending
  PROVE  LET u == Unlink(s, t)
         IN  Good(u, R, D \ {t}, S \ {t}, P \ {t}) /\ Shrunk(u, s, {t})
<1> DEFINE u == Unlink(s, t)
<1>1. s \in Kernel  BY DEF Good
<1>2. /\ s.snd \in [Thd -> Seq(Thd)] /\ s.wait \in [Sem -> Seq(Thd)]
      /\ s.delay \in Seq(Thd)
  BY <1>1 DEF Kernel
<1>3. /\ IsInjective(s.delay) /\ ToSet(s.delay) = D
      /\ Listed(s.snd, S) /\ Listed(s.wait, P)
      /\ \A r \in Thd : IsInjective(s.snd[r])
      /\ \A x \in Sem : IsInjective(s.wait[x])
      /\ \A r \in Thd : \A z \in ToSet(s.snd[r]) : z \in S
      /\ \A x \in Sem : \A z \in ToSet(s.wait[x]) : z \in P
  <2>1. Listed(s.snd, S) /\ Listed(s.wait, P)  BY DEF Good
  <2>2. Apart(s.snd, S) /\ Apart(s.wait, P)
    BY <2>1, ListedDef
  <2>. QED  BY <1>2, <2>1, <2>2 DEF Good, Apart
<1>4. /\ u \in Kernel
      /\ u.snd = IF s.state[t] \in Sending
                 THEN [r \in Thd |-> RemoveFirst(s.snd[r], t)] ELSE s.snd
      /\ u.wait = IF s.state[t] \in Pending
                  THEN [x \in Sem |-> RemoveFirst(s.wait[x], t)] ELSE s.wait
      /\ u.delay = IF s.state[t] \in Timed THEN RemoveFirst(s.delay, t)
                                           ELSE s.delay
      /\ u.prio = s.prio /\ u.cur = s.cur
      /\ u.run = s.run /\ u.bitmap = s.bitmap /\ u.pend = s.pend
  BY <1>1, <1>3, UnlinkFields DEF SameRest
<1> HIDE DEF u
<1>5. /\ Listed(u.snd, S \ {t})
      /\ \A r \in Thd : ToSet(u.snd[r]) = ToSet(s.snd[r]) \ {t}
  <2>1. CASE s.state[t] \in Sending
    <3>1. u.snd = [r \in Thd |-> RemoveFirst(s.snd[r], t)]  BY <1>4, <2>1
    <3>2. DOMAIN u.snd = DOMAIN s.snd /\ DOMAIN s.snd = Thd
      BY <3>1, <1>2
    <3>3. \A r \in DOMAIN s.snd : /\ s.snd[r] \in Seq(Thd)
                                /\ u.snd[r] = RemoveFirst(s.snd[r], t)
      BY <3>1, <1>2
    <3>4. Listed(u.snd, S \ {t})  BY <3>2, <3>3, <1>3, ListedRemove
    <3>5. \A r \in Thd : ToSet(u.snd[r]) = ToSet(s.snd[r]) \ {t}
      BY <3>2, <3>3, <1>3, RemoveLemma
    <3>. QED  BY <3>4, <3>5
  <2>2. CASE s.state[t] \notin Sending
    <3>1. u.snd = s.snd /\ t \notin S  BY <1>4, <2>2
    <3>2. S \ {t} = S /\ \A r \in Thd : t \notin ToSet(s.snd[r])
      BY <3>1, <1>3
    <3>. QED  BY <3>1, <3>2, <1>3
  <2>. QED  BY <2>1, <2>2
<1>6. /\ Listed(u.wait, P \ {t})
      /\ \A x \in Sem : ToSet(u.wait[x]) = ToSet(s.wait[x]) \ {t}
  <2>1. CASE s.state[t] \in Pending
    <3>1. u.wait = [x \in Sem |-> RemoveFirst(s.wait[x], t)]  BY <1>4, <2>1
    <3>2. DOMAIN u.wait = DOMAIN s.wait /\ DOMAIN s.wait = Sem
      BY <3>1, <1>2
    <3>3. \A x \in DOMAIN s.wait : /\ s.wait[x] \in Seq(Thd)
                                /\ u.wait[x] = RemoveFirst(s.wait[x], t)
      BY <3>1, <1>2
    <3>4. Listed(u.wait, P \ {t})  BY <3>2, <3>3, <1>3, ListedRemove
    <3>5. \A x \in Sem : ToSet(u.wait[x]) = ToSet(s.wait[x]) \ {t}
      BY <3>2, <3>3, <1>3, RemoveLemma
    <3>. QED  BY <3>4, <3>5
  <2>2. CASE s.state[t] \notin Pending
    <3>1. u.wait = s.wait /\ t \notin P  BY <1>4, <2>2
    <3>2. P \ {t} = P /\ \A x \in Sem : t \notin ToSet(s.wait[x])
      BY <3>1, <1>3
    <3>. QED  BY <3>1, <3>2, <1>3
  <2>. QED  BY <2>1, <2>2
<1>7. IsInjective(u.delay) /\ ToSet(u.delay) = D \ {t}
  <2>1. CASE s.state[t] \in Timed  BY <2>1, <1>2, <1>3, <1>4, RemoveLemma
  <2>2. CASE s.state[t] \notin Timed  BY <2>2, <1>3, <1>4
  <2>. QED  BY <2>1, <2>2
<1>8. Queued(u, R) /\ Highest(u, R) /\ R \subseteq Thd
  BY <1>4 DEF Good, Queued, Highest
<1>9. Good(u, R, D \ {t}, S \ {t}, P \ {t})
  BY <1>4, <1>5, <1>6, <1>7, <1>8 DEF Good
<1>. QED  BY <1>5, <1>6, <1>9 DEF u, Shrunk

----------------------------------------------------------------------------
\* Threads wait only for mail of a thread, or for a semaphore, that is in
\* use: RMP_Thd_Crt and RMP_Sem_Crt may reset these lists.
Owners(s) ==
    /\ \A r \in Thd : s.snd[r] # <<>> => s.state[r] # "FREE"
    /\ \A x \in Sem : s.wait[x] # <<>> => x \in s.used

\* The lists of s are what the states of the threads say.
KInv(s) ==
    /\ Good(s, Ready(s), InState(s, Timed), InState(s, Sending),
            InState(s, Pending))
    /\ Idle \in Ready(s)
    /\ Owners(s)

\* u is s after the threads of T were woken.
Woken(u, s, T) ==
    /\ u.state = [x \in Thd |-> IF x \in T THEN "RUNNING" ELSE s.state[x]]
    /\ u.retval = s.retval
    /\ SameRest(u, s)
    /\ Shrunk(u, s, T)

\* Lists that lose elements, of owners that stay, keep Owners.
LEMMA OwnersShrink ==
  ASSUME NEW s \in Kernel, NEW u \in Kernel,
         \A r \in Thd : s.snd[r] # <<>> => u.state[r] # "FREE",
         \A x \in Sem : s.wait[x] # <<>> => x \in u.used,
         \A r \in Thd : ToSet(u.snd[r]) \subseteq ToSet(s.snd[r]),
         \A x \in Sem : ToSet(u.wait[x]) \subseteq ToSet(s.wait[x])
  PROVE  Owners(u)
<1>1. \A r \in Thd : s.snd[r] \in Seq(Thd) /\ u.snd[r] \in Seq(Thd)
  BY DEF Kernel
<1>2. \A x \in Sem : s.wait[x] \in Seq(Thd) /\ u.wait[x] \in Seq(Thd)
  BY DEF Kernel
<1>3. \A r \in Thd : u.snd[r] # <<>> => s.snd[r] # <<>>
  <2> TAKE r \in Thd
  <2>1. ToSet(s.snd[r]) = {} <=> s.snd[r] = <<>>  BY <1>1, EmptySet
  <2>2. ToSet(u.snd[r]) = {} <=> u.snd[r] = <<>>  BY <1>1, EmptySet
  <2>. QED  BY <2>1, <2>2
<1>4. \A x \in Sem : u.wait[x] # <<>> => s.wait[x] # <<>>
  <2> TAKE x \in Sem
  <2>1. ToSet(s.wait[x]) = {} <=> s.wait[x] = <<>>  BY <1>2, EmptySet
  <2>2. ToSet(u.wait[x]) = {} <=> u.wait[x] = <<>>  BY <1>2, EmptySet
  <2>. QED  BY <2>1, <2>2
<1>. QED  BY <1>3, <1>4 DEF Owners

\* Waking a blocked thread: from every list it is on to its run queue.
LEMMA WakeOne ==
  ASSUME NEW s, KInv(s), NEW t \in Thd, s.state[t] \in Blocked
  PROVE  KInv(Wake(s, t)) /\ Woken(Wake(s, t), s, {t})
<1> DEFINE l == Unlink(s, t)
           m == [l EXCEPT !.state[t] = "RUNNING"]
           u == Wake(s, t)
           R == Ready(s)
           D == InState(s, Timed) \ {t}
           S == InState(s, Sending) \ {t}
           P == InState(s, Pending) \ {t}
<1>1. /\ s \in Kernel
      /\ Good(s, R, InState(s, Timed), InState(s, Sending),
              InState(s, Pending))
  BY DEF KInv, Good
<1>2. /\ Good(l, R, D, S, P)
      /\ Shrunk(l, s, {t})
  <2>1. /\ t \in InState(s, Timed) <=> s.state[t] \in Timed
        /\ t \in InState(s, Sending) <=> s.state[t] \in Sending
        /\ t \in InState(s, Pending) <=> s.state[t] \in Pending
    BY DEF InState
  <2>2. Good(l, R, D, S, P)  BY <1>1, <2>1, Unlinked
  <2>3. Shrunk(l, s, {t})  BY <1>1, <2>1, Unlinked
  <2>. QED  BY <2>2, <2>3
<1>3. /\ l \in Kernel /\ SameRest(l, s)
      /\ l.state = s.state /\ l.retval = s.retval
  BY <1>1, <1>2, UnlinkRest DEF Good
<1> HIDE DEF l
<1>4. /\ m \in Kernel /\ SameRest(m, l) /\ SameLists(m, l)
      /\ m.state = [l.state EXCEPT ![t] = "RUNNING"]
      /\ m.pend = l.pend /\ m.retval = l.retval
  BY <1>3 DEF Kernel, SameRest, SameLists, ThdState
<1>5. u = Run_Ins(m, t)  BY DEF Wake, l
<1> HIDE DEF m, u
<1>6. Good(m, R, D, S, P)  BY <1>2, <1>4, GoodSame
<1>7. t \notin R  BY DEF Ready, Blocked, Sending, Pending
<1>8. /\ Good(u, IF t \in s.susp THEN R ELSE R \cup {t}, D, S, P)
      /\ u.state = m.state /\ u.retval = m.retval /\ SameRest(u, m)
      /\ u.snd = m.snd /\ u.wait = m.wait
  <2>1. m.susp = s.susp  BY <1>3, <1>4 DEF SameRest
  <2>. QED  BY <1>5, <1>6, <1>7, <2>1, RunInsAny
<1>9. u.state = [s.state EXCEPT ![t] = "RUNNING"] /\ s.state \in [Thd -> ThdState]
  BY <1>1, <1>3, <1>4, <1>8 DEF Kernel
<1>10. SameRest(u, s)  BY <1>3, <1>4, <1>8 DEF SameRest
<1>11. Woken(u, s, {t})
  <2>1. u.state = [x \in Thd |-> IF x \in {t} THEN "RUNNING" ELSE s.state[x]]
    BY <1>9
  <2>2. u.snd = l.snd /\ u.wait = l.wait /\ u.retval = s.retval
    BY <1>3, <1>4, <1>8 DEF SameLists
  <2>3. Shrunk(u, s, {t})  BY <2>2, <1>2 DEF Shrunk
  <2>. QED  BY <2>1, <2>2, <2>3, <1>10 DEF Woken
<1>12. /\ Ready(u) = IF t \in s.susp THEN R ELSE R \cup {t}
       /\ InState(u, Timed) = D
       /\ InState(u, Sending) = S
       /\ InState(u, Pending) = P
  BY <1>9, <1>10 DEF Ready, InState, SameRest, Timed, Sending, Pending
<1>13. Idle \in Ready(u)  BY <1>12 DEF KInv
<1>14. Owners(u)
  <2>1. u \in Kernel  BY <1>8 DEF Good
  <2>2. Owners(s)  BY DEF KInv
  <2>3. u.used = s.used  BY <1>10 DEF SameRest
  <2>4. /\ \A r \in Thd : s.snd[r] # <<>> => u.state[r] # "FREE"
        /\ \A x \in Sem : s.wait[x] # <<>> => x \in u.used
    BY <1>9, <2>2, <2>3 DEF Owners
  <2>5. /\ \A r \in Thd : ToSet(u.snd[r]) \subseteq ToSet(s.snd[r])
        /\ \A x \in Sem : ToSet(u.wait[x]) \subseteq ToSet(s.wait[x])
    BY <1>11 DEF Woken, Shrunk
  <2>. QED  BY <1>1, <2>1, <2>4, <2>5, OwnersShrink
<1>15. KInv(u)
  BY <1>8, <1>12, <1>13, <1>14 DEF KInv
<1>. QED  BY <1>11, <1>15 DEF u

----------------------------------------------------------------------------
\* The memories a waking loop goes through.
Chain(s, ts, n, f) ==
    f = [i \in 0..n |-> IF i = 0 THEN s ELSE Wake(f[i - 1], ts[i])]

\* It exists: a least length without one is neither 0 nor a successor.
LEMMA ChainExists ==
  ASSUME NEW s, NEW ts, NEW n \in Nat
  PROVE  \E f : Chain(s, ts, n, f)
<1> DEFINE Bad == {m \in Nat : ~\E f : Chain(s, ts, m, f)}
<1>1. SUFFICES ASSUME Bad # {}  PROVE FALSE
  OBVIOUS
<1>2. PICK m \in Bad : \A j \in Bad : m <= j
  BY <1>1, LeastNat
<1>3. CASE m = 0
  <2> DEFINE f == [i \in 0..0 |-> s]
  <2>1. f = [i \in 0..0 |-> IF i = 0 THEN s ELSE Wake(f[i - 1], ts[i])]
    OBVIOUS
  <2> HIDE DEF f
  <2>. QED  BY <2>1, <1>3, <1>2 DEF Chain
<1>4. CASE m # 0
  <2>1. m - 1 \in Nat /\ m - 1 \notin Bad /\ m \in Nat  BY <1>2, <1>4
  <2>2. PICK f : Chain(s, ts, m - 1, f)  BY <2>1
  <2> DEFINE g == [i \in 0..m |-> IF i = m THEN Wake(f[m - 1], ts[m])
                                           ELSE f[i]]
             h == [i \in 0..m |-> IF i = 0 THEN s ELSE Wake(g[i - 1], ts[i])]
  <2>3. \A i \in 0..(m - 1) : f[i] = IF i = 0 THEN s ELSE Wake(f[i - 1], ts[i])
    BY <2>2 DEF Chain
  <2>4. ASSUME NEW i \in 0..m  PROVE g[i] = h[i]
    <3>1. CASE i = m
      <4>1. m - 1 \in 0..m /\ m - 1 # m  BY <2>1
      <4>2. g[m - 1] = f[m - 1]  BY <4>1
      <4>. QED  BY <4>2, <3>1, <1>4
    <3>2. CASE i = 0  BY <3>2, <1>4, <2>1, <2>3
    <3>3. CASE i # 0 /\ i # m
      <4>1. i - 1 \in 0..m /\ i - 1 # m /\ i \in 0..(m - 1)  BY <3>3, <2>1
      <4>2. g[i - 1] = f[i - 1] /\ g[i] = f[i]  BY <4>1, <3>3
      <4>. QED  BY <4>1, <4>2, <3>3, <2>3
    <3>. QED  BY <3>1, <3>2, <3>3
  <2>5. g = h  BY <2>4
  <2>6. Chain(s, ts, m, g)  BY <2>5 DEF Chain
  <2>. QED  BY <2>6, <1>2
<1>. QED  BY <1>3, <1>4

\* WakeAll returns its last memory.
LEMMA WakeAllChain ==
  ASSUME NEW s, NEW ts, Len(ts) \in Nat
  PROVE  \E f : Chain(s, ts, Len(ts), f) /\ WakeAll(s, ts) = f[Len(ts)]
<1> DEFINE f == CHOOSE g : Chain(s, ts, Len(ts), g)
<1>1. Chain(s, ts, Len(ts), f)  BY ChainExists
<1>2. WakeAll(s, ts) = f[Len(ts)]  BY DEF WakeAll, Chain
<1>. QED  BY <1>1, <1>2

\* Waking T, then t.
LEMMA WokenStep ==
  ASSUME NEW s, NEW v, NEW u, NEW T, NEW t \in Thd,
         Woken(v, s, T), Woken(u, v, {t})
  PROVE  Woken(u, s, T \cup {t})
<1>1. u.state = [x \in Thd |-> IF x \in T \cup {t} THEN "RUNNING"
                                                  ELSE s.state[x]]
  BY DEF Woken
<1>2. u.retval = s.retval /\ SameRest(u, s)  BY DEF Woken, SameRest
<1>3. Shrunk(u, s, T \cup {t})
  <2>1. \A r \in Thd : ToSet(u.snd[r]) = ToSet(s.snd[r]) \ (T \cup {t})
    BY DEF Woken, Shrunk
  <2>2. \A x \in Sem : ToSet(u.wait[x]) = ToSet(s.wait[x]) \ (T \cup {t})
    BY DEF Woken, Shrunk
  <2>. QED  BY <2>1, <2>2 DEF Shrunk
<1>. QED  BY <1>1, <1>2, <1>3 DEF Woken

\* A waking loop over distinct blocked threads wakes them all.
LEMMA WakeEach ==
  ASSUME NEW s, KInv(s), NEW ts \in Seq(Thd), IsInjective(ts),
         \A x \in ToSet(ts) : s.state[x] \in Blocked
  PROVE  KInv(WakeAll(s, ts)) /\ Woken(WakeAll(s, ts), s, ToSet(ts))
<1> DEFINE n == Len(ts)
           T(i) == {ts[j] : j \in 1..i}
<1>1. n \in Nat /\ \A i \in 1..n : ts[i] \in Thd  OBVIOUS
<1>2. PICK f : Chain(s, ts, n, f) /\ WakeAll(s, ts) = f[n]
  BY <1>1, WakeAllChain
<1>3. /\ f[0] = s
      /\ \A i \in 1..n : f[i] = Wake(f[i - 1], ts[i])
  <2>1. \A i \in 0..n : f[i] = IF i = 0 THEN s ELSE Wake(f[i - 1], ts[i])
    BY <1>2 DEF Chain
  <2>2. 0 \in 0..n /\ \A i \in 1..n : i \in 0..n /\ i # 0  BY <1>1
  <2> HIDE DEF n
  <2>. QED  BY <2>1, <2>2
<1> DEFINE Ok(i) == KInv(f[i]) /\ Woken(f[i], s, T(i))
           Bad == {i \in 0..n : ~Ok(i)}
<1>4. Bad = {}
  <2>1. SUFFICES ASSUME Bad # {}  PROVE FALSE
    OBVIOUS
  <2>2. PICK m \in Bad : \A i \in Bad : m <= i
    <3>1. Bad \subseteq Nat  BY <1>1
    <3>. QED  BY <2>1, <3>1, LeastNat
  <2>3. m \in 0..n /\ ~Ok(m)  BY <2>2
  <2>4. CASE m = 0
    <3>1. T(0) = {}  OBVIOUS
    <3>2. s.state \in [Thd -> ThdState]  BY DEF KInv, Good, Kernel
    <3>3. Woken(s, s, {})  BY <3>2 DEF Woken, SameRest, Shrunk
    <3>. QED  BY <2>3, <2>4, <3>1, <3>3, <1>3
  <2>5. CASE m # 0
    <3>1. m \in 1..n /\ m - 1 \in 0..n /\ ~(m <= m - 1)
      BY <1>1, <2>3, <2>5
    <3>2. Ok(m - 1)  BY <2>2, <3>1
    <3> DEFINE v == f[m - 1]
    <3>3. KInv(v) /\ Woken(v, s, T(m - 1))  BY <3>2
    <3>4. f[m] = Wake(v, ts[m]) /\ ts[m] \in Thd  BY <1>1, <1>3, <3>1
    <3> HIDE DEF v
    <3>5. v.state[ts[m]] \in Blocked
      <4>1. ts[m] \in ToSet(ts)  BY <3>1, ToSetLemma
      <4>2. \A j \in 1..(m - 1) : ts[j] # ts[m]
        BY <1>1, <3>1 DEF IsInjective
      <4>3. ts[m] \notin T(m - 1)  BY <4>2
      <4>4. v.state[ts[m]] = s.state[ts[m]]
        BY <3>3, <3>4, <4>3 DEF Woken
      <4>. QED  BY <4>1, <4>4
    <3>6. KInv(f[m]) /\ Woken(f[m], v, {ts[m]})
      BY <3>3, <3>4, <3>5, WakeOne
    <3>7. T(m) = T(m - 1) \cup {ts[m]}
      <4>1. 1..m = 1..(m - 1) \cup {m}  BY <3>1
      <4>. QED  BY <4>1
    <3> DEFINE before == T(m - 1)
    <3>8. Woken(v, s, before)  BY <3>3
    <3> HIDE DEF before
    <3>9. Woken(f[m], s, before \cup {ts[m]})
      BY <3>4, <3>6, <3>8, WokenStep
    <3>. QED  BY <2>3, <3>6, <3>7, <3>9 DEF before
  <2>. QED  BY <2>4, <2>5
<1>5. Ok(n)
  <2> HIDE DEF n, Ok
  <2>1. n \in 0..n  BY <1>1
  <2>. QED  BY <2>1, <1>4
<1>6. T(n) = ToSet(ts)  BY DEF ToSet
<1>. QED  BY <1>2, <1>5, <1>6

----------------------------------------------------------------------------
(* What blocking the current thread, the context switch and the timer do.  *)

\* Timestamps wrap.
LEMMA WordMod ==
  ASSUME NEW a \in Int
  PROVE  a % W \in Word
<1>1. W \in Nat /\ W > 0  BY CoreAssumption
<1>. QED  BY <1>1 DEF Word

\* RMP_RET results are not looked at by Good.
LEMMA RetvalFields ==
  ASSUME NEW s \in Kernel, NEW T, NEW r \in {"ok", "err"}
  PROVE  LET u == SetRetval(s, T, r)
         IN  /\ u \in Kernel
             /\ SameLists(u, s) /\ SameRest(u, s)
             /\ u.state = s.state /\ u.pend = s.pend
             /\ u.snd = s.snd /\ u.wait = s.wait
BY DEF SetRetval, Kernel, SameLists, SameRest

\* _RMP_Dly_Ins adds the thread to the delay list.
LEMMA DlyIns ==
  ASSUME NEW s, NEW R, NEW D, NEW S, NEW P, Good(s, R, D, S, P),
         NEW t \in Thd, t \notin D, NEW n \in Word
  PROVE  LET u == Dly_Ins(s, t, n)
         IN  /\ Good(u, R, D \cup {t}, S, P)
             /\ SameRest(u, s)
             /\ u.state = s.state /\ u.pend = s.pend
             /\ u.snd = s.snd /\ u.wait = s.wait
<1> DEFINE later == {i \in DOMAIN s.delay :
                        ~Overflown(s, s.delay[i]) /\ Diff(s, s.delay[i]) >= n}
           place == IF later = {} THEN Len(s.delay) + 1 ELSE Min(later)
           d == InsertAt(s.delay, place, t)
           u == [s EXCEPT !.timeout[t] = (s.now + n) % W, !.delay = d]
<1>1. s \in Kernel /\ s.delay \in Seq(Thd) /\ s.now \in Word
  BY DEF Good, Kernel
<1>2. Dly_Ins(s, t, n) = u  BY DEF Dly_Ins
<1>3. place \in 1..(Len(s.delay) + 1)
  <2>1. DOMAIN s.delay = 1..Len(s.delay) /\ Len(s.delay) \in Nat  BY <1>1
  <2> HIDE DEF later
  <2>2. CASE later = {}  BY <2>1, <2>2
  <2>3. CASE later # {}
    <3>1. later \subseteq 1..Len(s.delay)  BY <2>1 DEF later
    <3>2. later \in SUBSET Nat  BY <3>1
    <3>3. Min(later) \in later  BY <2>3, <3>2, MinOfNats
    <3>4. place = Min(later) /\ Min(later) \in 1..Len(s.delay)
      BY <2>3, <3>1, <3>3
    <3> HIDE DEF place
    <3>. QED  BY <2>1, <3>4
  <2>. QED  BY <2>2, <2>3
<1> HIDE DEF place
<1>4. /\ d \in Seq(Thd) /\ ToSet(d) = D \cup {t} /\ IsInjective(d)
  <2>1. IsInjective(s.delay) /\ ToSet(s.delay) = D  BY DEF Good
  <2>. QED  BY <1>1, <1>3, <2>1, InsertLemma
<1> HIDE DEF d
<1>5. (s.now + n) % W \in Word
  <2>1. s.now + n \in Int  BY <1>1, CoreAssumption DEF Word
  <2>. QED  BY <2>1, WordMod
<1>6. u \in Kernel /\ u.delay = d  BY <1>1, <1>4, <1>5 DEF Kernel
<1>7. /\ SameRest(u, s) /\ u.state = s.state /\ u.pend = s.pend
      /\ u.snd = s.snd /\ u.wait = s.wait
      /\ u.run = s.run /\ u.bitmap = s.bitmap
  BY <1>1 DEF Kernel, SameRest
<1> HIDE DEF u
<1>8. Good(u, R, D \cup {t}, S, P)
  <2>1. u.prio = s.prio /\ u.cur = s.cur  BY <1>7 DEF SameRest
  <2>2. Queued(u, R) /\ Highest(u, R)
    BY <1>7, <2>1 DEF Good, Queued, Highest
  <2>. QED  BY <1>4, <1>6, <1>7, <2>2 DEF Good
<1>. QED  BY <1>2, <1>7, <1>8

\* u is s with the current thread in state v and a switch pended.
Parked(u, s, v) ==
    /\ u.state = [s.state EXCEPT ![s.cur] = v]
    /\ u.pend = 1
    /\ SameRest(u, s)
    /\ u.snd = s.snd /\ u.wait = s.wait

\* A current thread that blocks leaves its run queue, starts its timer if it
\* has a timeout, and always pends a switch.
LEMMA BlockCur ==
  ASSUME NEW s, NEW R, NEW D, NEW S, NEW P, Good(s, R, D, S, P),
         s.cur \notin D, s.cur \in R <=> s.cur \notin s.susp,
         NEW n \in Word, NEW forever \in ThdState, NEW timed \in ThdState
  PROVE  LET u == Block(s, n, forever, timed)
             v == IF n < SliceMax THEN timed ELSE forever
         IN  /\ Good(u, R \ {s.cur},
                     IF n < SliceMax THEN D \cup {s.cur} ELSE D, S, P)
             /\ Parked(u, s, v)
<1> DEFINE t == s.cur
           a == [s EXCEPT !.retval[t] = "ok"]
           off == Run_Del(a, t)
           x == IF n < SliceMax THEN Dly_Ins(off, t, n) ELSE off
           v == IF n < SliceMax THEN timed ELSE forever
           E == IF n < SliceMax THEN D \cup {t} ELSE D
           u == [x EXCEPT !.state[t] = v]
<1>1. s \in Kernel /\ t \in Thd  BY DEF Good, Kernel
<1>2. Block(s, n, forever, timed) = u  BY DEF Block
<1>3. /\ a \in Kernel /\ SameLists(a, s) /\ SameRest(a, s)
      /\ a.state = s.state /\ a.pend = s.pend
      /\ a.snd = s.snd /\ a.wait = s.wait
  BY <1>1 DEF Kernel, SameLists, SameRest
<1> HIDE DEF a
<1>4. Good(a, R, D, S, P)  BY <1>3, GoodSame
<1>5. a.susp = s.susp /\ a.cur = t  BY <1>3 DEF SameRest
<1>6. /\ Good(off, R \ {t}, D, S, P) /\ off.pend = 1 /\ SameRest(off, s)
      /\ off.state = s.state
      /\ off.snd = s.snd /\ off.wait = s.wait
  <2>1. t \in R <=> t \notin a.susp  BY <1>5
  <2>2. /\ Good(off, R \ {t}, D, S, P) /\ off.pend = 1 /\ SameRest(off, a)
        /\ off.state = a.state /\ off.snd = a.snd /\ off.wait = a.wait
    BY <1>1, <1>4, <1>5, <2>1, RunDelAny
  <2>. QED  BY <1>3, <2>2 DEF SameRest
<1> HIDE DEF off
<1>7. /\ Good(x, R \ {t}, E, S, P) /\ x.pend = 1 /\ SameRest(x, s)
      /\ x.state = s.state
      /\ x.snd = s.snd /\ x.wait = s.wait
  <2>1. CASE n < SliceMax
    <3>1. /\ Good(Dly_Ins(off, t, n), R \ {t}, D \cup {t}, S, P)
          /\ Dly_Ins(off, t, n).pend = off.pend
          /\ SameRest(Dly_Ins(off, t, n), off)
          /\ Dly_Ins(off, t, n).state = off.state
          /\ Dly_Ins(off, t, n).snd = off.snd
          /\ Dly_Ins(off, t, n).wait = off.wait
      BY <1>1, <1>6, DlyIns
    <3>. QED  BY <2>1, <3>1, <1>6 DEF SameRest
  <2>2. CASE ~(n < SliceMax)  BY <2>2, <1>6
  <2>. QED  BY <2>1, <2>2
<1> HIDE DEF x, E
<1>8. v \in ThdState /\ x \in Kernel  BY <1>7 DEF Good
<1> HIDE DEF v
<1>9. /\ u \in Kernel /\ SameLists(u, x) /\ u.pend = x.pend
      /\ SameRest(u, x) /\ u.state = [x.state EXCEPT ![t] = v]
      /\ u.snd = x.snd /\ u.wait = x.wait
  BY <1>8 DEF Kernel, SameLists, SameRest
<1> HIDE DEF u
<1>10. Good(u, R \ {t}, E, S, P)  BY <1>7, <1>9, GoodSame
<1>11. SameRest(u, s)  BY <1>7, <1>9 DEF SameRest
<1>12. Parked(u, s, v)  BY <1>7, <1>9, <1>11 DEF Parked
<1>. QED  BY <1>2, <1>10, <1>12 DEF v, E

----------------------------------------------------------------------------
\* Moving the head of a queue to the tail.
LEMMA RotateLemma ==
  ASSUME NEW T, NEW s \in Seq(T), s # <<>>, IsInjective(s)
  PROVE  LET q == Append(Tail(s), Head(s))
         IN  /\ q \in Seq(T) /\ q # <<>>
             /\ ToSet(q) = ToSet(s)
             /\ IsInjective(q)
<1> DEFINE h == Head(s)
           u == Tail(s)
           q == Append(u, h)
           n == Len(s)
<1>1. n \in Nat /\ n # 0 /\ h = s[1] /\ h \in T  OBVIOUS
<1>2. u \in Seq(T) /\ Len(u) = n - 1 /\ \A i \in 1..(n - 1) : u[i] = s[i + 1]
  OBVIOUS
<1>3. \A i, j \in 1..n : s[i] = s[j] => i = j  BY DEF IsInjective
<1>4. IsInjective(u)
  <2>1. ASSUME NEW i \in 1..(n - 1), NEW j \in 1..(n - 1), u[i] = u[j]
        PROVE  i = j
    <3>1. s[i + 1] = s[j + 1]  BY <1>2, <2>1
    <3> HIDE DEF n
    <3>2. i + 1 \in 1..n /\ j + 1 \in 1..n  BY <1>1
    <3>3. i + 1 = j + 1  BY <1>3, <3>1, <3>2
    <3>. QED  BY <3>3
  <2>2. DOMAIN u = 1..(n - 1)  BY <1>2
  <2>. QED  BY <2>1, <2>2 DEF IsInjective
<1> HIDE DEF n, h, u
<1>5. \A x : x \in ToSet(s) <=> \E i \in 1..n : s[i] = x
  BY ToSetLemma DEF n
<1>6. \A x : x \in ToSet(u) <=> \E i \in 1..(n - 1) : u[i] = x
  BY <1>2, ToSetLemma
<1>7. \A i \in 1..(n - 1) : i + 1 \in 1..n /\ i + 1 # 1  BY <1>1
<1>8. h \notin ToSet(u)
  <2>1. ASSUME NEW i \in 1..(n - 1), u[i] = h  PROVE FALSE
    <3>1. s[i + 1] = s[1] /\ 1 \in 1..n  BY <1>1, <1>2, <2>1
    <3>. QED  BY <1>3, <1>7, <3>1
  <2>. QED  BY <2>1, <1>6
<1>9. ToSet(s) = ToSet(u) \cup {h}
  <2>1. ASSUME NEW i \in 1..n, s[i] # h
        PROVE  \E j \in 1..(n - 1) : u[j] = s[i]
    <3>1. i # 1  BY <1>1, <2>1
    <3>2. i - 1 \in 1..(n - 1) /\ (i - 1) + 1 = i  BY <1>1, <3>1
    <3>3. u[i - 1] = s[i]  BY <1>2, <3>2
    <3>. QED  BY <3>2, <3>3
  <2>2. \A i \in 1..(n - 1) : u[i] \in ToSet(s)  BY <1>2, <1>5, <1>7
  <2>3. h \in ToSet(s)
    <3>1. 1 \in 1..n  BY <1>1
    <3>. QED  BY <1>1, <1>5, <3>1
  <2>. QED  BY <2>1, <2>2, <2>3, <1>5, <1>6
<1>10. q \in Seq(T) /\ ToSet(q) = ToSet(s) /\ IsInjective(q)
  BY <1>1, <1>2, <1>4, <1>8, <1>9, AppendLemma
<1>11. q # <<>>
  <2>1. ToSet(q) # {}  BY <1>9, <1>10
  <2>. QED  BY <1>10, <2>1, EmptySet
<1>. QED  BY <1>10, <1>11 DEF h, u

\* A prefix of a list without repetition.
LEMMA PrefixLemma ==
  ASSUME NEW T, NEW s \in Seq(T), IsInjective(s), NEW m \in 0..Len(s)
  PROVE  LET q == SubSeq(s, 1, m)
         IN  q \in Seq(T) /\ IsInjective(q) /\ ToSet(q) \subseteq ToSet(s)
<1> DEFINE q == SubSeq(s, 1, m)
<1>1. q \in Seq(T) /\ Len(q) = m /\ \A i \in 1..m : q[i] = s[i]
  OBVIOUS
<1>2. 1..m \subseteq 1..Len(s) /\ DOMAIN q = 1..m  OBVIOUS
<1> HIDE DEF q
<1>3. IsInjective(q)
  <2>1. \A i, j \in 1..Len(s) : s[i] = s[j] => i = j  BY DEF IsInjective
  <2>2. \A i, j \in 1..m : q[i] = q[j] => i = j  BY <1>1, <1>2, <2>1
  <2>. QED  BY <1>2, <2>2 DEF IsInjective
<1>4. ToSet(q) \subseteq ToSet(s)
  <2>1. ASSUME NEW x \in ToSet(q)  PROVE x \in ToSet(s)
    <3>1. PICK i \in 1..m : q[i] = x  BY <1>1, ToSetLemma
    <3>2. s[i] = x /\ i \in 1..Len(s)  BY <1>1, <1>2, <3>1
    <3>. QED  BY <3>2, ToSetLemma
  <2>. QED  BY <2>1
<1>. QED  BY <1>1, <1>3, <1>4 DEF q

\* Max of a nonempty set of priorities.
LEMMA MaxOfPrio ==
  ASSUME NEW B \in SUBSET Prio, B # {}
  PROVE  Max(B) \in B /\ \A b \in B : b <= Max(B)
<1>1. PrioNum \in Nat  BY CoreAssumption
<1> DEFINE C == {PrioNum - 1 - b : b \in B}
<1>2. C \in SUBSET Nat /\ C # {}
  <2>1. \A b \in Prio : PrioNum - 1 - b \in Nat  BY <1>1 DEF Prio
  <2>. QED  BY <2>1
<1>3. PICK c \in C : \A d \in C : c <= d  BY <1>2, LeastNat
<1>4. PICK m \in B : c = PrioNum - 1 - m  BY <1>3
<1>5. \A b \in B : m >= b
  <2> TAKE b \in B
  <2>1. c <= PrioNum - 1 - b  BY <1>3
  <2>2. b \in Int /\ m \in Int  BY <1>1 DEF Prio
  <2>. QED  BY <1>1, <1>4, <2>1, <2>2
<1>6. Max(B) \in B /\ \A b \in B : Max(B) >= b  BY <1>5 DEF Max
<1>7. \A b \in B : b \in Int  BY <1>1 DEF Prio
<1>. QED  BY <1>6, <1>7

----------------------------------------------------------------------------
\* The invariant, of the memory between two critical sections.
Safe(s) ==
    /\ KInv(s)
    /\ s.lock = 0 /\ s.pend = 1 => s.soft = 1
    /\ s.soft = 1 => s.lock = 0
    /\ s.panic = 0 /\ s.soft = 0 => s.state[s.cur] = "RUNNING"

\* What holds at the end of a critical section, before Leave.
Inner(s) ==
    /\ KInv(s)
    /\ s.soft = 1 => s.lock = 0
    /\ s.panic = 0 /\ s.lock > 0 => s.state[s.cur] = "RUNNING"

\* Leave requests the switch that is due: if none is pended, the current
\* thread heads the highest queue.
LEMMA LeaveSafe ==
  ASSUME NEW s, Inner(s)
  PROVE  Safe(Leave(s))
<1> DEFINE u == Leave(s)
<1>1. s \in Kernel /\ KInv(s)  BY DEF Inner, KInv, Good
<1>2. s.lock \in Nat /\ s.pend \in {0, 1}
  <2>1. s.lock \in 0..LockMax /\ s.pend \in {0, 1}  BY <1>1 DEF Kernel
  <2>. QED  BY <2>1, CoreAssumption
<1>3. CASE s.lock = 0 /\ s.pend = 1
  <2>1. u = [s EXCEPT !.soft = 1]  BY <1>3 DEF Leave
  <2>2. /\ u \in Kernel /\ SameLists(u, s) /\ u.pend = s.pend
        /\ u.state = s.state /\ u.susp = s.susp /\ u.used = s.used
        /\ u.soft = 1 /\ u.lock = s.lock /\ u.panic = s.panic
    <3> HIDE DEF u
    <3>1. u \in Kernel  BY <1>1, <2>1 DEF Kernel
    <3>2. /\ u.soft = 1 /\ u.lock = s.lock /\ u.panic = s.panic
          /\ u.pend = s.pend /\ u.state = s.state /\ u.susp = s.susp
          /\ u.used = s.used /\ SameLists(u, s)
      BY <1>1, <2>1 DEF Kernel, SameLists
    <3>. QED  BY <3>1, <3>2
  <2> HIDE DEF u
  <2>3. /\ Ready(u) = Ready(s)
        /\ \A S : InState(u, S) = InState(s, S)
    BY <2>2 DEF Ready, InState
  <2>4. Good(u, Ready(u), InState(u, Timed), InState(u, Sending),
             InState(u, Pending))
    BY <1>1, <2>2, <2>3, GoodSame DEF KInv
  <2>5. Owners(u)  BY <1>1, <2>2 DEF KInv, Owners, SameLists
  <2>6. KInv(u)  BY <1>1, <2>3, <2>4, <2>5 DEF KInv
  <2>. QED  BY <1>3, <2>2, <2>6 DEF Safe, u
<1>4. CASE ~(s.lock = 0 /\ s.pend = 1)
  <2>1. u = s  BY <1>4 DEF Leave
  <2>2. CASE s.lock = 0
    <3>1. s.pend = 0  BY <1>2, <1>4, <2>2
    <3>2. s.cur \in Ready(s)  BY <1>1, <3>1 DEF KInv, Good, Highest
    <3>3. s.state[s.cur] = "RUNNING"  BY <3>2 DEF Ready
    <3>. QED  BY <1>1, <2>1, <2>2, <3>1, <3>3 DEF Safe
  <2>3. CASE s.lock # 0
    <3>1. s.lock > 0  BY <1>2, <2>3
    <3>. QED  BY <1>1, <2>1, <2>3, <3>1 DEF Safe, Inner
  <2>. QED  BY <2>2, <2>3
<1>. QED  BY <1>3, <1>4

\* A critical section starts from a safe memory.
LEMMA SafeInner ==
  ASSUME NEW s, Safe(s)
  PROVE  /\ Inner(s) /\ s \in Kernel /\ KInv(s)
         /\ s.lock > 0 => s.soft = 0
<1>1. KInv(s)  BY DEF Safe
<1>2. s \in Kernel  BY <1>1 DEF KInv, Good
<1>3. s.lock \in Nat /\ s.soft \in {0, 1}
  <2>1. s.lock \in 0..LockMax /\ s.soft \in {0, 1}  BY <1>2 DEF Kernel
  <2>. QED  BY <2>1, CoreAssumption
<1>4. s.lock > 0 => s.soft = 0  BY <1>3 DEF Safe
<1>5. Inner(s)  BY <1>1, <1>4 DEF Safe, Inner
<1>. QED  BY <1>1, <1>2, <1>4, <1>5

\* Changing fields that KInv does not look at, or pending a switch.
LEMMA KInvSame ==
  ASSUME NEW s, NEW u \in Kernel, KInv(s), SameLists(u, s),
         u.pend = s.pend \/ u.pend = 1,
         u.state = s.state, u.susp = s.susp, u.used = s.used
  PROVE  KInv(u)
<1>1. /\ Ready(u) = Ready(s)
      /\ InState(u, Timed) = InState(s, Timed)
      /\ InState(u, Sending) = InState(s, Sending)
      /\ InState(u, Pending) = InState(s, Pending)
  BY DEF Ready, InState
<1>2. Good(u, Ready(u), InState(u, Timed), InState(u, Sending),
           InState(u, Pending))
  BY <1>1, GoodSame DEF KInv
<1>3. Owners(u)  BY DEF KInv, Owners, SameLists
<1>. QED  BY <1>1, <1>2, <1>3 DEF KInv

\* Waking threads keeps what holds inside a critical section.
LEMMA WokenInner ==
  ASSUME NEW s, NEW u, NEW T, Inner(s), KInv(u), Woken(u, s, T)
  PROVE  Inner(u)
<1>1. u.soft = s.soft /\ u.lock = s.lock /\ u.panic = s.panic /\ u.cur = s.cur
  BY DEF Woken, SameRest
<1>2. s.cur \in Thd  BY DEF Inner, KInv, Good, Kernel
<1>3. u.state[s.cur] = "RUNNING" \/ u.state[s.cur] = s.state[s.cur]
  BY <1>2 DEF Woken
<1>. QED  BY <1>1, <1>3 DEF Inner

\* Setting return values does, too.
LEMMA RetvalInner ==
  ASSUME NEW s, NEW T, NEW r \in {"ok", "err"}, Inner(s)
  PROVE  Inner(SetRetval(s, T, r))
<1> DEFINE u == SetRetval(s, T, r)
<1>1. s \in Kernel /\ KInv(s)  BY DEF Inner, KInv, Good
<1>2. /\ u \in Kernel /\ SameLists(u, s) /\ SameRest(u, s)
      /\ u.state = s.state /\ u.pend = s.pend
  BY <1>1, RetvalFields
<1> HIDE DEF u
<1>3. KInv(u)  BY <1>1, <1>2, KInvSame DEF SameRest
<1>4. Inner(u)  BY <1>2, <1>3 DEF Inner, SameRest
<1>. QED  BY <1>4 DEF u

----------------------------------------------------------------------------
\* What _RMP_Run_High writes.
Switched(u, s, c, r, e) ==
    u = [s EXCEPT !.pend = 0, !.soft = 0, !.run = r, !.left = e, !.cur = c]

\* It leaves the other fields alone, and every field keeps its type.
LEMMA SwitchFields ==
  ASSUME NEW s \in Kernel, NEW c \in Thd,
         NEW r \in [Prio -> Seq(Thd)], NEW e \in [Thd -> Word],
         NEW u, Switched(u, s, c, r, e)
  PROVE  /\ u \in Kernel
         /\ u.run = r /\ u.cur = c /\ u.pend = 0 /\ u.soft = 0
         /\ u.state = s.state /\ u.susp = s.susp /\ u.used = s.used
         /\ u.prio = s.prio /\ u.bitmap = s.bitmap
         /\ u.delay = s.delay /\ u.snd = s.snd /\ u.wait = s.wait
         /\ u.lock = s.lock
<1>1. u \in Kernel  BY DEF Kernel, Switched
<1>2. u.run = r /\ u.cur = c /\ u.pend = 0 /\ u.soft = 0
  BY DEF Kernel, Switched
<1>3. /\ u.state = s.state /\ u.susp = s.susp /\ u.used = s.used
      /\ u.prio = s.prio /\ u.bitmap = s.bitmap
      /\ u.delay = s.delay /\ u.snd = s.snd /\ u.wait = s.wait
      /\ u.lock = s.lock
  BY DEF Kernel, Switched
<1>. QED  BY <1>1, <1>2, <1>3

\* _RMP_Run_High finds a thread to run, which is ready.
LEMMA RunHigh ==
  ASSUME NEW s, KInv(s), s.lock = 0
  PROVE  Safe(Run_High(s))
<1> DEFINE p == Max(s.bitmap)
           h == Head(s.run[p])
           q == IF s.cur = h THEN Append(Tail(s.run[p]), s.cur) ELSE s.run[p]
           r == [s.run EXCEPT ![p] = q]
           e == [s.left EXCEPT ![s.cur] = s.slice[s.cur]]
           c == Head(q)
           u == [s EXCEPT !.pend = 0, !.soft = 0, !.run = r, !.left = e,
                          !.cur = c]
           R == Ready(s)
<1>1. /\ s \in Kernel /\ Queued(s, R) /\ Idle \in R /\ R \subseteq Thd
  BY DEF KInv, Good
<1>2. /\ s.run \in [Prio -> Seq(Thd)] /\ s.bitmap \in SUBSET Prio
      /\ s.left \in [Thd -> Word] /\ s.slice \in [Thd -> Word]
      /\ s.prio \in [Thd -> Prio] /\ s.cur \in Thd
  BY <1>1 DEF Kernel
<1>3. s.bitmap # {}
  <2>1. s.prio[Idle] \in Prio  BY <1>2, CoreAssumption
  <2>2. Idle \in ToSet(s.run[s.prio[Idle]])  BY <1>1, <2>1 DEF Queued
  <2>3. s.run[s.prio[Idle]] # <<>>  BY <1>2, <2>1, <2>2, EmptySet
  <2>. QED  BY <1>1, <2>1, <2>3 DEF Queued
<1>4. p \in s.bitmap /\ p \in Prio /\ \A b \in s.bitmap : b <= p
  BY <1>2, <1>3, MaxOfPrio
<1> HIDE DEF p
<1>5. /\ s.run[p] \in Seq(Thd) /\ s.run[p] # <<>> /\ IsInjective(s.run[p])
      /\ ToSet(s.run[p]) = {t \in R : s.prio[t] = p}
  BY <1>1, <1>2, <1>4 DEF Queued
<1>6. /\ q \in Seq(Thd) /\ q # <<>> /\ IsInjective(q)
      /\ ToSet(q) = ToSet(s.run[p])
  <2>1. CASE s.cur = h  BY <2>1, <1>5, RotateLemma
  <2>2. CASE s.cur # h  BY <2>2, <1>5
  <2>. QED  BY <2>1, <2>2
<1> HIDE DEF q
<1>7. Head(q) \in ToSet(q)
  <2>1. 1 \in 1..Len(q) /\ Head(q) = q[1]  BY <1>6
  <2>. QED  BY <1>6, <2>1, ToSetLemma
<1>8. c \in R /\ c \in Thd /\ s.prio[c] = p
  BY <1>1, <1>5, <1>6, <1>7
<1>9. r \in [Prio -> Seq(Thd)] /\ e \in [Thd -> Word]  BY <1>2, <1>4, <1>6
<1>10. Run_High(s) = u  BY DEF Run_High, p, q
<1>11. \A x \in Prio : r[x] = IF x = p THEN q ELSE s.run[x]  BY <1>2
<1> HIDE DEF r, e
<1>12. /\ u \in Kernel
       /\ u.run = r /\ u.cur = c /\ u.pend = 0 /\ u.soft = 0
       /\ u.state = s.state /\ u.susp = s.susp /\ u.used = s.used
       /\ u.prio = s.prio /\ u.bitmap = s.bitmap
       /\ u.delay = s.delay /\ u.snd = s.snd /\ u.wait = s.wait
       /\ u.lock = s.lock
  <2> HIDE DEF c
  <2>1. Switched(u, s, c, r, e)  BY DEF Switched
  <2> HIDE DEF u
  <2>. QED  BY <1>1, <1>8, <1>9, <2>1, SwitchFields
<1> HIDE DEF u
<1>13. Queued(u, R)
  <2> SUFFICES ASSUME NEW x \in Prio
               PROVE  /\ IsInjective(u.run[x])
                      /\ ToSet(u.run[x]) = {t \in R : u.prio[t] = x}
                      /\ x \in u.bitmap <=> u.run[x] # <<>>
    BY DEF Queued
  <2>1. CASE x = p
    <3>1. u.run[x] = q  BY <2>1, <1>11, <1>12
    <3>. QED  BY <2>1, <3>1, <1>4, <1>5, <1>6, <1>12
  <2>2. CASE x # p
    <3>1. u.run[x] = s.run[x]  BY <2>2, <1>11, <1>12
    <3>. QED  BY <3>1, <1>1, <1>12 DEF Queued
  <2>. QED  BY <2>1, <2>2
<1>14. Highest(u, R)
  <2>1. u.run[p] = q  BY <1>4, <1>11, <1>12
  <2>. QED  BY <2>1, <1>4, <1>8, <1>12 DEF Highest
<1>15. /\ Ready(u) = R
       /\ InState(u, Timed) = InState(s, Timed)
       /\ InState(u, Sending) = InState(s, Sending)
       /\ InState(u, Pending) = InState(s, Pending)
  BY <1>12 DEF Ready, InState
<1>16. Good(u, Ready(u), InState(u, Timed), InState(u, Sending),
            InState(u, Pending))
  BY <1>1, <1>12, <1>13, <1>14, <1>15 DEF KInv, Good
<1>17. KInv(u)
  <2>1. Owners(u)  BY <1>12 DEF KInv, Owners
  <2>. QED  BY <1>1, <1>15, <1>16, <2>1 DEF KInv
<1>18. u.state[u.cur] = "RUNNING"  BY <1>8, <1>12 DEF Ready
<1>. QED  BY <1>10, <1>12, <1>17, <1>18 DEF Safe

\* _RMP_Tim_Proc takes a prefix of the delay list, of timers that have passed,
\* up to the first that has not.
LEMMA ExpiredPrefix ==
  ASSUME NEW s, s.delay \in Seq(Thd)
  PROVE  \E m \in 0..Len(s.delay) :
            /\ Expired(s) = SubSeq(s.delay, 1, m)
            /\ \A i \in 1..m : Overflown(s, s.delay[i])
            /\ m # Len(s.delay) => ~Overflown(s, s.delay[m + 1])
<1> DEFINE alive == {i \in DOMAIN s.delay : ~Overflown(s, s.delay[i])}
           m == IF alive = {} THEN Len(s.delay) ELSE Min(alive) - 1
<1>1. DOMAIN s.delay = 1..Len(s.delay) /\ Len(s.delay) \in Nat  OBVIOUS
<1>2. \A i \in 1..Len(s.delay) : i \notin alive => Overflown(s, s.delay[i])
  BY <1>1
<1>3. \A i \in alive : ~Overflown(s, s.delay[i])  OBVIOUS
<1>4. alive \subseteq 1..Len(s.delay)  BY <1>1
<1>5. Expired(s) = SubSeq(s.delay, 1, m)  BY DEF Expired
<1> HIDE DEF alive
<1>6. CASE alive = {}
  <2>1. m = Len(s.delay)  BY <1>6
  <2> HIDE DEF m
  <2>. QED  BY <1>1, <1>2, <1>5, <1>6, <2>1
<1>7. CASE alive # {}
  <2>1. alive \in SUBSET Nat  BY <1>4
  <2>2. Min(alive) \in alive /\ \A i \in alive : Min(alive) <= i
    BY <1>7, <2>1, MinOfNats
  <2>3. m = Min(alive) - 1 /\ Min(alive) \in 1..Len(s.delay)
    BY <1>4, <1>7, <2>2
  <2> HIDE DEF m
  <2>4. m \in 0..Len(s.delay) /\ m + 1 = Min(alive)  BY <1>1, <2>3
  <2>5. \A i \in 1..m : i \in 1..Len(s.delay) /\ ~(Min(alive) <= i)
    BY <1>1, <2>3, <2>4
  <2>6. \A i \in 1..m : Overflown(s, s.delay[i])  BY <1>2, <2>2, <2>5
  <2>7. ~Overflown(s, s.delay[m + 1])  BY <1>3, <2>2, <2>4
  <2>. QED  BY <1>5, <2>4, <2>6, <2>7
<1>. QED  BY <1>6, <1>7

\* The timer interrupt wakes the threads at the front of the delay list.
LEMMA WakeExpired ==
  ASSUME NEW s, KInv(s)
  PROVE  LET ts == Expired(s)
             u  == WakeAll(s, ts)
         IN  /\ ts \in Seq(Thd) /\ IsInjective(ts)
             /\ ToSet(ts) \subseteq ToSet(s.delay)
             /\ \A x \in ToSet(ts) : x \in Thd /\ s.state[x] \in Timed
             /\ KInv(u) /\ Woken(u, s, ToSet(ts))
<1> DEFINE ts == Expired(s)
           u == WakeAll(s, ts)
<1>1. /\ s \in Kernel
      /\ IsInjective(s.delay) /\ ToSet(s.delay) = InState(s, Timed)
  BY DEF KInv, Good
<1>2. s.delay \in Seq(Thd)  BY <1>1 DEF Kernel
<1>3. PICK m \in 0..Len(s.delay) : ts = SubSeq(s.delay, 1, m)
  BY <1>2, ExpiredPrefix
<1> HIDE DEF ts
<1>4. ts \in Seq(Thd) /\ IsInjective(ts) /\ ToSet(ts) \subseteq ToSet(s.delay)
  BY <1>1, <1>2, <1>3, PrefixLemma
<1>5. \A x \in ToSet(ts) : x \in Thd /\ s.state[x] \in Timed
  BY <1>1, <1>4 DEF InState
<1>6. \A x \in ToSet(ts) : s.state[x] \in Blocked
  BY <1>5 DEF Timed, Blocked, Sending, Pending
<1>7. KInv(u) /\ Woken(u, s, ToSet(ts))  BY <1>4, <1>6, WakeEach
<1>. QED  BY <1>4, <1>5, <1>7 DEF ts

\* _RMP_Tim_Proc keeps what holds inside a critical section.
LEMMA TimProc ==
  ASSUME NEW s, Inner(s)
  PROVE  Inner(Tim_Proc(s))
<1> DEFINE u == WakeAll(s, Expired(s))
<1>1. KInv(s)  BY DEF Inner
<1>2. KInv(u) /\ Woken(u, s, ToSet(Expired(s)))  BY <1>1, WakeExpired
<1> HIDE DEF u
<1>3. Inner(u)  BY <1>2, WokenInner
<1>. QED  BY <1>3, RetvalInner DEF Tim_Proc, u

\* The memory as _RMP_Tim_Handler passes it to _RMP_Tim_Proc.
Elapsed(s, n) ==
    [s EXCEPT !.now = (@ + n) % W,
              !.pend = IF n >= s.left[s.cur] THEN 1 ELSE @,
              !.left[s.cur] = IF n >= @ THEN @ ELSE @ - n]

\* n slices later nothing has changed but the clock and the slice in progress.
LEMMA ElapsedFields ==
  ASSUME NEW s, KInv(s), NEW n \in Word
  PROVE  LET u == Elapsed(s, n)
         IN  /\ Tim_Handler(s, n) = Tim_Proc(u) /\ KInv(u)
             /\ u.now = (s.now + n) % W /\ SameLists(u, s)
             /\ u.state = s.state /\ u.susp = s.susp /\ u.used = s.used
             /\ u.soft = s.soft /\ u.lock = s.lock /\ u.panic = s.panic
             /\ u.full = s.full /\ u.num = s.num /\ u.retval = s.retval
             /\ u.timeout = s.timeout
<1> DEFINE l == s.left[s.cur]
           p == IF n >= l THEN 1 ELSE s.pend
           e == [s.left EXCEPT ![s.cur] = IF n >= l THEN l ELSE l - n]
           u == [s EXCEPT !.now = (s.now + n) % W, !.pend = p, !.left = e]
<1>1. s \in Kernel  BY DEF KInv, Good
<1>2. /\ s.now \in Word /\ s.cur \in Thd /\ s.left \in [Thd -> Word]
      /\ s.pend \in {0, 1}
  BY <1>1 DEF Kernel
<1>3. (s.now + n) % W \in Word
  <2>1. s.now + n \in Int  BY <1>2, CoreAssumption DEF Word
  <2>. QED  BY <2>1, WordMod
<1>4. e \in [Thd -> Word] /\ p \in {0, 1}
  <2>1. l \in Word  BY <1>2
  <2>2. ~(n >= l) => l - n \in Word  BY <2>1, CoreAssumption DEF Word
  <2> HIDE DEF l
  <2>. QED  BY <1>2, <2>1, <2>2
<1>5. Elapsed(s, n) = u /\ Tim_Handler(s, n) = Tim_Proc(u)
  BY DEF Tim_Handler, Elapsed
<1> HIDE DEF e, p
<1>6. u \in Kernel  BY <1>1, <1>3, <1>4 DEF Kernel
<1>7. /\ SameLists(u, s) /\ u.pend = p /\ u.now = (s.now + n) % W
      /\ u.state = s.state /\ u.susp = s.susp /\ u.used = s.used
      /\ u.soft = s.soft /\ u.lock = s.lock /\ u.panic = s.panic
      /\ u.full = s.full /\ u.num = s.num /\ u.retval = s.retval
      /\ u.timeout = s.timeout
  BY <1>1 DEF Kernel, SameLists
<1> HIDE DEF u
<1>8. u.pend = s.pend \/ u.pend = 1  BY <1>7 DEF p
<1>9. KInv(u)  BY <1>1, <1>6, <1>7, <1>8, KInvSame
<1>. QED  BY <1>5, <1>7, <1>9

\* The timer handler keeps what holds inside a critical section.
LEMMA TimHandler ==
  ASSUME NEW s, Inner(s), NEW n \in Word
  PROVE  Inner(Tim_Handler(s, n))
<1> DEFINE u == Elapsed(s, n)
<1>1. KInv(s)  BY DEF Inner
<1>2. /\ Tim_Handler(s, n) = Tim_Proc(u) /\ KInv(u) /\ u.state = s.state
      /\ u.soft = s.soft /\ u.lock = s.lock /\ u.panic = s.panic
      /\ SameLists(u, s)
  BY <1>1, ElapsedFields
<1> HIDE DEF u
<1>3. Inner(u)  BY <1>2 DEF Inner, SameLists
<1>. QED  BY <1>2, <1>3, TimProc
=============================================================================
