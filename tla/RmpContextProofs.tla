-------------------------- MODULE RmpContextProofs --------------------------
(***************************************************************************)
(* The context switch, for any number of threads and any port whose frames *)
(* match (Switchable): a thread comes back to its own registers, with      *)
(* interrupts enabled, and no request to switch is lost.                   *)
(***************************************************************************)
EXTENDS RmpContext, RmpListProofs

----------------------------------------------------------------------------
(* Values and frames.                                                      *)

Version == {"new", "a", "b"}
Value(p) == (Threads \cup {"junk"}) \X (Version \cup {"junk"})
            \X (File(p) \cup ToSet(p.new) \cup {<<"junk", 0>>})
Cell(p) == [v : Value(p), ie : BOOLEAN]
Machine(p) == [cpu : [File(p) -> Value(p)], stk : [Threads -> Seq(Cell(p))],
               ie : BOOLEAN, cur : Threads]

\* The registers a thread needs in version v, the frame it leaves, and what
\* stays on its stack: Needed and Rest, of any port and version.
Wanted(p, v) == CASE v = "new" -> p.entry
                  [] v = "a"   -> File(p) \ FPU(p)
                  [] v = "b"   -> File(p)
Frame(p, v) == p.yield.pop[v = "b"]
Left(p, t) == IF t = Start THEN <<>>
              ELSE SubSeq(Stack_Init(p, t), Len(p.new) - Len(p.over) + 1, Len(p.new))

\* A stack q is the frame list of thread t in version v, before what is left.
Framed(p, q, t, v, list) ==
    /\ Len(list) <= Len(q)
    /\ SubSeq(q, Len(list) + 1, Len(q)) = Left(p, t)
    /\ \A n \in 1..Len(list) : list[n] \in Wanted(p, v) => q[n].v = <<t, v, list[n]>>

\* What the thread needs and the frame list does not hold is in the registers.
Kept(p, s, v, list) ==
    \A r \in Wanted(p, v) \ ToSet(list) : s.cpu[r] = <<s.cur, v, r>>

\* A status word in the frame list has the interrupt flag set.
Open(p, q, list) == \A n \in 1..Len(list) : list[n] = p.stat => q[n].ie

----------------------------------------------------------------------------
(* Frames that match.                                                      *)

LEMMA ReverseFacts ==
  ASSUME NEW T, NEW s \in Seq(T)
  PROVE  /\ Reverse(s) \in Seq(T) /\ Len(Reverse(s)) = Len(s)
         /\ \A n \in 1..Len(s) : Reverse(s)[n] = s[Len(s) - n + 1]
         /\ ToSet(Reverse(s)) = ToSet(s)
<1>1. /\ Reverse(s) \in Seq(T) /\ Len(Reverse(s)) = Len(s)
      /\ \A n \in 1..Len(s) : Reverse(s)[n] = s[Len(s) - n + 1]
  BY DEF Reverse
<1>2. ASSUME NEW n \in 1..Len(s)
      PROVE  Len(s) - n + 1 \in 1..Len(s) /\ Len(s) - (Len(s) - n + 1) + 1 = n
  OBVIOUS
<1>3. ToSet(s) \subseteq ToSet(Reverse(s))
  <2> SUFFICES ASSUME NEW x \in ToSet(s)  PROVE x \in ToSet(Reverse(s))
    OBVIOUS
  <2>1. PICK n \in 1..Len(s) : s[n] = x  BY ToSetLemma
  <2>2. Reverse(s)[Len(s) - n + 1] = x  BY <1>1, <1>2, <2>1
  <2>. QED  BY <1>1, <1>2, <2>2, ToSetLemma
<1>4. ToSet(Reverse(s)) \subseteq ToSet(s)
  <2> SUFFICES ASSUME NEW x \in ToSet(Reverse(s))  PROVE x \in ToSet(s)
    OBVIOUS
  <2>1. PICK n \in 1..Len(s) : Reverse(s)[n] = x  BY <1>1, ToSetLemma
  <2>. QED  BY <1>1, <1>2, <2>1, ToSetLemma
<1>. QED  BY <1>1, <1>3, <1>4

LEMMA ConcatFacts ==
  ASSUME NEW T, NEW w \in Seq(T), NEW q \in Seq(T)
  PROVE  /\ w \o q \in Seq(T) /\ Len(w \o q) = Len(w) + Len(q)
         /\ \A n \in 1..Len(w) : (w \o q)[n] = w[n]
         /\ SubSeq(w \o q, Len(w) + 1, Len(w \o q)) = q
<1>1. /\ w \o q \in Seq(T) /\ Len(w \o q) = Len(w) + Len(q)
      /\ \A n \in 1..Len(w) : (w \o q)[n] = w[n]
  OBVIOUS
<1>2. SubSeq(w \o q, Len(w) + 1, Len(w) + Len(q)) = q  BY SubSeqOfConcat2
<1>. QED  BY <1>1, <1>2

LEMMA EmptySet == ToSet(<<>>) = {}
BY DEF ToSet

\* The ways in and out of a thread.
Paths(p) == {p.yield, p.ctx, p.int}

LEMMA PathFacts ==
  ASSUME NEW p, Switchable(p), NEW path \in Paths(p), NEW x \in BOOLEAN
  PROVE  /\ path.push[x] \in Seq(File(p)) /\ path.pop[x] \in Seq(File(p))
         /\ path.pop[x] = Reverse(path.push[x])
         /\ Len(path.pop[x]) = Len(path.push[x])
         /\ ToSet(path.pop[x]) = ToSet(path.push[x])
         /\ ToSet(path.pop[x]) \subseteq File(p)
         /\ \A i, j \in 1..Len(path.pop[x]) : path.pop[x][i] = path.pop[x][j] => i = j
<1>1. /\ path.push[x] \in Seq(File(p)) /\ path.pop[x] = Reverse(path.push[x])
      /\ IsInjective(path.pop[x])
  BY DEF Switchable, Registers, Paths
<1>2. /\ path.pop[x] \in Seq(File(p)) /\ Len(path.pop[x]) = Len(path.push[x])
      /\ ToSet(path.pop[x]) = ToSet(path.push[x])
  BY <1>1, ReverseFacts
<1>3. ToSet(path.pop[x]) \subseteq File(p)  BY <1>2, ToSetLemma
<1>4. \A i, j \in 1..Len(path.pop[x]) : path.pop[x][i] = path.pop[x][j] => i = j
  BY <1>1, <1>2 DEF IsInjective
<1>. QED  BY <1>1, <1>2, <1>3, <1>4

\* The new frame is the one of a switch, and what stays below it.
LEMMA NewFrame ==
  ASSUME NEW p, Switchable(p)
  PROVE  LET f == p.yield.pop[FALSE]
         IN  /\ p.new \in Seq(File(p) \cup ToSet(p.new))
             /\ Len(p.over) \in Nat /\ Len(p.new) = Len(f) + Len(p.over)
             /\ \A n \in 1..Len(f) : p.new[n] = f[n]
             /\ ToSet(p.new) = ToSet(f) \cup ToSet(p.over)
<1> DEFINE f == p.yield.pop[FALSE]
           T == File(p) \cup ToSet(p.new)
<1>1. f \in Seq(File(p)) /\ p.over \in Seq(ToSet(p.new)) /\ p.new = f \o p.over
  BY PathFacts DEF Paths, Switchable, Registers
<1>2. f \in Seq(T) /\ p.over \in Seq(T)
  <2>1. File(p) \subseteq T /\ ToSet(p.new) \subseteq T  OBVIOUS
  <2> HIDE DEF f, T
  <2>. QED  BY <1>1, <2>1, SeqMonotonic
<1> HIDE DEF f, T
<1>3. /\ f \o p.over \in Seq(T) /\ Len(f) \in Nat /\ Len(p.over) \in Nat
      /\ Len(f \o p.over) = Len(f) + Len(p.over)
      /\ \A n \in 1..Len(f) : (f \o p.over)[n] = f[n]
  BY <1>2
<1>4. ToSet(f \o p.over) = ToSet(f) \cup ToSet(p.over)
  <2>1. Range(f \o p.over) = Range(f) \cup Range(p.over)  BY <1>2, RangeConcatenation
  <2>. QED  BY <2>1 DEF ToSet, Range
<1>. QED  BY <1>1, <1>3, <1>4 DEF f, T

\* A frame holds what its thread needs, the status word in any case.
LEMMA WantedFacts ==
  ASSUME NEW p, Switchable(p), NEW v \in Version
  PROVE  /\ p.stat \in Wanted(p, v)
         /\ Wanted(p, v) \subseteq File(p)
         /\ Wanted(p, v) \subseteq ToSet(Frame(p, v))
<1> DEFINE f == p.yield.pop
<1>1. /\ p.stat \in p.entry /\ p.entry \subseteq ToSet(f[FALSE])
      /\ ToSet(f[FALSE]) \subseteq ToSet(f[TRUE]) /\ p.ctx.pop = f
  BY DEF Switchable
<1>2. /\ ToSet(f[FALSE]) = ToSet(p.yield.push[FALSE])
      /\ ToSet(f[TRUE]) = ToSet(p.yield.push[TRUE])
      /\ ToSet(f[FALSE]) \subseteq File(p)
  BY PathFacts DEF Paths
<1>3. ToSet(f[TRUE]) = ToSet(p.ctx.push[TRUE])
  BY <1>1, PathFacts DEF Paths
<1>4. ToSet(p.new) = ToSet(f[FALSE]) \cup ToSet(p.over)  BY NewFrame
<1>5. File(p) \subseteq ToSet(f[TRUE])
  BY <1>1, <1>2, <1>3, <1>4 DEF File
<1>6. File(p) \ FPU(p) \subseteq ToSet(f[FALSE])
  BY <1>2, <1>4 DEF FPU, File
<1>7. ToSet(f[FALSE]) \subseteq File(p) \ FPU(p)
  BY <1>2, <1>4 DEF FPU
<1>8. CASE v = "new"
  <2>1. Wanted(p, v) = p.entry /\ Frame(p, v) = f[FALSE]  BY <1>8 DEF Wanted, Frame
  <2>. QED  BY <2>1, <1>1, <1>2
<1>9. CASE v = "a"
  <2>1. Wanted(p, v) = File(p) \ FPU(p) /\ Frame(p, v) = f[FALSE]
    BY <1>9 DEF Wanted, Frame
  <2>. QED  BY <2>1, <1>1, <1>6, <1>7
<1>10. CASE v = "b"
  <2>1. Wanted(p, v) = File(p) /\ Frame(p, v) = f[TRUE]  BY <1>10 DEF Wanted, Frame
  <2>. QED  BY <2>1, <1>1, <1>2, <1>5
<1>. QED  BY <1>8, <1>9, <1>10 DEF Version

----------------------------------------------------------------------------
(* Saving and loading.                                                     *)

\* Thread s.cur runs in version v, on what is left of its stack.
In(s, v) == s.stk[s.cur] = Left(port, s.cur) /\ Kept(port, s, v, <<>>)

\* Between s and u only the registers and the stack of the current thread
\* changed.
Local(u, s) ==
    /\ u \in Machine(port) /\ u.cur = s.cur
    /\ \A t \in Threads \ {s.cur} : u.stk[t] = s.stk[t]

\* Of a thread that runs, the status word tells whether its FPU is active.
LEMMA StatusTells ==
  ASSUME Switchable(port), NEW s, NEW v \in Version, NEW list,
         Kept(port, s, v, list), port.stat \notin ToSet(list)
  PROVE  Active(s.cpu[port.stat]) <=> v = "b"
<1>1. port.stat \in Wanted(port, v)  BY WantedFacts
<1>2. s.cpu[port.stat] = <<s.cur, v, port.stat>>  BY <1>1 DEF Kept
<1>. QED  BY <1>2 DEF Active

LEMMA MachineFacts ==
  ASSUME NEW p, NEW s \in Machine(p)
  PROVE  /\ s.cpu \in [File(p) -> Value(p)] /\ s.stk \in [Threads -> Seq(Cell(p))]
         /\ s.ie \in BOOLEAN /\ s.cur \in Threads
         /\ s = [cpu |-> s.cpu, stk |-> s.stk, ie |-> s.ie, cur |-> s.cur]
         /\ s.stk[s.cur] \in Seq(Cell(p))
BY DEF Machine

LEMMA JunkValue == \A p : Junk \in Value(p)
BY DEF Junk, Value

\* A save leaves a frame with all that the thread needs and was in it.
LEMMA SaveStep ==
  ASSUME Switchable(port), NEW s \in Machine(port), NEW v \in Version, In(s, v),
         NEW path \in Paths(port), NEW on \in BOOLEAN
  PROVE  LET u == Save(s, path, on)
             list == path.pop[v = "b"]
         IN  /\ Local(u, s) /\ u.ie = s.ie
             /\ Framed(port, u.stk[s.cur], s.cur, v, list)
             /\ Kept(port, u, v, list)
             /\ on => Open(port, u.stk[s.cur], list)
<1> DEFINE x == v = "b"
           push == path.push[x]
           list == path.pop[x]
           words == [n \in DOMAIN push |-> [v |-> s.cpu[push[n]], ie |-> on]]
           old == s.stk[s.cur]
           new == Reverse(words) \o old
           cpu == [r \in DOMAIN s.cpu |-> IF r \in ToSet(push) THEN Junk ELSE s.cpu[r]]
           u == Save(s, path, on)
<1>1. /\ push \in Seq(File(port)) /\ list \in Seq(File(port))
      /\ list = Reverse(push) /\ Len(list) = Len(push)
      /\ ToSet(list) = ToSet(push) /\ ToSet(list) \subseteq File(port)
  BY PathFacts
<1>2. /\ s.cpu \in [File(port) -> Value(port)] /\ s.stk \in [Threads -> Seq(Cell(port))]
      /\ s.ie \in BOOLEAN /\ s.cur \in Threads
      /\ s = [cpu |-> s.cpu, stk |-> s.stk, ie |-> s.ie, cur |-> s.cur]
      /\ old \in Seq(Cell(port))
  BY MachineFacts
<1>3. x \in BOOLEAN /\ (Active(s.cpu[port.stat]) <=> x)
  <2>1. Kept(port, s, v, <<>>)  BY DEF In
  <2>2. Active(s.cpu[port.stat]) <=> v = "b"  BY <2>1, StatusTells, EmptySet
  <2>3. (v = "b") \in BOOLEAN  OBVIOUS
  <2>. QED  BY <2>2, <2>3
<1>4. path.push[Active(s.cpu[port.stat])] = push
  BY <1>3 DEF Active
<1>5. u = [s EXCEPT !.stk[s.cur] = new, !.cpu = cpu]
  BY <1>4 DEF Save
<1>6. /\ words \in Seq(Cell(port)) /\ Len(words) = Len(push)
      /\ \A n \in 1..Len(push) : words[n].v = s.cpu[push[n]] /\ words[n].ie = on
  <2>1. ASSUME NEW n \in 1..Len(push)
        PROVE  [v |-> s.cpu[push[n]], ie |-> on] \in Cell(port)
    BY <1>1, <1>2 DEF Cell
  <2>2. DOMAIN push = 1..Len(push) /\ Len(push) \in Nat  BY <1>1
  <2>. QED  BY <2>1, <2>2
<1> HIDE DEF words
<1>7. /\ new \in Seq(Cell(port)) /\ Len(new) = Len(list) + Len(old)
      /\ \A n \in 1..Len(list) : new[n] = Reverse(words)[n]
      /\ SubSeq(new, Len(list) + 1, Len(new)) = old
  <2>1. Reverse(words) \in Seq(Cell(port)) /\ Len(Reverse(words)) = Len(list)
    BY <1>1, <1>6, ReverseFacts
  <2> DEFINE w == Reverse(words)
  <2> HIDE DEF w, old
  <2>2. /\ w \o old \in Seq(Cell(port)) /\ Len(w \o old) = Len(w) + Len(old)
        /\ \A n \in 1..Len(w) : (w \o old)[n] = w[n]
        /\ SubSeq(w \o old, Len(w) + 1, Len(w \o old)) = old
    <3>1. w \in Seq(Cell(port)) /\ old \in Seq(Cell(port))  BY <2>1, <1>2 DEF w
    <3>. QED  BY <3>1, ConcatFacts
  <2>. QED  BY <2>1, <2>2 DEF w
<1> HIDE DEF new, cpu, old
<1>8. cpu \in [File(port) -> Value(port)]
  BY <1>2, JunkValue DEF cpu
<1>9. /\ u \in Machine(port) /\ u.cur = s.cur /\ u.ie = s.ie
      /\ u.cpu = cpu /\ u.stk[s.cur] = new
      /\ \A t \in Threads \ {s.cur} : u.stk[t] = s.stk[t]
  <2> HIDE DEF u
  <2> DEFINE stk == [s.stk EXCEPT ![s.cur] = new]
  <2>1. u = [cpu |-> cpu, stk |-> stk, ie |-> s.ie, cur |-> s.cur]
    BY <1>2, <1>5
  <2>2. stk \in [Threads -> Seq(Cell(port))] /\ stk[s.cur] = new
        /\ \A t \in Threads \ {s.cur} : stk[t] = s.stk[t]
    BY <1>2, <1>7
  <2> HIDE DEF stk
  <2>3. u \in Machine(port)  BY <1>2, <1>8, <2>1, <2>2 DEF Machine
  <2>. QED  BY <2>1, <2>2, <2>3
<1>10. ASSUME NEW n \in 1..Len(list)
       PROVE  new[n].v = s.cpu[list[n]] /\ new[n].ie = on
  <2>1. Len(push) - n + 1 \in 1..Len(push)  BY <1>1
  <2>2. /\ Reverse(words)[n] = words[Len(push) - n + 1]
        /\ list[n] = push[Len(push) - n + 1]
    BY <1>1, <1>6, ReverseFacts
  <2> DEFINE k == Len(push) - n + 1
  <2> HIDE DEF k
  <2>3. k \in 1..Len(push) /\ list[n] = push[k]  BY <2>1, <2>2 DEF k
  <2>4. words[k].v = s.cpu[push[k]]  BY <1>6, <2>3
  <2>5. words[k].ie = on  BY <1>6, <2>3
  <2>6. new[n] = words[k]  BY <1>7, <2>2 DEF k
  <2>. QED  BY <2>3, <2>4, <2>5, <2>6
<1>11. \A n \in 1..Len(list) : list[n] \in Wanted(port, v) =>
          s.cpu[list[n]] = <<s.cur, v, list[n]>>
  BY EmptySet DEF In, Kept
<1>12. Framed(port, u.stk[s.cur], s.cur, v, list)
  <2>1. old = Left(port, s.cur)  BY DEF In, old
  <2>2. Len(list) <= Len(new)  BY <1>1, <1>2, <1>7
  <2>3. \A n \in 1..Len(list) : list[n] \in Wanted(port, v) =>
           new[n].v = <<s.cur, v, list[n]>>
    BY <1>10, <1>11
  <2>4. Framed(port, new, s.cur, v, list)  BY <1>7, <2>1, <2>2, <2>3 DEF Framed
  <2>. QED  BY <1>9, <2>4
<1>13. Kept(port, u, v, list)
  <2> SUFFICES ASSUME NEW r \in Wanted(port, v) \ ToSet(list)
               PROVE  u.cpu[r] = <<u.cur, v, r>>
    BY DEF Kept
  <2>1. r \in File(port)  BY WantedFacts
  <2>2. s.cpu[r] = <<s.cur, v, r>>  BY EmptySet DEF In, Kept
  <2>. QED  BY <1>1, <1>2, <1>9, <2>1, <2>2 DEF cpu
<1>14. on => Open(port, u.stk[s.cur], list)
  <2> SUFFICES ASSUME on, NEW n \in 1..Len(list)  PROVE new[n].ie
    BY <1>9 DEF Open
  <2>1. new[n].ie = on  BY <1>10
  <2>. QED  BY <2>1
<1>. QED  BY <1>9, <1>12, <1>13, <1>14 DEF Local

\* A load finds the words of the frame that the list names.
LEMMA WordFacts ==
  ASSUME NEW s, NEW T, NEW list \in Seq(T), NEW n \in 1..Len(list),
         \A i, j \in 1..Len(list) : list[i] = list[j] => i = j,
         n <= Len(s.stk[s.cur])
  PROVE  Word(s, list, list[n]) = s.stk[s.cur][n]
<1> DEFINE i == CHOOSE i \in DOMAIN list : list[i] = list[n]
<1>1. DOMAIN list = 1..Len(list)  OBVIOUS
<1>2. i \in DOMAIN list /\ list[i] = list[n]  BY <1>1
<1>3. i = n  BY <1>1, <1>2
<1>. QED  BY <1>3 DEF Word

\* The status word tells a load which frame it was.
LEMMA StatusFacts ==
  ASSUME Switchable(port), NEW s \in Machine(port), NEW v \in Version,
         NEW path \in Paths(port),
         Framed(port, s.stk[s.cur], s.cur, v, path.pop[v = "b"]),
         Kept(port, s, v, path.pop[v = "b"])
  PROVE  LET list == path.pop[v = "b"]
             status == Status(s, path)
         IN  /\ Active(status.v) <=> v = "b"
             /\ \/ port.stat \notin ToSet(path.pop[FALSE]) /\ status.ie = s.ie
                \/ \E n \in 1..Len(list) : /\ list[n] = port.stat
                                           /\ status = s.stk[s.cur][n]
<1> DEFINE x == v = "b"
           list == path.pop[x]
           flat == path.pop[FALSE]
           full == path.pop[TRUE]
           q == s.stk[s.cur]
<1>1. x \in BOOLEAN /\ (list = flat \/ list = full)
  <2>1. x = TRUE \/ x = FALSE  OBVIOUS
  <2>. QED  BY <2>1
<1>2. /\ flat \in Seq(File(port)) /\ full \in Seq(File(port))
      /\ \A i, j \in 1..Len(flat) : flat[i] = flat[j] => i = j
  BY PathFacts
<1>3. DOMAIN flat = 1..Len(flat) /\ DOMAIN full = 1..Len(full)
  <2> HIDE DEF flat, full
  <2>. QED  BY <1>2
<1>4. \/ port.stat \notin ToSet(flat) \cup ToSet(full)
      \/ \E n \in DOMAIN flat \cap DOMAIN full : flat[n] = port.stat /\ full[n] = port.stat
  BY DEF Switchable, Paths
<1>5. CASE port.stat \notin ToSet(flat) \cup ToSet(full)
  <2>1. Status(s, path) = [v |-> s.cpu[port.stat], ie |-> s.ie]  BY <1>5 DEF Status
  <2>2. Status(s, path).v = s.cpu[port.stat] /\ Status(s, path).ie = s.ie
    BY <2>1
  <2>3. port.stat \notin ToSet(list)  BY <1>1, <1>5
  <2>4. Active(s.cpu[port.stat]) <=> v = "b"  BY <2>3, StatusTells
  <2>. QED  BY <1>5, <2>2, <2>4
<1>6. CASE \E n \in DOMAIN flat \cap DOMAIN full :
              flat[n] = port.stat /\ full[n] = port.stat
  <2>1. PICK n \in DOMAIN flat \cap DOMAIN full :
                flat[n] = port.stat /\ full[n] = port.stat
    BY <1>6
  <2>2. /\ n \in 1..Len(flat) /\ n \in 1..Len(list) /\ list[n] = port.stat
        /\ port.stat \in ToSet(flat)
    BY <1>1, <1>3, <2>1 DEF ToSet
  <2>3. Len(list) <= Len(q)  BY DEF Framed
  <2>4. n <= Len(q)
    <3>1. q \in Seq(Cell(port)) /\ list \in Seq(File(port))  BY <1>1, <1>2, MachineFacts
    <3> HIDE DEF q, list
    <3>. QED  BY <2>2, <2>3, <3>1
  <2>5. Word(s, flat, flat[n]) = q[n]
    <3> HIDE DEF flat
    <3>. QED  BY <1>2, <2>2, <2>4, WordFacts
  <2>6. Status(s, path) = q[n]  BY <2>1, <2>2, <2>5 DEF Status
  <2>7. q[n].v = <<s.cur, v, port.stat>>
    BY <2>2, WantedFacts DEF Framed
  <2>8. Active(q[n].v) <=> v = "b"  BY <2>7 DEF Active
  <2>. QED  BY <2>2, <2>6, <2>8
<1>. QED  BY <1>4, <1>5, <1>6

\* A load brings back what the save saw, and with the right flags enables
\* interrupts.
LEMMA LoadStep ==
  ASSUME Switchable(port), NEW s \in Machine(port), NEW v \in Version,
         NEW path \in Paths(port),
         Framed(port, s.stk[s.cur], s.cur, v, path.pop[v = "b"]),
         Kept(port, s, v, path.pop[v = "b"])
  PROVE  LET u == Load(s, path)
             open == /\ Open(port, s.stk[s.cur], path.pop[v = "b"])
                     /\ port.stat \in ToSet(path.pop[FALSE]) \/ s.ie
         IN  Local(u, s) /\ In(u, v) /\ (port.force \/ open => u.ie)
<1> DEFINE x == v = "b"
           list == path.pop[x]
           q == s.stk[s.cur]
           status == Status(s, path)
           on == port.force \/ status.ie
           rest == SubSeq(q, Len(list) + 1, Len(q))
           cpu == [r \in DOMAIN s.cpu |-> IF r \in ToSet(list) THEN Word(s, list, r).v
                                          ELSE s.cpu[r]]
           u == Load(s, path)
<1>1. /\ list \in Seq(File(port)) /\ ToSet(list) \subseteq File(port)
      /\ \A i, j \in 1..Len(list) : list[i] = list[j] => i = j
  <2>1. x \in BOOLEAN  OBVIOUS
  <2>. QED  BY <2>1, PathFacts
<1>2. /\ s.cpu \in [File(port) -> Value(port)] /\ s.stk \in [Threads -> Seq(Cell(port))]
      /\ s.ie \in BOOLEAN /\ s.cur \in Threads
      /\ s = [cpu |-> s.cpu, stk |-> s.stk, ie |-> s.ie, cur |-> s.cur]
      /\ q \in Seq(Cell(port))
  BY MachineFacts
<1>3. /\ Active(status.v) <=> x
      /\ \/ port.stat \notin ToSet(path.pop[FALSE]) /\ status.ie = s.ie
         \/ \E n \in 1..Len(list) : list[n] = port.stat /\ status = q[n]
  BY StatusFacts
<1>4. path.pop[Active(status.v)] = list
  BY <1>3 DEF Active
<1> HIDE DEF status
<1>5. u = [s EXCEPT !.stk[s.cur] = rest, !.cpu = cpu, !.ie = on]
  BY <1>4 DEF Load, Pop, status
<1>6. /\ Len(list) <= Len(q) /\ rest = Left(port, s.cur)
      /\ \A n \in 1..Len(list) : list[n] \in Wanted(port, v) => q[n].v = <<s.cur, v, list[n]>>
  BY DEF Framed
<1>7. rest \in Seq(Cell(port))
  <2> HIDE DEF q, list
  <2>. QED  BY <1>1, <1>2
<1>8. ASSUME NEW n \in 1..Len(list)
      PROVE  Word(s, list, list[n]) = q[n] /\ q[n].v \in Value(port)
  <2>1. n <= Len(q) /\ q[n] \in Cell(port)
    <3> HIDE DEF q, list
    <3>. QED  BY <1>1, <1>2, <1>6
  <2>2. Word(s, list, list[n]) = q[n]
    <3> HIDE DEF list
    <3>. QED  BY <1>1, <2>1, WordFacts DEF q
  <2>. QED  BY <2>1, <2>2 DEF Cell
<1>9. \A r \in ToSet(list) : \E n \in 1..Len(list) : list[n] = r
  BY <1>1, ToSetLemma
<1>10. cpu \in [File(port) -> Value(port)]
  <2>1. ASSUME NEW r \in ToSet(list)  PROVE Word(s, list, r).v \in Value(port)
    BY <1>8, <1>9
  <2> HIDE DEF list
  <2>. QED  BY <1>2, <2>1
<1> HIDE DEF rest, on, cpu
<1>11. /\ u \in Machine(port) /\ u.cur = s.cur /\ u.ie = on
       /\ u.cpu = cpu /\ u.stk[s.cur] = rest
       /\ \A t \in Threads \ {s.cur} : u.stk[t] = s.stk[t]
  <2> HIDE DEF u
  <2> DEFINE stk == [s.stk EXCEPT ![s.cur] = rest]
  <2>1. u = [cpu |-> cpu, stk |-> stk, ie |-> on, cur |-> s.cur]
    BY <1>2, <1>5
  <2>2. stk \in [Threads -> Seq(Cell(port))] /\ stk[s.cur] = rest
        /\ \A t \in Threads \ {s.cur} : stk[t] = s.stk[t]
    BY <1>2, <1>7
  <2>3. on \in BOOLEAN  BY DEF on
  <2> HIDE DEF stk
  <2>4. u \in Machine(port)  BY <1>2, <1>10, <2>1, <2>2, <2>3 DEF Machine
  <2>. QED  BY <2>1, <2>2, <2>4
<1>12. Kept(port, u, v, <<>>)
  <2> SUFFICES ASSUME NEW r \in Wanted(port, v)  PROVE u.cpu[r] = <<u.cur, v, r>>
    BY DEF Kept
  <2>1. r \in File(port)  BY WantedFacts
  <2>2. CASE r \in ToSet(list)
    <3>1. PICK n \in 1..Len(list) : list[n] = r  BY <1>9, <2>2
    <3>2. cpu[r] = Word(s, list, r).v  BY <1>2, <2>1, <2>2 DEF cpu
    <3>. QED  BY <1>6, <1>8, <1>11, <3>1, <3>2
  <2>3. CASE r \notin ToSet(list)
    <3>1. s.cpu[r] = <<s.cur, v, r>>  BY <2>3 DEF Kept
    <3>2. cpu[r] = s.cpu[r]  BY <1>2, <2>1, <2>3 DEF cpu
    <3>. QED  BY <1>11, <3>1, <3>2
  <2>. QED  BY <2>2, <2>3
<1>13. In(u, v)  BY <1>6, <1>11, <1>12 DEF In
<1>14. ASSUME \/ port.force
              \/ /\ Open(port, q, list)
                 /\ port.stat \in ToSet(path.pop[FALSE]) \/ s.ie
       PROVE  on
  <2>1. CASE port.force  BY <2>1 DEF on
  <2>2. CASE /\ Open(port, q, list)
             /\ port.stat \in ToSet(path.pop[FALSE]) \/ s.ie
    <3>1. CASE port.stat \notin ToSet(path.pop[FALSE]) /\ status.ie = s.ie
      BY <2>2, <3>1 DEF on
    <3>2. CASE \E n \in 1..Len(list) : list[n] = port.stat /\ status = q[n]
      BY <2>2, <3>2 DEF on, Open
    <3>. QED  BY <1>3, <3>1, <3>2
  <2>. QED  BY <1>14, <2>1, <2>2
<1>. QED  BY <1>11, <1>13, <1>14 DEF Local

----------------------------------------------------------------------------
(* Registers.                                                              *)

\* The machine of port p with the threads in the versions w: who does not run
\* has the frame of a switch on its stack, who was interrupted that of an
\* interrupt.
Parked(p, s, w, t) == Framed(p, s.stk[t], t, w[t], Frame(p, w[t]))
Stopped(p, s, w) ==
    LET v == w[s.cur]
        list == p.int.pop[v = "b"]
    IN  Framed(p, s.stk[s.cur], s.cur, v, list) /\ Kept(p, s, v, list)
Own(p, s, w, md) ==
    /\ s \in Machine(p) /\ w \in [Threads -> Version] /\ md \in {"thread", "isr"}
    /\ \A t \in Threads \ {s.cur} : Parked(p, s, w, t)
    /\ md = "thread" => /\ s.stk[s.cur] = Left(p, s.cur)
                        /\ Kept(p, s, w[s.cur], <<>>)
    /\ md = "isr" => Stopped(p, s, w)

\* Whoever is switched in finds interrupts enabled.
Shown(p, s, w, t) == p.force \/ Open(p, s.stk[t], Frame(p, w[t]))
Others_Shown(p, s, w) == \A t \in Threads \ {s.cur} : Shown(p, s, w, t)

\* Between s and u only the interrupt flag of the processor changed.
LEMMA FlagStep ==
  ASSUME NEW p, NEW s, NEW w, NEW md, Own(p, s, w, md), NEW b \in BOOLEAN
  PROVE  LET u == [s EXCEPT !.ie = b]
         IN  /\ Own(p, u, w, md) /\ u.ie = b /\ u.cur = s.cur /\ u.stk = s.stk
             /\ Others_Shown(p, u, w) <=> Others_Shown(p, s, w)
<1> DEFINE u == [s EXCEPT !.ie = b]
<1>1. s \in Machine(p)  BY DEF Own
<1>2. u \in Machine(p) /\ u.cpu = s.cpu /\ u.stk = s.stk /\ u.cur = s.cur /\ u.ie = b
  BY <1>1 DEF Machine
<1> HIDE DEF u
<1>3. Own(p, u, w, md)  BY <1>2 DEF Own, Parked, Stopped, Kept
<1>4. Others_Shown(p, u, w) <=> Others_Shown(p, s, w)
  BY <1>2 DEF Others_Shown, Shown
<1>. QED  BY <1>2, <1>3, <1>4 DEF u

\* All threads are switched out, t is switched in.
LEMMA ResumeStep ==
  ASSUME Switchable(port), NEW s \in Machine(port), NEW w \in [Threads -> Version],
         \A t \in Threads : Parked(port, s, w, t),
         NEW path \in Paths(port), path.pop = port.yield.pop, NEW t \in Threads
  PROVE  LET u == Load(Run_High(s, t), path)
         IN  /\ Own(port, u, w, "thread") /\ u.cur = t
             /\ (\A i \in Threads : Shown(port, s, w, i)) =>
                   u.ie /\ Others_Shown(port, u, w)
<1> DEFINE r == Run_High(s, t)
           u == Load(r, path)
           v == w[t]
<1>1. r \in Machine(port) /\ r.cur = t /\ r.cpu = s.cpu /\ r.stk = s.stk
  BY DEF Run_High, Machine
<1>2. v \in Version /\ path.pop[v = "b"] = Frame(port, v)  BY DEF Frame
<1> HIDE DEF r, v
<1>3. Framed(port, r.stk[r.cur], r.cur, v, path.pop[v = "b"])
  BY <1>1, <1>2 DEF Parked, v
<1>4. Kept(port, r, v, path.pop[v = "b"])
  BY <1>2, WantedFacts DEF Kept
<1>5. /\ Local(u, r) /\ In(u, v)
      /\ \/ port.force
         \/ /\ Open(port, r.stk[r.cur], path.pop[v = "b"])
            /\ port.stat \in ToSet(path.pop[FALSE]) \/ r.ie
         => u.ie
  <2> HIDE DEF u
  <2>. QED  BY <1>1, <1>2, <1>3, <1>4, LoadStep DEF u
<1> HIDE DEF u
<1>6. /\ u \in Machine(port) /\ u.cur = t
      /\ \A i \in Threads \ {t} : u.stk[i] = s.stk[i]
  BY <1>1, <1>5 DEF Local
<1>7. Own(port, u, w, "thread")
  BY <1>5, <1>6 DEF Own, In, Parked, v
<1>8. ASSUME \A i \in Threads : Shown(port, s, w, i)
      PROVE  u.ie /\ Others_Shown(port, u, w)
  <2>1. Others_Shown(port, u, w)  BY <1>6, <1>8 DEF Others_Shown, Shown
  <2>2. port.stat \in ToSet(path.pop[FALSE])
    <3>1. path.pop[FALSE] = Frame(port, "new")  BY DEF Frame
    <3>. QED  BY <3>1, WantedFacts DEF Version
  <2>3. port.force \/ Open(port, r.stk[r.cur], path.pop[v = "b"])
    BY <1>1, <1>2, <1>8 DEF Shown, v
  <2>. QED  BY <1>5, <2>1, <2>2, <2>3
<1>. QED  BY <1>6, <1>7, <1>8 DEF r, u

\* The current thread is switched out and t in.
LEMMA SwitchStep ==
  ASSUME Switchable(port), NEW s, NEW w, Own(port, s, w, "thread"),
         NEW path \in Paths(port), path.pop = port.yield.pop,
         NEW on \in BOOLEAN, NEW t \in Threads
  PROVE  LET u == Load(Run_High(Save(s, path, on), t), path)
         IN  /\ Own(port, u, w, "thread") /\ u.cur = t
             /\ Others_Shown(port, s, w) /\ (port.force \/ on) =>
                   u.ie /\ Others_Shown(port, u, w)
<1> DEFINE r == Save(s, path, on)
           v == w[s.cur]
<1>1. /\ s \in Machine(port) /\ w \in [Threads -> Version] /\ In(s, v)
      /\ \A i \in Threads \ {s.cur} : Parked(port, s, w, i)
  BY DEF Own, In
<1>2. s.cur \in Threads /\ v \in Version  BY <1>1, MachineFacts
<1>3. /\ Local(r, s) /\ r.ie = s.ie
      /\ Framed(port, r.stk[s.cur], s.cur, v, path.pop[v = "b"])
      /\ on => Open(port, r.stk[s.cur], path.pop[v = "b"])
  <2> HIDE DEF v
  <2>. QED  BY <1>1, <1>2, SaveStep
<1> HIDE DEF r
<1>4. path.pop[v = "b"] = Frame(port, v)  BY DEF Frame
<1>5. r \in Machine(port) /\ \A i \in Threads \ {s.cur} : r.stk[i] = s.stk[i]
  BY <1>3 DEF Local
<1>6. \A i \in Threads : Parked(port, r, w, i)
  BY <1>1, <1>3, <1>4, <1>5 DEF Parked
<1>7. /\ Own(port, Load(Run_High(r, t), path), w, "thread")
      /\ Load(Run_High(r, t), path).cur = t
      /\ (\A i \in Threads : Shown(port, r, w, i)) =>
            /\ Load(Run_High(r, t), path).ie
            /\ Others_Shown(port, Load(Run_High(r, t), path), w)
  BY <1>1, <1>5, <1>6, ResumeStep
<1>8. Others_Shown(port, s, w) /\ (port.force \/ on) =>
         \A i \in Threads : Shown(port, r, w, i)
  BY <1>3, <1>4, <1>5 DEF Others_Shown, Shown
<1>. QED  BY <1>7, <1>8 DEF r

\* An interrupt comes, and goes without a switch.
LEMMA EnterStep ==
  ASSUME Switchable(port), NEW s, NEW w, Own(port, s, w, "thread"), NEW on \in BOOLEAN
  PROVE  LET u == Save(s, port.int, on)
         IN  /\ Own(port, u, w, "isr") /\ u.cur = s.cur /\ u.ie = s.ie
             /\ Others_Shown(port, s, w) => Others_Shown(port, u, w)
             /\ on => Open(port, u.stk[u.cur], port.int.pop[w[u.cur] = "b"])
<1> DEFINE u == Save(s, port.int, on)
           v == w[s.cur]
<1>1. /\ s \in Machine(port) /\ w \in [Threads -> Version] /\ In(s, v)
      /\ \A i \in Threads \ {s.cur} : Parked(port, s, w, i)
  BY DEF Own, In
<1>2. s.cur \in Threads /\ v \in Version /\ port.int \in Paths(port)
  BY <1>1, MachineFacts DEF Paths
<1>3. /\ Local(u, s) /\ u.ie = s.ie
      /\ Framed(port, u.stk[s.cur], s.cur, v, port.int.pop[v = "b"])
      /\ Kept(port, u, v, port.int.pop[v = "b"])
      /\ on => Open(port, u.stk[s.cur], port.int.pop[v = "b"])
  <2> HIDE DEF v
  <2>. QED  BY <1>1, <1>2, SaveStep
<1> HIDE DEF u
<1>4. /\ u \in Machine(port) /\ u.cur = s.cur
      /\ \A i \in Threads \ {s.cur} : u.stk[i] = s.stk[i]
  BY <1>3 DEF Local
<1>5. Stopped(port, u, w)  BY <1>3, <1>4 DEF Stopped
<1>6. Own(port, u, w, "isr")  BY <1>1, <1>4, <1>5 DEF Own, Parked
<1>7. Others_Shown(port, s, w) => Others_Shown(port, u, w)
  BY <1>4 DEF Others_Shown, Shown
<1>. QED  BY <1>3, <1>4, <1>6, <1>7 DEF u

LEMMA ExitStep ==
  ASSUME Switchable(port), NEW s, NEW w, Own(port, s, w, "isr")
  PROVE  LET u == Load(s, port.int)
         IN  /\ Own(port, u, w, "thread") /\ u.cur = s.cur
             /\ Others_Shown(port, s, w) => Others_Shown(port, u, w)
             /\ \/ port.force
                \/ s.ie /\ Open(port, s.stk[s.cur], port.int.pop[w[s.cur] = "b"])
                => u.ie
<1> DEFINE u == Load(s, port.int)
           v == w[s.cur]
<1>1. /\ s \in Machine(port) /\ w \in [Threads -> Version] /\ Stopped(port, s, w)
      /\ \A i \in Threads \ {s.cur} : Parked(port, s, w, i)
  BY DEF Own
<1>2. s.cur \in Threads /\ v \in Version /\ port.int \in Paths(port)
  BY <1>1, MachineFacts DEF Paths
<1>3. /\ Framed(port, s.stk[s.cur], s.cur, v, port.int.pop[v = "b"])
      /\ Kept(port, s, v, port.int.pop[v = "b"])
  BY <1>1 DEF Stopped
<1>4. /\ Local(u, s) /\ In(u, v)
      /\ \/ port.force
         \/ /\ Open(port, s.stk[s.cur], port.int.pop[v = "b"])
            /\ port.stat \in ToSet(port.int.pop[FALSE]) \/ s.ie
         => u.ie
  <2> HIDE DEF v
  <2>. QED  BY <1>1, <1>2, <1>3, LoadStep
<1> HIDE DEF u
<1>5. /\ u \in Machine(port) /\ u.cur = s.cur
      /\ \A i \in Threads \ {s.cur} : u.stk[i] = s.stk[i]
  BY <1>4 DEF Local
<1>6. Own(port, u, w, "thread")  BY <1>1, <1>4, <1>5 DEF Own, In, Parked
<1>7. Others_Shown(port, s, w) => Others_Shown(port, u, w)
  BY <1>5 DEF Others_Shown, Shown
<1>. QED  BY <1>4, <1>5, <1>6, <1>7 DEF u

\* The thread computes.
LEMMA RunStep ==
  ASSUME NEW s, NEW w, Own(port, s, w, "thread"), Switchable(port), NEW v \in {"a", "b"}
  PROVE  LET u == [s EXCEPT !.cpu = [r \in DOMAIN s.cpu |-> <<s.cur, v, r>>]]
             x == [w EXCEPT ![s.cur] = v]
         IN  /\ Own(port, u, x, "thread") /\ u.cur = s.cur /\ u.ie = s.ie
             /\ Others_Shown(port, s, w) => Others_Shown(port, u, x)
<1> DEFINE cpu == [r \in DOMAIN s.cpu |-> <<s.cur, v, r>>]
           u == [s EXCEPT !.cpu = cpu]
           x == [w EXCEPT ![s.cur] = v]
<1>1. /\ s \in Machine(port) /\ w \in [Threads -> Version]
      /\ \A i \in Threads \ {s.cur} : Parked(port, s, w, i)
      /\ s.stk[s.cur] = Left(port, s.cur)
  BY DEF Own
<1>2. s.cur \in Threads /\ s.cpu \in [File(port) -> Value(port)]  BY <1>1, MachineFacts
<1>3. cpu \in [File(port) -> Value(port)] /\ \A r \in File(port) : cpu[r] = <<s.cur, v, r>>
  BY <1>2 DEF Value, Version
<1> HIDE DEF cpu
<1>4. u \in Machine(port) /\ u.cur = s.cur /\ u.stk = s.stk /\ u.ie = s.ie /\ u.cpu = cpu
  BY <1>1, <1>3 DEF Machine
<1>5. /\ x \in [Threads -> Version] /\ x[s.cur] = v
      /\ \A i \in Threads \ {s.cur} : x[i] = w[i]
  BY <1>1, <1>2 DEF Version
<1> HIDE DEF u, x
<1>6. v \in Version  BY DEF Version
<1>7. Kept(port, u, v, <<>>)
  BY <1>3, <1>4, <1>6, WantedFacts DEF Kept
<1>8. Own(port, u, x, "thread")  BY <1>1, <1>4, <1>5, <1>7 DEF Own, Parked
<1>9. Others_Shown(port, s, w) => Others_Shown(port, u, x)
  BY <1>4, <1>5 DEF Others_Shown, Shown
<1>. QED  BY <1>4, <1>8, <1>9 DEF u, x, cpu

OwnInv == Switchable(port) /\ Own(port, m, ver, mode)

\* A new thread has the frame of a switch, with interrupts enabled in it.
LEMMA NewThread ==
  ASSUME NEW p, Switchable(p), NEW t \in Others
  PROVE  LET q == Stack_Init(p, t)
             f == Frame(p, "new")
         IN  /\ q \in Seq(Cell(p)) /\ Framed(p, q, t, "new", f)
             /\ p.on.new => Open(p, q, f)
<1> DEFINE q == Stack_Init(p, t)
           f == p.yield.pop[FALSE]
           T == File(p) \cup ToSet(p.new)
<1>1. /\ p.new \in Seq(T) /\ Len(p.over) \in Nat /\ Len(p.new) = Len(f) + Len(p.over)
      /\ \A n \in 1..Len(f) : p.new[n] = f[n]
  BY NewFrame
<1>2. f \in Seq(File(p)) /\ Frame(p, "new") = f
  BY PathFacts DEF Paths, Frame
<1>3. p.on.new \in BOOLEAN  BY DEF Switchable, Registers
<1>4. t \in Threads /\ t # Start  BY StartAssumption DEF Threads
<1> HIDE DEF f, T
<1>5. Len(f) \in Nat /\ DOMAIN p.new = 1..Len(p.new) /\ Len(p.new) \in Nat
  BY <1>1, <1>2
<1>6. /\ q \in Seq(Cell(p)) /\ Len(q) = Len(p.new)
      /\ \A n \in 1..Len(p.new) : q[n].v = <<t, "new", p.new[n]>> /\ q[n].ie = p.on.new
  <2> DEFINE e(n) == [v |-> <<t, "new", p.new[n]>>, ie |-> p.on.new]
  <2>1. q = [n \in 1..Len(p.new) |-> e(n)]  BY <1>5 DEF Stack_Init
  <2>2. ASSUME NEW n \in 1..Len(p.new)  PROVE e(n) \in Cell(p)
    <3>1. p.new[n] \in T  BY <1>1
    <3>. QED  BY <1>3, <1>4, <3>1 DEF Cell, Value, Version, T
  <2>3. ASSUME NEW n \in 1..Len(p.new)
        PROVE  e(n).v = <<t, "new", p.new[n]>> /\ e(n).ie = p.on.new
    OBVIOUS
  <2> HIDE DEF q, e
  <2>4. q \in Seq(Cell(p)) /\ Len(q) = Len(p.new)  BY <1>5, <2>1, <2>2
  <2>5. \A n \in 1..Len(p.new) : q[n] = e(n)  BY <2>1
  <2>. QED  BY <2>3, <2>4, <2>5
<1>7. Left(p, t) = SubSeq(q, Len(f) + 1, Len(q))
  <2>1. Len(p.new) - Len(p.over) + 1 = Len(f) + 1  BY <1>1, <1>5
  <2>. QED  BY <1>4, <1>6, <2>1 DEF Left
<1> HIDE DEF q
<1>8. Framed(p, q, t, "new", f)
  BY <1>1, <1>5, <1>6, <1>7 DEF Framed
<1>9. p.on.new => Open(p, q, f)
  <2> SUFFICES ASSUME p.on.new, NEW n \in 1..Len(f)  PROVE q[n].ie
    BY DEF Open
  <2>1. n \in 1..Len(p.new)  BY <1>1, <1>5
  <2>2. q[n].ie = p.on.new  BY <1>6, <2>1
  <2>. QED  BY <2>2
<1>. QED  BY <1>2, <1>6, <1>8, <1>9 DEF q

LEMMA InitOwn ==
  ASSUME \A name \in Ports : Switchable(Port(name))
  PROVE  Init => OwnInv /\ (Reopens(port) => Others_Shown(port, m, ver))
<1> SUFFICES ASSUME Init
             PROVE  OwnInv /\ (Reopens(port) => Others_Shown(port, m, ver))
  OBVIOUS
<1>1. /\ Switchable(port) /\ mode = "thread"
      /\ m = [cpu |-> [r \in File(port) |-> <<Start, "a", r>>],
              stk |-> [t \in Threads |-> IF t = Start THEN <<>> ELSE Stack_Init(port, t)],
              ie |-> ~port.mask, cur |-> Start]
      /\ ver = [t \in Threads |-> IF t = Start THEN "a" ELSE "new"]
  BY DEF Init
<1>2. Start \in Threads /\ Threads \ {Start} = Others  BY StartAssumption DEF Threads
<1>3. /\ m.cpu = [r \in File(port) |-> <<Start, "a", r>>]
      /\ m.cur = Start /\ m.stk[Start] = <<>>
      /\ \A t \in Others : m.stk[t] = Stack_Init(port, t)
      /\ ver \in [Threads -> Version] /\ ver[Start] = "a"
      /\ \A t \in Others : ver[t] = "new"
  BY <1>1, <1>2 DEF Version
<1>4. m.cpu \in [File(port) -> Value(port)]
  <2>1. ASSUME NEW r \in File(port)  PROVE <<Start, "a", r>> \in Value(port)
    BY <1>2 DEF Value, Version
  <2>. QED  BY <1>3, <2>1
<1>5. m.stk \in [Threads -> Seq(Cell(port))]
  <2>1. \A t \in Others : Stack_Init(port, t) \in Seq(Cell(port))
    BY <1>1, NewThread
  <2>2. <<>> \in Seq(Cell(port))  OBVIOUS
  <2>3. m.stk = [t \in Threads |-> IF t = Start THEN <<>> ELSE Stack_Init(port, t)]
    BY <1>1
  <2>. QED  BY <1>2, <2>1, <2>2, <2>3
<1>6. m \in Machine(port)
  <2>1. m = [cpu |-> m.cpu, stk |-> m.stk, ie |-> m.ie, cur |-> m.cur] /\ m.ie \in BOOLEAN
    BY <1>1
  <2>. QED  BY <1>2, <1>3, <1>4, <1>5, <2>1 DEF Machine
<1>7. \A t \in Threads \ {m.cur} : Parked(port, m, ver, t)
  BY <1>1, <1>2, <1>3, NewThread DEF Parked
<1>8. m.stk[m.cur] = Left(port, m.cur)  BY <1>3 DEF Left
<1>9. Kept(port, m, ver[m.cur], <<>>)
  BY <1>1, <1>3, WantedFacts DEF Kept, Version
<1>10. OwnInv  BY <1>1, <1>3, <1>6, <1>7, <1>8, <1>9 DEF OwnInv, Own
<1>11. Reopens(port) => Others_Shown(port, m, ver)
  BY <1>1, <1>2, <1>3, NewThread DEF Reopens, Others_Shown, Shown
<1>. QED  BY <1>10, <1>11

LEMMA PathOf ==
  ASSUME NEW p, Switchable(p)
  PROVE  /\ p.yield \in Paths(p) /\ p.ctx \in Paths(p) /\ p.int \in Paths(p)
         /\ p.ctx.pop = p.yield.pop /\ (p.kind = "flag" => p.int.pop = p.yield.pop)
         /\ p.on.yield \in BOOLEAN /\ p.mask \in BOOLEAN /\ p.force \in BOOLEAN
BY DEF Paths, Switchable, Registers

\* An interrupt ends with a switch, on a port whose interrupts can.
LEMMA StoppedParked ==
  ASSUME NEW p, Switchable(p), p.kind = "flag", NEW s, NEW w, Own(p, s, w, "isr")
  PROVE  /\ s \in Machine(p) /\ w \in [Threads -> Version] /\ s.cur \in Threads
         /\ \A t \in Threads : Parked(p, s, w, t)
         /\ p.int.pop[w[s.cur] = "b"] = Frame(p, w[s.cur])
<1>1. p.int.pop[w[s.cur] = "b"] = Frame(p, w[s.cur])  BY PathOf DEF Frame
<1>2. /\ s \in Machine(p) /\ w \in [Threads -> Version] /\ Stopped(p, s, w)
      /\ \A t \in Threads \ {s.cur} : Parked(p, s, w, t)
  BY DEF Own
<1>3. Parked(p, s, w, s.cur)  BY <1>1, <1>2 DEF Parked, Stopped
<1>. QED  BY <1>1, <1>2, <1>3, MachineFacts

\* What Preemptible needs: interrupts come only when they are enabled, whoever
\* is switched in finds them enabled, and so does whoever is interrupted.
Lock == [Threads -> {"free", "locked", "leaving"}]
FlagInv ==
    /\ lk \in Lock
    /\ mode = "isr" => m.ie
    /\ Reopens(port) =>
          /\ Others_Shown(port, m, ver)
          /\ mode = "isr" =>
                \/ port.force
                \/ Open(port, m.stk[m.cur], port.int.pop[ver[m.cur] = "b"])
          /\ Interruptible

\* What every step does to the machine, the flags and the locks.
Inv == OwnInv /\ FlagInv

LEMMA InitInv ==
  ASSUME \A name \in Ports : Switchable(Port(name))
  PROVE  Init => Inv
<1> SUFFICES ASSUME Init  PROVE Inv
  OBVIOUS
<1>1. OwnInv /\ (Reopens(port) => Others_Shown(port, m, ver))  BY InitOwn
<1>2. lk = [t \in Threads |-> IF t = Start THEN "locked" ELSE "free"]
  BY DEF Init
<1>3. mode = "thread" /\ m.cur = Start /\ Start \in Threads
  BY DEF Init, Threads
<1>4. lk \in Lock /\ lk[m.cur] = "locked"
  BY <1>2, <1>3 DEF Lock
<1>5. FlagInv
  BY <1>1, <1>3, <1>4 DEF FlagInv, Interruptible
<1>. QED  BY <1>1, <1>5 DEF Inv

\* The invariant after a step to the machine u, the versions w, the mode md
\* and the locks l.
LEMMA NextInv ==
  ASSUME NEW u, NEW w, NEW md, NEW l, Switchable(port), UNCHANGED port,
         m' = u, ver' = w, mode' = md, lk' = l,
         Own(port, u, w, md), l \in Lock, md = "isr" => u.ie,
         Reopens(port) =>
            /\ Others_Shown(port, u, w)
            /\ md = "isr" => port.force \/ Open(port, u.stk[u.cur], port.int.pop[w[u.cur] = "b"])
            /\ md = "thread" /\ l[u.cur] = "free" => u.ie
  PROVE  Inv'
BY DEF Inv, OwnInv, FlagInv, Interruptible

LEMMA InvFacts ==
  ASSUME Inv
  PROVE  /\ Switchable(port) /\ Own(port, m, ver, mode) /\ lk \in Lock
         /\ mode \in {"thread", "isr"} /\ m \in Machine(port)
         /\ m.cur \in Threads /\ m.ie \in BOOLEAN
         /\ mode = "isr" => m.ie
         /\ Reopens(port) => Others_Shown(port, m, ver)
         /\ Reopens(port) /\ mode = "isr" =>
               port.force \/ Open(port, m.stk[m.cur], port.int.pop[ver[m.cur] = "b"])
         /\ Reopens(port) /\ mode = "thread" /\ lk[m.cur] = "free" => m.ie
<1>1. Switchable(port) /\ Own(port, m, ver, mode) /\ FlagInv  BY DEF Inv, OwnInv
<1>2. mode \in {"thread", "isr"} /\ m \in Machine(port)  BY <1>1 DEF Own
<1>. QED  BY <1>1, <1>2, MachineFacts DEF FlagInv, Interruptible

\* Of the switches and the ends of interrupts: what the next thread finds.
LEMMA RunInv == Inv /\ Run => Inv' /\ m'.ie = m.ie /\ m'.cur = m.cur
<1> SUFFICES ASSUME Inv, Run  PROVE Inv' /\ m'.ie = m.ie /\ m'.cur = m.cur
  OBVIOUS
<1>1. PICK v \in {"a", "b"} :
             /\ ver' = [ver EXCEPT ![m.cur] = v]
             /\ m' = [m EXCEPT !.cpu = [r \in DOMAIN m.cpu |-> <<m.cur, v, r>>]]
  BY DEF Run
<1>2. mode = "thread" /\ UNCHANGED <<port, mode, lk>>  BY DEF Run, InThread
<1>3. Own(port, m, ver, "thread") /\ Switchable(port)  BY <1>2, InvFacts
<1>4. /\ Own(port, m', ver', "thread") /\ m'.cur = m.cur /\ m'.ie = m.ie
      /\ Others_Shown(port, m, ver) => Others_Shown(port, m', ver')
  BY <1>1, <1>3, RunStep
<1>5. /\ lk \in Lock /\ (Reopens(port) => Others_Shown(port, m, ver))
      /\ Reopens(port) /\ lk[m.cur] = "free" => m.ie
  BY <1>2, InvFacts
<1>. QED  BY <1>2, <1>3, <1>4, <1>5, NextInv

LEMMA LockInv == Inv /\ Sched_Lock => Inv'
<1> SUFFICES ASSUME Inv, Sched_Lock  PROVE Inv'
  OBVIOUS
<1> DEFINE b == m.ie /\ ~port.mask
<1>1. /\ mode = "thread" /\ UNCHANGED <<port, mode, ver>>
      /\ lk' = [lk EXCEPT ![m.cur] = "locked"] /\ m' = [m EXCEPT !.ie = b]
  BY DEF Sched_Lock, InThread
<1>2. /\ Own(port, m, ver, "thread") /\ Switchable(port)
      /\ lk \in Lock /\ (Reopens(port) => Others_Shown(port, m, ver)) /\ m.cur \in Threads
  BY <1>1, InvFacts
<1>3. b \in BOOLEAN  OBVIOUS
<1> HIDE DEF b
<1>4. /\ Own(port, m', ver, "thread") /\ m'.cur = m.cur
      /\ Others_Shown(port, m', ver) <=> Others_Shown(port, m, ver)
  BY <1>1, <1>2, <1>3, FlagStep
<1>5. lk' \in Lock /\ lk'[m.cur] # "free"  BY <1>1, <1>2 DEF Lock
<1>. QED  BY <1>1, <1>2, <1>4, <1>5, NextInv

LEMMA UnlockInv == Inv /\ Sched_Unlock => Inv' /\ m'.ie /\ m'.cur = m.cur
<1> SUFFICES ASSUME Inv, Sched_Unlock  PROVE Inv' /\ m'.ie /\ m'.cur = m.cur
  OBVIOUS
<1>1. /\ mode = "thread" /\ UNCHANGED <<port, mode, ver>>
      /\ lk' = [lk EXCEPT ![m.cur] = "free"] /\ m' = [m EXCEPT !.ie = TRUE]
  BY DEF Sched_Unlock, InThread
<1>2. /\ Own(port, m, ver, "thread") /\ Switchable(port)
      /\ lk \in Lock /\ (Reopens(port) => Others_Shown(port, m, ver)) /\ m.cur \in Threads
  BY <1>1, InvFacts
<1>3. /\ Own(port, m', ver, "thread") /\ m'.cur = m.cur /\ m'.ie = TRUE
      /\ Others_Shown(port, m', ver) <=> Others_Shown(port, m, ver)
  BY <1>1, <1>2, FlagStep
<1>4. lk' \in Lock  BY <1>1, <1>2 DEF Lock
<1>. QED  BY <1>1, <1>2, <1>3, <1>4, NextInv

\* A yield leaves the lock, if its thread held it.
LEMMA YieldLock ==
  ASSUME Inv, Yield
  PROVE  /\ mode = "thread" /\ lk' \in Lock /\ m.cur \in Threads
         /\ lk[m.cur] = "locked" => lk'[m.cur] = "leaving"
         /\ lk[m.cur] # "locked" => lk'[m.cur] = lk[m.cur]
         /\ \A t \in Threads \ {m.cur} : lk'[t] = lk[t]
<1>1. lk \in Lock /\ m.cur \in Threads  BY InvFacts
<1>2. /\ mode = "thread"
      /\ lk' = [lk EXCEPT ![m.cur] = IF lk[m.cur] = "locked" THEN "leaving" ELSE lk[m.cur]]
  BY DEF Yield, InThread
<1>. QED  BY <1>1, <1>2 DEF Lock

LEMMA YieldSwitchInv == Inv /\ Yield_Switch => Inv' /\ (Reopens(port) => m'.ie)
<1> SUFFICES ASSUME Inv, Yield_Switch  PROVE Inv' /\ (Reopens(port) => m'.ie)
  OBVIOUS
<1>1. PICK t \in Threads :
             m' = Load(Run_High(Save(m, port.yield, port.on.yield), t), port.yield)
  BY DEF Yield_Switch
<1>2. Yield /\ UNCHANGED <<port, mode, ver>>  BY DEF Yield_Switch, Served
<1>3. mode = "thread" /\ lk' \in Lock  BY <1>2, YieldLock
<1>4. /\ Own(port, m, ver, "thread") /\ Switchable(port)
      /\ Reopens(port) => Others_Shown(port, m, ver)
  BY <1>3, InvFacts
<1>5. port.yield \in Paths(port) /\ port.on.yield \in BOOLEAN  BY <1>4, PathOf
<1>6. /\ Own(port, m', ver, "thread")
      /\ Others_Shown(port, m, ver) /\ (port.force \/ port.on.yield) =>
            m'.ie /\ Others_Shown(port, m', ver)
  BY <1>1, <1>4, <1>5, SwitchStep
<1>7. Reopens(port) => m'.ie /\ Others_Shown(port, m', ver)
  BY <1>4, <1>6 DEF Reopens
<1>. QED  BY <1>2, <1>3, <1>4, <1>6, <1>7, NextInv

LEMMA YieldPendInv == Inv /\ Yield_Pend => Inv'
<1> SUFFICES ASSUME Inv, Yield_Pend  PROVE Inv'
  OBVIOUS
<1>1. Yield /\ UNCHANGED <<port, m, mode, ver>>  BY DEF Yield_Pend
<1>2. /\ mode = "thread" /\ lk' \in Lock
      /\ lk'[m.cur] = "free" => lk[m.cur] = "free"
  BY <1>1, YieldLock
<1>3. /\ Own(port, m, ver, "thread") /\ Switchable(port)
      /\ Reopens(port) => Others_Shown(port, m, ver)
      /\ Reopens(port) /\ lk[m.cur] = "free" => m.ie
  BY <1>2, InvFacts
<1>. QED  BY <1>1, <1>2, <1>3, NextInv

LEMMA PendSVInv == Inv /\ PendSV => Inv' /\ (Reopens(port) => m'.ie)
<1> SUFFICES ASSUME Inv, PendSV  PROVE Inv' /\ (Reopens(port) => m'.ie)
  OBVIOUS
<1>1. PICK t \in Threads : m' = Load(Run_High(Save(m, port.ctx, m.ie), t), port.ctx)
  BY DEF PendSV
<1>2. mode = "thread" /\ m.ie /\ UNCHANGED <<port, mode, ver, lk>>
  BY DEF PendSV, Due, Served
<1>3. /\ Own(port, m, ver, "thread") /\ Switchable(port) /\ lk \in Lock
      /\ Reopens(port) => Others_Shown(port, m, ver)
      /\ m.ie \in BOOLEAN
  BY <1>2, InvFacts
<1>4. port.ctx \in Paths(port) /\ port.ctx.pop = port.yield.pop  BY <1>3, PathOf
<1>5. /\ Own(port, m', ver, "thread")
      /\ Others_Shown(port, m, ver) /\ (port.force \/ m.ie) =>
            m'.ie /\ Others_Shown(port, m', ver)
  BY <1>1, <1>3, <1>4, SwitchStep
<1>6. Reopens(port) => m'.ie /\ Others_Shown(port, m', ver)
  BY <1>2, <1>3, <1>5
<1>. QED  BY <1>2, <1>3, <1>5, <1>6, NextInv

LEMMA IntEnterInv == Inv /\ Int_Enter => Inv'
<1> SUFFICES ASSUME Inv, Int_Enter  PROVE Inv'
  OBVIOUS
<1>1. /\ mode = "thread" /\ m.ie /\ mode' = "isr" /\ m' = Save(m, port.int, m.ie)
      /\ UNCHANGED <<port, ver, lk>>
  BY DEF Int_Enter
<1>2. /\ Own(port, m, ver, "thread") /\ Switchable(port) /\ lk \in Lock
      /\ Reopens(port) => Others_Shown(port, m, ver)
      /\ m.ie \in BOOLEAN
  BY <1>1, InvFacts
<1>3. /\ Own(port, m', ver, "isr") /\ m'.cur = m.cur /\ m'.ie = m.ie
      /\ Others_Shown(port, m, ver) => Others_Shown(port, m', ver)
      /\ m.ie => Open(port, m'.stk[m'.cur], port.int.pop[ver[m'.cur] = "b"])
  BY <1>1, <1>2, EnterStep
<1>. QED  BY <1>1, <1>2, <1>3, NextInv

LEMMA IntExitInv == Inv /\ Int_Exit => Inv' /\ (Reopens(port) => m'.ie) /\ m'.cur = m.cur
<1> SUFFICES ASSUME Inv, Int_Exit
             PROVE  Inv' /\ (Reopens(port) => m'.ie) /\ m'.cur = m.cur
  OBVIOUS
<1>1. /\ mode = "isr" /\ mode' = "thread" /\ m' = Load(m, port.int)
      /\ UNCHANGED <<port, ver, lk>>
  BY DEF Int_Exit
<1>2. /\ Own(port, m, ver, "isr") /\ Switchable(port) /\ lk \in Lock /\ m.ie
      /\ Reopens(port) =>
            /\ Others_Shown(port, m, ver)
            /\ port.force \/ Open(port, m.stk[m.cur], port.int.pop[ver[m.cur] = "b"])
  BY <1>1, InvFacts
<1>3. /\ Own(port, m', ver, "thread") /\ m'.cur = m.cur
      /\ Others_Shown(port, m, ver) => Others_Shown(port, m', ver)
      /\ \/ port.force
         \/ m.ie /\ Open(port, m.stk[m.cur], port.int.pop[ver[m.cur] = "b"])
         => m'.ie
  BY <1>1, <1>2, ExitStep
<1>. QED  BY <1>1, <1>2, <1>3, NextInv

LEMMA IntExitSwitchInv == Inv /\ Int_Exit_Switch => Inv' /\ (Reopens(port) => m'.ie)
<1> SUFFICES ASSUME Inv, Int_Exit_Switch  PROVE Inv' /\ (Reopens(port) => m'.ie)
  OBVIOUS
<1>1. PICK t \in Threads : m' = Load(Run_High(m, t), port.int)
  BY DEF Int_Exit_Switch
<1>2. /\ mode = "isr" /\ mode' = "thread" /\ port.kind = "flag"
      /\ UNCHANGED <<port, ver, lk>>
  BY DEF Int_Exit_Switch, Served
<1>3. /\ Own(port, m, ver, "isr") /\ Switchable(port) /\ lk \in Lock
      /\ Reopens(port) =>
            /\ Others_Shown(port, m, ver)
            /\ port.force \/ Open(port, m.stk[m.cur], port.int.pop[ver[m.cur] = "b"])
  BY <1>2, InvFacts
<1>4. /\ m \in Machine(port) /\ ver \in [Threads -> Version]
      /\ \A i \in Threads : Parked(port, m, ver, i)
      /\ port.int.pop[ver[m.cur] = "b"] = Frame(port, ver[m.cur])
  BY <1>2, <1>3, StoppedParked
<1>5. port.int \in Paths(port) /\ port.int.pop = port.yield.pop  BY <1>2, <1>3, PathOf
<1>6. /\ Own(port, m', ver, "thread")
      /\ (\A i \in Threads : Shown(port, m, ver, i)) => m'.ie /\ Others_Shown(port, m', ver)
  BY <1>1, <1>3, <1>4, <1>5, ResumeStep
<1>7. Reopens(port) => \A i \in Threads : Shown(port, m, ver, i)
  BY <1>3, <1>4 DEF Others_Shown, Shown
<1>. QED  BY <1>2, <1>3, <1>6, <1>7, NextInv

LEMMA IntYieldInv == Inv /\ Int_Yield => Inv'
BY DEF Inv, OwnInv, FlagInv, Interruptible, Int_Yield

LEMMA NextKeeps == Inv /\ [Next]_vars => Inv'
<1> SUFFICES ASSUME Inv, [Next]_vars  PROVE Inv'
  OBVIOUS
<1>1. CASE UNCHANGED vars
  BY <1>1 DEF Inv, OwnInv, FlagInv, Interruptible, vars
<1>2. CASE Next
  BY <1>2, RunInv, LockInv, UnlockInv, YieldSwitchInv, YieldPendInv, PendSVInv,
     IntEnterInv, IntYieldInv, IntExitInv, IntExitSwitchInv DEF Next
<1>. QED  BY <1>1, <1>2

\* The invariant of the context switch, for every port whose frames match.
THEOREM ContextInvariance ==
  ASSUME \A name \in Ports : Switchable(Port(name))
  PROVE  Spec => []Inv
<1>1. Init => Inv  BY InitInv
<1>. QED  BY <1>1, NextKeeps, PTL DEF Spec

\* A thread comes back to its own registers and its own stack, whatever yields,
\* pended switches and interrupts came between, with or without an active FPU,
\* and a new thread finds its entry (the loads and saves of the ports, in
\* src/Source/Platform, and _RMP_Stack_Init).
THEOREM OwnCorrect ==
  ASSUME \A name \in Ports : Switchable(Port(name))
  PROVE  Spec => []OwnContext
<1>1. Inv => OwnContext
  <2> SUFFICES ASSUME Inv, mode = "thread"
               PROVE  /\ m.stk[m.cur] = Rest(m.cur)
                      /\ \A r \in Needed(m.cur) : m.cpu[r] = <<m.cur, ver[m.cur], r>>
    BY DEF OwnContext
  <2>1. Own(port, m, ver, "thread")  BY InvFacts
  <2>2. /\ m.stk[m.cur] = Left(port, m.cur)
        /\ Kept(port, m, ver[m.cur], <<>>)
    BY <2>1 DEF Own
  <2>3. Rest(m.cur) = Left(port, m.cur)  BY DEF Rest, Left
  <2>4. Needed(m.cur) = Wanted(port, ver[m.cur])  BY DEF Needed, Wanted
  <2>5. \A r \in Wanted(port, ver[m.cur]) : m.cpu[r] = <<m.cur, ver[m.cur], r>>
    BY <2>2, EmptySet DEF Kept
  <2>. QED  BY <2>2, <2>3, <2>4, <2>5
<1>. QED  BY <1>1, ContextInvariance, PTL

----------------------------------------------------------------------------
(* Interrupts and requests.                                                *)

\* Outside the scheduler lock interrupts are enabled, on every port whose
\* loads see to it: "the routine will unmask interrupts at its end anyway"
\* (rmp_kernel.c:880-882).
THEOREM PreemptCorrect ==
  ASSUME \A name \in Ports : /\ Switchable(Port(name))
                             /\ Port(name) \in Masked \/ Reopens(Port(name))
  PROVE  Spec => []Preemptible
<1> DEFINE Enabled == port \in Masked \/ Reopens(port)
<1>1. Init => Enabled  BY DEF Init
<1>2. Enabled /\ [Next]_vars => Enabled'
  <2> SUFFICES ASSUME Enabled, [Next]_vars  PROVE Enabled'
    OBVIOUS
  <2>1. port' = port
    BY DEF Next, vars, Run, Sched_Lock, Sched_Unlock, Yield_Switch, Yield_Pend, PendSV,
       Int_Enter, Int_Yield, Int_Exit, Int_Exit_Switch, Served
  <2>. QED  BY <2>1 DEF Masked
<1>3. Inv /\ Enabled => Preemptible
  BY DEF Inv, FlagInv, Preemptible
<1> HIDE DEF Enabled
<1>4. Spec => []Inv  BY ContextInvariance
<1>. QED  BY <1>1, <1>2, <1>3, <1>4, PTL DEF Spec

\* No request is forgotten: one that was made is pended, one that is pended in
\* a thread is taken when interrupts are enabled again, and a thread that
\* holds the lock has made none.
Requests ==
    /\ Prompt(port)
    /\ port.kind # "signal" =>
          /\ asked => pend
          /\ mode = "thread" /\ pend =>
                port.kind # "flag" /\ (lk[m.cur] = "leaving" \/ m.ie)
          /\ port.mask =>
                \A t \in Threads : lk[t] = "locked" =>
                                      t = m.cur /\ mode = "thread" /\ ~m.ie

\* While a request waits, no thread computes, locks or yields.
LEMMA NoRequest ==
  ASSUME Requests, InThread, lk[m.cur] # "leaving", port.kind # "signal"
  PROVE  mode = "thread" /\ ~pend /\ ~asked
BY DEF Requests, InThread, Due

LEMMA InitRequests ==
  ASSUME \A name \in Ports : Switchable(Port(name)) /\ Prompt(Port(name))
  PROVE  Init => Requests
<1> SUFFICES ASSUME Init  PROVE Requests
  OBVIOUS
<1>1. /\ Prompt(port) /\ Switchable(port) /\ mode = "thread" /\ pend = FALSE /\ asked = FALSE
      /\ lk = [t \in Threads |-> IF t = Start THEN "locked" ELSE "free"]
      /\ m.ie = ~port.mask /\ m.cur = Start
  BY DEF Init
<1>. QED  BY <1>1 DEF Requests

LEMMA NextRequests == Inv /\ Requests /\ [Next]_vars => Requests'
<1> SUFFICES ASSUME Inv, Requests, [Next]_vars  PROVE Requests'
  OBVIOUS
<1> USE DEF Requests
<1>1. /\ lk \in Lock /\ m.cur \in Threads /\ mode \in {"thread", "isr"} /\ Switchable(port)
      /\ mode = "isr" => m.ie
      /\ Reopens(port) /\ mode = "thread" /\ lk[m.cur] = "free" => m.ie
      /\ Prompt(port)
  BY InvFacts
<1>2. CASE UNCHANGED vars  BY <1>2 DEF vars
<1>3. CASE Run
  <2>1. m'.ie = m.ie /\ m'.cur = m.cur  BY <1>3, RunInv
  <2>. QED  BY <1>3, <2>1 DEF Run
<1>4. CASE Sched_Lock
  <2>1. /\ UNCHANGED <<port, mode, pend, asked>> /\ InThread /\ lk[m.cur] = "free"
        /\ lk' = [lk EXCEPT ![m.cur] = "locked"]
        /\ m' = [m EXCEPT !.ie = m.ie /\ ~port.mask]
    BY <1>4 DEF Sched_Lock
  <2>2. m'.cur = m.cur /\ (port.mask => ~m'.ie)
    <3>1. m \in Machine(port)  BY InvFacts
    <3>. QED  BY <2>1, <3>1 DEF Machine
  <2>3. \A t \in Threads \ {m.cur} : lk'[t] = lk[t]  BY <1>1, <2>1 DEF Lock
  <2>4. port.kind # "signal" => mode = "thread" /\ ~pend /\ ~asked
    BY <2>1, NoRequest
  <2>. QED  BY <2>1, <2>2, <2>3, <2>4
<1>5. CASE Sched_Unlock
  <2>1. /\ UNCHANGED <<port, mode, pend, asked>> /\ mode = "thread"
        /\ lk' = [lk EXCEPT ![m.cur] = "free"]
    BY <1>5 DEF Sched_Unlock, InThread
  <2>2. m'.ie /\ m'.cur = m.cur  BY <1>5, UnlockInv
  <2>3. /\ lk'[m.cur] = "free"
        /\ \A t \in Threads \ {m.cur} : lk'[t] = lk[t]
    BY <1>1, <2>1 DEF Lock
  <2>. QED  BY <2>1, <2>2, <2>3
<1>6. CASE Yield_Switch
  <2>1. /\ Yield /\ InThread /\ lk[m.cur] # "leaving" /\ asked' = FALSE
        /\ UNCHANGED <<port, mode, pend>>
    BY <1>6 DEF Yield_Switch, Yield, Served
  <2>2. port.kind # "signal" => mode = "thread" /\ ~pend  BY <2>1, NoRequest
  <2>3. /\ lk[m.cur] = "locked" => lk'[m.cur] = "leaving"
        /\ lk[m.cur] # "locked" => lk'[m.cur] = lk[m.cur]
        /\ \A t \in Threads \ {m.cur} : lk'[t] = lk[t]
    BY <2>1, YieldLock
  <2>4. port.kind # "signal" /\ port.mask => \A t \in Threads : lk'[t] # "locked"
    BY <2>3
  <2>. QED  BY <2>1, <2>2, <2>4
<1>7. CASE Yield_Pend
  <2>1. /\ Yield /\ port.kind \in {"pend", "signal"} /\ pend' = TRUE /\ lk[m.cur] # "leaving"
        /\ UNCHANGED <<port, m, mode>>
    BY <1>7 DEF Yield_Pend, Yield
  <2>2. /\ lk[m.cur] = "locked" => lk'[m.cur] = "leaving"
        /\ lk[m.cur] # "locked" => lk'[m.cur] = lk[m.cur]
        /\ \A t \in Threads \ {m.cur} : lk'[t] = lk[t]
    BY <2>1, YieldLock
  <2>3. mode = "thread"  BY <2>1, YieldLock
  <2>4. port.kind # "signal" => lk'[m.cur] = "leaving" \/ m.ie
    <3>1. port.kind # "signal" => Reopens(port)  BY <1>1, <2>1 DEF Prompt
    <3>2. lk[m.cur] \in {"free", "locked", "leaving"}  BY <1>1 DEF Lock
    <3>. QED  BY <1>1, <2>1, <2>2, <2>3, <3>1, <3>2
  <2>5. port.kind # "signal" /\ port.mask => \A t \in Threads : lk'[t] # "locked"
    BY <2>2, <2>3
  <2>. QED  BY <2>1, <2>3, <2>4, <2>5
<1>8. CASE PendSV
  <2>1. /\ mode = "thread" /\ m.ie /\ pend' = FALSE /\ asked' = FALSE
        /\ UNCHANGED <<port, mode, lk>>
    BY <1>8 DEF PendSV, Due, Served
  <2>2. port.kind # "signal" /\ port.mask => \A t \in Threads : lk[t] # "locked"
    BY <2>1
  <2>. QED  BY <2>1, <2>2
<1>9. CASE Int_Enter
  <2>1. /\ mode = "thread" /\ m.ie /\ mode' = "isr" /\ UNCHANGED <<port, pend, asked, lk>>
    BY <1>9 DEF Int_Enter
  <2>2. port.kind # "signal" /\ port.mask => \A t \in Threads : lk[t] # "locked"
    BY <2>1
  <2>. QED  BY <2>1, <2>2
<1>10. CASE Int_Yield  BY <1>10 DEF Int_Yield
<1>11. CASE Int_Exit
  <2>1. /\ mode = "isr" /\ mode' = "thread" /\ ~(port.kind = "flag" /\ pend)
        /\ UNCHANGED <<port, pend, asked, lk>>
    BY <1>11 DEF Int_Exit
  <2>2. Reopens(port) => m'.ie  BY <1>11, IntExitInv
  <2>3. port.kind # "signal" /\ port.mask => \A t \in Threads : lk[t] # "locked"
    BY <2>1
  <2>4. port.kind # "signal" /\ pend => port.kind # "flag" /\ m'.ie
    BY <1>1, <2>1, <2>2 DEF Prompt
  <2>. QED  BY <2>1, <2>3, <2>4
<1>12. CASE Int_Exit_Switch
  <2>1. /\ mode = "isr" /\ mode' = "thread" /\ pend' = FALSE /\ asked' = FALSE
        /\ UNCHANGED <<port, lk>>
    BY <1>12 DEF Int_Exit_Switch, Served
  <2>2. port.kind # "signal" /\ port.mask => \A t \in Threads : lk[t] # "locked"
    BY <2>1
  <2>. QED  BY <2>1, <2>2
<1>. QED
  BY <1>2, <1>3, <1>4, <1>5, <1>6, <1>7, <1>8, <1>9, <1>10, <1>11, <1>12 DEF Next

\* Between a request to switch and the switch no thread computes, be the
\* request its own (_RMP_Yield) or one of an interrupt (_RMP_Yield_Pend), on
\* every port but the one whose requests are signals.
THEOREM LostCorrect ==
  ASSUME \A name \in Ports : Switchable(Port(name)) /\ Prompt(Port(name))
  PROVE  Spec => NoLostYield
<1>1. Init => Requests  BY InitRequests
<1>2. Requests /\ [Next]_vars => (ver' # ver => ~asked \/ port.kind = "signal")
  <2> SUFFICES ASSUME Requests, [Next]_vars, ver' # ver, port.kind # "signal"
               PROVE  ~asked
    OBVIOUS
  <2>1. Run
    BY DEF Next, vars, Sched_Lock, Sched_Unlock, Yield_Switch, Yield_Pend, PendSV,
       Int_Enter, Int_Yield, Int_Exit, Int_Exit_Switch, Served
  <2>. QED  BY <2>1, NoRequest DEF Run
<1>3. Spec => []Inv  BY ContextInvariance
<1>. QED  BY <1>1, <1>2, <1>3, NextRequests, PTL DEF Spec, NoLostYield

=============================================================================
