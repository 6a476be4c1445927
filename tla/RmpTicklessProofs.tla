-------------------------- MODULE RmpTicklessProofs --------------------------
(***************************************************************************)
(* Time.  The delay list of the ticking kernel: its order, how far ahead   *)
(* its timers lie, and that the timer interrupt ends exactly the waits     *)
(* whose time has come, also across the wrap of the timestamp.  And the    *)
(* tickless kernel: the timer is programmed for the first timeout and the  *)
(* end of the slice, clocks stop only when there is nothing to time, and   *)
(* no wait ends early in real time, although the timestamp moves in bumps  *)
(* that may carry it past timers.                                          *)
(***************************************************************************)
EXTENDS RmpTickless, RmpKernelProofs

----------------------------------------------------------------------------
(* The delay list of the ticking kernel.  RmpKernelProofs says which       *)
(* threads are on the list; this part says where.                          *)

\* No timer has passed, none is further ahead than a call can ask for, and
\* an earlier place on the list is an earlier time.
Timers(s) ==
    /\ \A t \in Thd : t \in ToSet(s.delay) => Diff(s, t) \in 1..(SliceMax - 1)
    /\ \A a, b \in Thd : Before(s.delay, a, b) => Diff(s, a) <= Diff(s, b)

\* The inductive invariant, with the one it rests on.
TimerInv == IInv /\ Timers(k)

\* The current thread and its slice are the same, and no switch that was
\* pended or requested is forgotten.
Calm(u, s) ==
    /\ u.cur = s.cur /\ u.left[s.cur] = s.left[s.cur]
    /\ s.pend = 1 => u.pend = 1
    /\ s.soft = 1 => u.soft = 1

\* So are the delay list and the clock.
Still(u, s) ==
    /\ Mem(u) /\ Calm(u, s)
    /\ u.delay = s.delay /\ u.timeout = s.timeout /\ u.now = s.now

\* u is s after some timers were taken off the list.
Thin(u, s) ==
    /\ Mem(u) /\ Calm(u, s) /\ u.delay \in Seq(Thd)
    /\ u.timeout = s.timeout /\ u.now = s.now
    /\ \A t \in Thd : t \in ToSet(u.delay) => t \in ToSet(s.delay)
    /\ \A a, b \in Thd : Before(u.delay, a, b) => Before(s.delay, a, b)

\* Taking timers off the list keeps it as it should be.
LEMMA ThinTimers ==
  ASSUME NEW s, NEW u, Timers(s), Thin(u, s)
  PROVE  Timers(u)
<1>1. \A t : Diff(u, t) = Diff(s, t)  BY DEF Thin, Diff
<1>. QED  BY <1>1 DEF Thin, Timers

\* Any memory is a thinned one of itself.
LEMMA ThinRefl == \A s \in Kernel : Thin(s, s)
BY KernelMem DEF Thin, Calm, Kernel

\* A step that leaves the timers alone, after others that thinned them.
LEMMA StillThin ==
  ASSUME NEW z, NEW s, NEW u, Thin(s, z), Still(u, s)
  PROVE  Thin(u, z)
BY DEF Thin, Still, Calm

----------------------------------------------------------------------------
(* The helpers.                                                            *)

\* The run queues, the return values and the switch are of no concern here.
LEMMA QueueStill ==
  ASSUME NEW s, Mem(s), NEW t, NEW T, NEW r
  PROVE  /\ Still(Run_Ins(s, t), s) /\ Still(Run_Del(s, t), s)
         /\ Still(Leave(s), s) /\ Still(SetRetval(s, T, r), s)
BY DEF Still, Calm, Run_Ins, Run_Del, Leave, SetRetval, Mem, Boot

\* The same after a thinning.
LEMMA QueueThin ==
  ASSUME NEW z, NEW s, Thin(s, z), NEW t, NEW T, NEW r
  PROVE  /\ Thin(Run_Ins(s, t), z) /\ Thin(Run_Del(s, t), z)
         /\ Thin(Leave(s), z) /\ Thin(SetRetval(s, T, r), z)
<1>1. Mem(s)  BY DEF Thin
<1>. QED  BY <1>1, QueueStill, StillThin

\* Writing a field that is none of the timers'.
LEMMA FieldThin ==
  ASSUME NEW z, NEW s, Thin(s, z), NEW x
  PROVE  /\ Thin([s EXCEPT !.state = x], z) /\ Thin([s EXCEPT !.prio = x], z)
         /\ Thin([s EXCEPT !.slice = x], z) /\ Thin([s EXCEPT !.lock = x], z)
         /\ Thin([s EXCEPT !.susp = x], z) /\ Thin([s EXCEPT !.full = x], z)
         /\ Thin([s EXCEPT !.snd = x], z) /\ Thin([s EXCEPT !.wait = x], z)
         /\ Thin([s EXCEPT !.num = x], z) /\ Thin([s EXCEPT !.used = x], z)
         /\ Thin([s EXCEPT !.mailbox = x], z)
         /\ Thin([s EXCEPT !.retval = x], z)
BY DEF Thin, Calm, Mem, Boot

\* A thread that stops waiting takes its timer off the list.
LEMMA UnlinkThin ==
  ASSUME NEW z, NEW s, Thin(s, z), NEW t
  PROVE  Thin(Unlink(s, t), z)
<1> DEFINE u == Unlink(s, t)
<1>1. Mem(s) /\ s.delay \in Seq(Thd)  BY DEF Thin
<1>2. /\ Mem(u) /\ Calm(u, s) /\ u.timeout = s.timeout /\ u.now = s.now
      /\ u.delay = s.delay \/ u.delay = RemoveFirst(s.delay, t)
  BY <1>1 DEF Unlink, Calm, Mem, Boot
<1> HIDE DEF u
<1>3. CASE u.delay = s.delay
  BY <1>2, <1>3, StillThin DEF Still, u
<1>4. CASE u.delay = RemoveFirst(s.delay, t)
  <2>1. /\ u.delay \in Seq(Thd)
        /\ ToSet(u.delay) \subseteq ToSet(s.delay)
        /\ \A a, b : Before(u.delay, a, b) => Before(s.delay, a, b)
    BY <1>1, <1>4, RemoveOrder
  <2>2. Thin(u, z)  BY <1>2, <2>1 DEF Thin, Calm
  <2>. QED  BY <2>2 DEF u
<1>. QED  BY <1>2, <1>3, <1>4

\* So does one that is woken.
LEMMA WakeThin ==
  ASSUME NEW z, NEW s, Thin(s, z), NEW t
  PROVE  Thin(Wake(s, t), z)
<1> DEFINE u == Unlink(s, t)
           v == [u EXCEPT !.state[t] = "RUNNING"]
<1>1. Thin(u, z)  BY UnlinkThin
<1> HIDE DEF u
<1>2. v = [u EXCEPT !.state = [u.state EXCEPT ![t] = "RUNNING"]]  OBVIOUS
<1>3. Thin(v, z)  BY <1>1, <1>2, FieldThin
<1> HIDE DEF v
<1>4. Thin(Run_Ins(v, t), z)  BY <1>3, QueueThin
<1>. QED  BY <1>4 DEF Wake, u, v

\* And a waking loop.
LEMMA WakeAllThin ==
  ASSUME NEW z, NEW s, Thin(s, z), NEW ts \in Seq(Thd)
  PROVE  Thin(WakeAll(s, ts), z)
<1> DEFINE n == Len(ts)
<1>1. n \in Nat  OBVIOUS
<1>2. PICK f : Chain(s, ts, n, f) /\ WakeAll(s, ts) = f[n]
  BY <1>1, WakeAllChain
<1> HIDE DEF n
<1>3. \A i \in 0..n : f[i] = IF i = 0 THEN s ELSE Wake(f[i - 1], ts[i])
  BY <1>2 DEF Chain
<1> DEFINE Bad == {i \in 0..n : ~Thin(f[i], z)}
<1>4. Bad = {}
  <2>1. SUFFICES ASSUME Bad # {}  PROVE FALSE
    OBVIOUS
  <2>2. PICK m \in Bad : \A i \in Bad : m <= i
    <3>1. Bad \in SUBSET Nat  BY <1>1
    <3> HIDE DEF Bad
    <3>. QED  BY <2>1, <3>1, LeastNat
  <2>3. m \in 0..n /\ ~Thin(f[m], z)  OBVIOUS
  <2>4. m # 0
    <3>1. f[0] = s  BY <1>1, <1>3
    <3>. QED  BY <2>3, <3>1
  <2>5. m - 1 \in 0..n /\ ~(m <= m - 1)  BY <1>1, <2>3, <2>4
  <2>6. Thin(f[m - 1], z)  BY <2>2, <2>5
  <2>7. f[m] = Wake(f[m - 1], ts[m])  BY <1>3, <2>3, <2>4
  <2>8. Thin(Wake(f[m - 1], ts[m]), z)  BY <2>6, WakeThin
  <2>. QED  BY <2>3, <2>7, <2>8
<1>5. n \in 0..n  BY <1>1
<1>6. Thin(f[n], z)  BY <1>4, <1>5
<1>. QED  BY <1>2, <1>6

----------------------------------------------------------------------------
(* Timestamps.                                                             *)

\* The remainder of a difference of two words, and of a sum.
LEMMA ModNear ==
  /\ \A a \in (1 - W)..(W - 1) : a % W = IF a >= 0 THEN a ELSE a + W
  /\ \A a \in 0..(2 * W - 2) : a % W = IF a < W THEN a ELSE a - W
<1> USE CoreAssumption
<1>1. ASSUME NEW a \in Int, a < 0, a + W >= 0  PROVE a % W = a + W
  BY <1>1
<1>2. ASSUME NEW a \in Int, 0 <= a, a < W  PROVE a % W = a
  BY <1>2
<1>3. ASSUME NEW a \in Int, W <= a, a < 2 * W  PROVE a % W = a - W
  <2> DEFINE q == a \div W
             r == a % W
  <2>1. q \in Int /\ r \in 0..(W - 1) /\ a = W * q + r  BY <1>3
  <2> HIDE DEF q, r
  <2>2. q < 2
    <3>1. q >= 2 => W * q >= 2 * W  BY <2>1
    <3>. QED  BY <1>3, <2>1, <3>1
  <2>3. q > 0
    <3>1. q <= 0 => W * q <= 0  BY <2>1
    <3>. QED  BY <1>3, <2>1, <3>1
  <2>4. q = 1  BY <2>1, <2>2, <2>3
  <2>5. r = a - W  BY <2>1, <2>4
  <2>. QED  BY <2>5 DEF r
<1>. QED  BY <1>1, <1>2, <1>3

\* The time until a timeout is a word.
LEMMA DiffWord ==
  ASSUME NEW s \in Kernel, NEW t \in Thd
  PROVE  /\ Diff(s, t) \in Word
         /\ LET a == s.timeout[t] - s.now
            IN  Diff(s, t) = IF a >= 0 THEN a ELSE a + W
<1>1. s.timeout[t] \in Word /\ s.now \in Word  BY DEF Kernel
<1>2. s.timeout[t] - s.now \in (1 - W)..(W - 1)
  BY <1>1, CoreAssumption DEF Word
<1>. QED  BY <1>1, <1>2, ModNear, CoreAssumption DEF Diff, Word

\* A timer that is started for n slices lies n slices ahead.
LEMMA StartDiff ==
  ASSUME NEW now \in Word, NEW n \in Word
  PROVE  (((now + n) % W) - now) % W = n
<1> DEFINE a == now + n
           e == (now + n) % W
<1>1. a \in 0..(2 * W - 2) /\ a = now + n  BY CoreAssumption DEF Word
<1>2. e = a % W  OBVIOUS
<1> HIDE DEF a, e
<1>6. e = IF a < W THEN a ELSE a - W  BY <1>1, <1>2, ModNear
<1>3. e - now \in (1 - W)..(W - 1)  BY <1>1, <1>6, CoreAssumption DEF Word
<1>4. (e - now) % W = IF e - now >= 0 THEN e - now ELSE e - now + W
  BY <1>3, ModNear
<1>5. (e - now) % W = n  BY <1>1, <1>4, <1>6, CoreAssumption DEF Word
<1>. QED  BY <1>5 DEF e

\* No timer that is on its way looks overflown.
LEMMA AliveTimer ==
  ASSUME NEW s, NEW t, Diff(s, t) \in 1..(SliceMax - 1)
  PROVE  ~Overflown(s, t)
<1>1. Diff(s, t) <= (W - 1) \div 2 /\ Diff(s, t) # 0
  BY CoreAssumption
<1>. QED  BY <1>1, CoreAssumption DEF Overflown

\* The slices between two interrupts are less than the range in which a
\* timer counts as overflown.  The ports' handlers pass one.
TicksFit == \A n \in Ticks : 2 * n <= W

\* n slices later a timer is overflown exactly if it was due within n.
LEMMA LaterDiff ==
  ASSUME NEW s \in Kernel, NEW u \in Kernel, NEW t \in Thd, NEW n \in Word,
         2 * n <= W, u.timeout = s.timeout, u.now = (s.now + n) % W,
         Diff(s, t) \in 1..(SliceMax - 1)
  PROVE  /\ Overflown(u, t) <=> n >= Diff(s, t)
         /\ ~Overflown(u, t) => Diff(u, t) = Diff(s, t) - n
<1> DEFINE d == Diff(s, t)
           e == Diff(u, t)
           a == s.timeout[t]
<1>1. /\ a \in Word /\ s.now \in Word /\ d \in 1..(SliceMax - 1)
      /\ d = IF a - s.now >= 0 THEN a - s.now ELSE a - s.now + W
  BY DiffWord DEF Kernel
<1>2. u.now = IF s.now + n < W THEN s.now + n ELSE s.now + n - W
  <2> DEFINE b == s.now + n
  <2>1. b \in 0..(2 * W - 2)  BY <1>1, CoreAssumption DEF Word
  <2>2. u.now = b % W  OBVIOUS
  <2> HIDE DEF b
  <2>3. u.now = IF b < W THEN b ELSE b - W  BY <2>1, <2>2, ModNear
  <2>. QED  BY <1>1, <2>3, CoreAssumption DEF b, Word
<1>3. e = IF a - u.now >= 0 THEN a - u.now ELSE a - u.now + W
  BY DiffWord
<1>4. Overflown(u, t) <=> e = 0 \/ e > (W - 1) \div 2
  BY DEF Overflown
<1> HIDE DEF d, e, a
<1>5. e = IF d >= n THEN d - n ELSE d - n + W
  BY <1>1, <1>2, <1>3, CoreAssumption DEF Word
<1>6. CASE n >= d
  <2>1. e = 0 \/ e > (W - 1) \div 2
    BY <1>1, <1>5, <1>6, CoreAssumption DEF Word
  <2>. QED  BY <1>4, <1>6, <2>1 DEF d
<1>7. CASE ~(n >= d)
  <2>1. e = d - n /\ e # 0 /\ ~(e > (W - 1) \div 2)
    BY <1>1, <1>5, <1>7, CoreAssumption DEF Word
  <2>. QED  BY <1>4, <1>7, <2>1 DEF d, e
<1>. QED  BY <1>6, <1>7

----------------------------------------------------------------------------
(* Starting a timer.                                                       *)

\* _RMP_Dly_Ins looks for the first timer that is not earlier than n.
LEMMA PlaceOf ==
  ASSUME NEW s, s.delay \in Seq(Thd), Timers(s), NEW n \in Word
  PROVE  LET q == s.delay
             later == {i \in DOMAIN q : ~Overflown(s, q[i]) /\ Diff(s, q[i]) >= n}
             place == IF later = {} THEN Len(q) + 1 ELSE Min(later)
         IN  /\ place \in 1..(Len(q) + 1)
             /\ \A i \in 1..Len(q) : i < place => Diff(s, q[i]) < n
             /\ \A i \in 1..Len(q) : i >= place => Diff(s, q[i]) >= n
<1> DEFINE q == s.delay
           later == {i \in DOMAIN q : ~Overflown(s, q[i]) /\ Diff(s, q[i]) >= n}
           place == IF later = {} THEN Len(q) + 1 ELSE Min(later)
<1>1. Len(q) \in Nat /\ DOMAIN q = 1..Len(q) /\ \A i \in 1..Len(q) : q[i] \in Thd
  OBVIOUS
<1>2. \A i \in 1..Len(q) : q[i] \in ToSet(q)  BY ToSetLemma
<1>3. \A i \in 1..Len(q) : Diff(s, q[i]) \in 1..(SliceMax - 1)
  BY <1>1, <1>2 DEF Timers
<1>4. \A i \in 1..Len(q) : ~Overflown(s, q[i])  BY <1>3, AliveTimer
<1>5. \A i \in 1..Len(q) : i \in later <=> Diff(s, q[i]) >= n
  BY <1>1, <1>4
<1>6. \A i, j \in 1..Len(q) : i < j => Diff(s, q[i]) <= Diff(s, q[j])
  <2>1. \A i, j \in 1..Len(q) : i < j => Before(q, q[i], q[j])
    BY DEF Before
  <2>. QED  BY <1>1, <2>1 DEF Timers
<1>7. later \subseteq 1..Len(q)  BY <1>1
<1>8. \A i \in 1..Len(q) : Diff(s, q[i]) \in Int  BY <1>3, CoreAssumption
<1>9. n \in Int  BY CoreAssumption DEF Word
<1> HIDE DEF later, q
<1>10. CASE later = {}
  <2>1. place = Len(q) + 1  BY <1>10
  <2> HIDE DEF place
  <2>2. \A i \in 1..Len(q) : Diff(s, q[i]) < n  BY <1>5, <1>8, <1>9, <1>10
  <2>3. /\ place \in 1..(Len(q) + 1)
        /\ \A i \in 1..Len(q) : ~(i >= place)
    BY <1>1, <2>1
  <2>. QED  BY <2>2, <2>3 DEF q, later, place
<1>11. CASE later # {}
  <2>1. later \in SUBSET Nat  BY <1>1, <1>7
  <2>2. place \in later /\ \A i \in later : place <= i
    BY <1>11, <2>1, MinOfNats
  <2> HIDE DEF place
  <2>3. place \in 1..Len(q) /\ Diff(s, q[place]) >= n  BY <1>5, <1>7, <2>2
  <2>4. ASSUME NEW i \in 1..Len(q), i < place  PROVE Diff(s, q[i]) < n
    <3>1. i \notin later  BY <2>2, <2>3, <2>4
    <3>. QED  BY <1>5, <1>8, <1>9, <3>1
  <2>5. ASSUME NEW i \in 1..Len(q), i >= place  PROVE Diff(s, q[i]) >= n
    <3>1. CASE i = place  BY <2>3, <3>1
    <3>2. CASE place < i
      <4>1. Diff(s, q[place]) <= Diff(s, q[i])  BY <1>6, <2>3, <3>2
      <4>. QED  BY <1>8, <1>9, <2>3, <4>1
    <3>. QED  BY <2>3, <2>5, <3>1, <3>2
  <2>6. place \in 1..(Len(q) + 1)  BY <1>1, <2>3
  <2>. QED  BY <2>4, <2>5, <2>6 DEF q, later, place
<1>. QED  BY <1>10, <1>11

\* A timer is put where it belongs.
LEMMA DlyInsTimers ==
  ASSUME NEW s, Mem(s), s.delay \in Seq(Thd), s.timeout \in [Thd -> Word],
         s.now \in Word, Timers(s), NEW t \in Thd, t \notin ToSet(s.delay),
         NEW n \in Word, n # 0, n < SliceMax
  PROVE  LET u == Dly_Ins(s, t, n)
         IN  Timers(u) /\ Thin(u, u) /\ u.now = s.now
<1> DEFINE q == s.delay
           later == {i \in DOMAIN q : ~Overflown(s, q[i]) /\ Diff(s, q[i]) >= n}
           place == IF later = {} THEN Len(q) + 1 ELSE Min(later)
           r == InsertAt(q, place, t)
           e == (s.now + n) % W
           u == [s EXCEPT !.timeout[t] = e, !.delay = r]
<1>1. Dly_Ins(s, t, n) = u  BY DEF Dly_Ins
<1>2. /\ place \in 1..(Len(q) + 1)
      /\ \A i \in 1..Len(q) : i < place => Diff(s, q[i]) < n
      /\ \A i \in 1..Len(q) : i >= place => Diff(s, q[i]) >= n
  BY PlaceOf
<1> HIDE DEF place
<1>3. r \in Seq(Thd) /\ ToSet(r) = ToSet(q) \cup {t}
  <2>1. q \in Seq(Thd) /\ place \in 1..(Len(q) + 1)  BY <1>2
  <2> HIDE DEF q
  <2>. QED  BY <2>1, InsertLemma
<1>4. \A a, b : Before(r, a, b) =>
         \/ Before(q, a, b)
         \/ b = t /\ \E j \in 1..Len(q) : j < place /\ q[j] = a
         \/ a = t /\ \E j \in 1..Len(q) : j >= place /\ q[j] = b
  BY <1>2, InsertOrder
<1> HIDE DEF r
<1>5. (e - s.now) % W = n  BY StartDiff
<1> HIDE DEF e
<1>6. /\ u.delay = r /\ u.now = s.now /\ Mem(u)
      /\ u.timeout = [s.timeout EXCEPT ![t] = e]
  BY DEF Mem, Boot
<1> HIDE DEF u
<1>7. Diff(u, t) = n  BY <1>5, <1>6 DEF Diff
<1>8. \A x \in Thd : x # t => Diff(u, x) = Diff(s, x)  BY <1>6 DEF Diff
<1>9. \A x \in Thd : x \in ToSet(q) => x # t /\ Diff(s, x) \in 1..(SliceMax - 1)
  BY DEF Timers
<1>10. /\ \A i \in 1..Len(q) : q[i] \in Thd /\ q[i] \in ToSet(q)
       /\ \A a, b : Before(q, a, b) => a \in ToSet(q) /\ b \in ToSet(q)
  <2>1. \A i \in 1..Len(q) : q[i] \in Thd  OBVIOUS
  <2>2. \A i \in 1..Len(q) : q[i] \in ToSet(q)  BY ToSetLemma
  <2> HIDE DEF q
  <2>. QED  BY <2>1, <2>2 DEF Before
<1>11. n \in 1..(SliceMax - 1)  BY CoreAssumption DEF Word
<1> HIDE DEF q, later
<1>12. \A x \in Thd : x \in ToSet(r) => Diff(u, x) \in 1..(SliceMax - 1)
  BY <1>3, <1>7, <1>8, <1>9, <1>11
<1>13. ASSUME NEW a \in Thd, NEW b \in Thd, Before(r, a, b)
       PROVE  Diff(u, a) <= Diff(u, b)
  <2>1. CASE Before(q, a, b)
    <3>1. a # t /\ b # t  BY <1>9, <1>10, <2>1
    <3>2. Diff(s, a) <= Diff(s, b)  BY <2>1 DEF Timers, q
    <3>. QED  BY <1>8, <3>1, <3>2
  <2>2. CASE b = t /\ \E j \in 1..Len(q) : j < place /\ q[j] = a
    <3>1. a # t /\ a \in ToSet(q) /\ Diff(s, a) < n
      BY <1>2, <1>9, <1>10, <2>2 DEF q
    <3>2. Diff(s, a) \in 1..(SliceMax - 1)  BY <1>9, <3>1
    <3>. QED  BY <1>7, <1>8, <1>11, <2>2, <3>1, <3>2, CoreAssumption
  <2>3. CASE a = t /\ \E j \in 1..Len(q) : j >= place /\ q[j] = b
    <3>1. b # t /\ b \in ToSet(q) /\ Diff(s, b) >= n
      BY <1>2, <1>9, <1>10, <2>3 DEF q
    <3>2. Diff(s, b) \in 1..(SliceMax - 1)  BY <1>9, <3>1
    <3>. QED  BY <1>7, <1>8, <1>11, <2>3, <3>1, <3>2, CoreAssumption
  <2>. QED  BY <1>4, <1>13, <2>1, <2>2, <2>3
<1>14. Timers(u)  BY <1>6, <1>12, <1>13 DEF Timers
<1>15. Thin(u, u)  BY <1>3, <1>6 DEF Thin, Calm
<1>. QED  BY <1>1, <1>6, <1>14, <1>15

\* A thread that blocks starts its timer, or none.
LEMMA BlockTimers ==
  ASSUME NEW s \in Kernel, Timers(s), s.cur \notin ToSet(s.delay),
         NEW n \in Word, n # 0, NEW forever, NEW timed
  PROVE  LET u == Block(s, n, forever, timed)
         IN  Timers(u) /\ Thin(u, u) /\ u.now = s.now
<1> DEFINE c == s.cur
           a == [s EXCEPT !.retval = [s.retval EXCEPT ![c] = "ok"]]
           off == Run_Del(a, c)
           d == Dly_Ins(off, c, n)
           stop(z, v) == [z EXCEPT !.state = [z.state EXCEPT ![c] = v]]
           u == Block(s, n, forever, timed)
<1>1. u = IF n < SliceMax THEN stop(d, timed) ELSE stop(off, forever)
  BY DEF Block
<1>2. Still(a, s)
  <2>1. Mem(s)  BY KernelMem
  <2>. QED  BY <2>1 DEF Still, Calm, Mem, Boot
<1> HIDE DEF a
<1>3. Still(off, a)  BY <1>2, QueueStill DEF Still
<1> HIDE DEF off
<1>4. Still(off, s)  BY <1>2, <1>3 DEF Still, Calm
<1>5. Thin(off, s)  BY <1>4, ThinRefl, StillThin
<1>6. Timers(off) /\ off.now = s.now  BY <1>5, ThinTimers DEF Thin
<1>7. Thin(off, off)  BY <1>5 DEF Thin, Calm
<1>8. ASSUME NEW z, Timers(z), Thin(z, z), NEW v
      PROVE  Timers(stop(z, v)) /\ Thin(stop(z, v), stop(z, v))
             /\ stop(z, v).now = z.now
  <2>1. Thin(stop(z, v), z)  BY <1>8, FieldThin
  <2> HIDE DEF stop
  <2>. QED  BY <1>8, <2>1, ThinTimers DEF Thin, Calm
<1>9. CASE n < SliceMax
  <2>1. /\ off.delay \in Seq(Thd) /\ off.timeout \in [Thd -> Word]
        /\ off.now \in Word /\ Mem(off) /\ c \in Thd
        /\ c \notin ToSet(off.delay)
    BY <1>4 DEF Still, Kernel
  <2>2. Timers(d) /\ Thin(d, d) /\ d.now = off.now
    BY <1>6, <1>9, <2>1, DlyInsTimers
  <2>3. u = stop(d, timed)  BY <1>1, <1>9
  <2> HIDE DEF d, u, stop, c
  <2>4. Timers(u) /\ Thin(u, u) /\ u.now = d.now  BY <1>8, <2>2, <2>3
  <2>. QED  BY <1>6, <2>2, <2>4 DEF u
<1>10. CASE ~(n < SliceMax)
  <2>3. u = stop(off, forever)  BY <1>1, <1>10
  <2> HIDE DEF u, stop, c
  <2>4. Timers(u) /\ Thin(u, u) /\ u.now = off.now  BY <1>6, <1>7, <1>8, <2>3
  <2>. QED  BY <1>6, <2>4 DEF u
<1>. QED  BY <1>9, <1>10

----------------------------------------------------------------------------
(* The timer interrupt.                                                    *)

\* The front of a sorted list: the threads that _RMP_Tim_Proc wakes are
\* those whose time has come.
LEMMA ExpiredExact ==
  ASSUME NEW s \in Kernel, NEW u \in Kernel, Timers(s), NEW n \in Word,
         2 * n <= W, u.delay = s.delay, u.timeout = s.timeout,
         u.now = (s.now + n) % W, NEW t \in Thd, t \in ToSet(s.delay)
  PROVE  t \in ToSet(Expired(u)) <=> n >= Diff(s, t)
<1> DEFINE q == s.delay
           ts == Expired(u)
           d(i) == Diff(s, q[i])
<1>1. q \in Seq(Thd) /\ Len(q) \in Nat  BY DEF Kernel
<1>2. PICK m \in 0..Len(q) :
         /\ ts = SubSeq(q, 1, m)
         /\ \A i \in 1..m : Overflown(u, q[i])
         /\ m # Len(q) => ~Overflown(u, q[m + 1])
  BY <1>1, ExpiredPrefix
<1>3. /\ ts \in Seq(Thd) /\ Len(ts) = m
      /\ \A i \in 1..m : ts[i] = q[i]
  BY <1>1, <1>2
<1>4. \A i \in 1..Len(q) : q[i] \in Thd /\ q[i] \in ToSet(q)
  <2>1. \A i \in 1..Len(q) : q[i] \in Thd  BY <1>1
  <2>2. \A i \in 1..Len(q) : q[i] \in ToSet(q)  BY <1>1, ToSetLemma
  <2> HIDE DEF q
  <2>. QED  BY <2>1, <2>2
<1>5. \A i \in 1..Len(q) : d(i) \in 1..(SliceMax - 1)
  BY <1>4 DEF Timers
<1>6. \A i \in 1..Len(q) : Overflown(u, q[i]) <=> n >= d(i)
  BY <1>4, <1>5, LaterDiff
<1>7. \A i, j \in 1..Len(q) : i < j => d(i) <= d(j)
  <2>1. \A i, j \in 1..Len(q) : i < j => Before(q, q[i], q[j])
    BY DEF Before
  <2>. QED  BY <1>4, <2>1 DEF Timers
<1>8. \A x : x \in ToSet(ts) <=> \E i \in 1..m : q[i] = x
  <2> HIDE DEF q, ts
  <2>. QED  BY <1>3, ToSetLemma
<1>9. PICK i \in 1..Len(q) : q[i] = t  BY <1>1, ToSetLemma
<1>10. n \in Int /\ \A l \in 1..Len(q) : d(l) \in Int
  BY <1>5, CoreAssumption DEF Word
<1>11. d(i) = Diff(s, t)  BY <1>9
<1> HIDE DEF q, ts, d
<1>12. ASSUME t \in ToSet(ts)  PROVE n >= Diff(s, t)
  <2>1. PICK l \in 1..m : q[l] = t  BY <1>8, <1>12
  <2>2. l \in 1..Len(q)  BY <1>1, <2>1
  <2>3. n >= d(l)  BY <1>2, <1>6, <2>1, <2>2
  <2>4. d(l) = Diff(s, t)  BY <2>1 DEF d
  <2>. QED  BY <2>3, <2>4
<1>13. ASSUME t \notin ToSet(ts)  PROVE ~(n >= Diff(s, t))
  <2>1. i \notin 1..m  BY <1>8, <1>9, <1>13
  <2>2. m + 1 \in 1..Len(q) /\ m # Len(q) /\ m + 1 <= i  BY <1>1, <1>9, <2>1
  <2>3. ~(n >= d(m + 1))  BY <1>2, <1>6, <2>2
  <2>4. d(m + 1) <= d(i)
    <3>1. CASE m + 1 = i  BY <1>9, <1>10, <3>1
    <3>2. CASE m + 1 < i  BY <1>7, <1>9, <2>2, <3>2
    <3>. QED  BY <1>9, <2>2, <3>1, <3>2
  <2>. QED  BY <1>9, <1>10, <1>11, <2>2, <2>3, <2>4
<1>. QED  BY <1>12, <1>13 DEF ts

\* A timer interrupt takes the timers off the list whose time has come, and
\* the others are n slices nearer.
LEMMA TickTimers ==
  ASSUME TimerInv, TicksFit, NEW n \in Ticks, Tick(n)
  PROVE  /\ Timers(k') /\ k'.now = (k.now + n) % W
         /\ \A t \in Thd : t \in ToSet(k.delay) =>
               (t \notin ToSet(k'.delay) <=> n >= Diff(k, t))
<1> DEFINE e == Elapsed(k, n)
           ts == Expired(e)
           w == WakeAll(e, ts)
           V == {t \in ToSet(ts) : e.state[t] # "DELAYED"}
           u == SetRetval(w, V, "err")
<1>1. KInv(k) /\ k \in Kernel /\ Timers(k)
  BY SafeInner DEF TimerInv, IInv
<1>2. n \in Word /\ 2 * n <= W  BY WordLemma DEF TicksFit
<1>3. /\ Tim_Handler(k, n) = Tim_Proc(e) /\ KInv(e)
      /\ e.now = (k.now + n) % W /\ e.delay = k.delay
      /\ e.timeout = k.timeout /\ e.state = k.state
  BY <1>1, <1>2, ElapsedFields DEF SameLists
<1> HIDE DEF e
<1>4. e \in Kernel  BY <1>3 DEF KInv, Good
<1>5. ts \in Seq(Thd) /\ KInv(w) /\ Woken(w, e, ToSet(ts))
  BY <1>3, WakeExpired
<1>6. \A t \in Thd : t \in ToSet(k.delay) =>
         (t \in ToSet(ts) <=> n >= Diff(k, t))
  BY <1>1, <1>2, <1>3, <1>4, ExpiredExact
<1> HIDE DEF ts
<1>7. Thin(w, e)  BY <1>4, <1>5, ThinRefl, WakeAllThin
<1> HIDE DEF w, V
<1>8. k' = Leave(u)  BY <1>3 DEF Tick, Tim_Proc, w, V, ts
<1>9. Still(k', w)
  <2>1. Still(u, w)  BY <1>7, QueueStill DEF Thin
  <2> HIDE DEF u
  <2>2. Still(Leave(u), u)  BY <2>1, QueueStill DEF Still
  <2>. QED  BY <1>8, <2>1, <2>2 DEF Still, Calm
<1> HIDE DEF u
<1>10. \A t \in Thd : t \in ToSet(k.delay) =>
          (t \in ToSet(w.delay) <=> t \notin ToSet(ts))
  <2>1. /\ ToSet(w.delay) = InState(w, Timed)
        /\ ToSet(e.delay) = InState(e, Timed)
    BY <1>3, <1>5 DEF KInv, Good
  <2>2. \A t \in Thd : w.state[t] = IF t \in ToSet(ts) THEN "RUNNING"
                                                      ELSE e.state[t]
    BY <1>5 DEF Woken
  <2>. QED  BY <1>3, <2>1, <2>2, StateFacts DEF InState
<1>11. \A t \in Thd : t \in ToSet(k.delay) =>
          (t \notin ToSet(w.delay) <=> n >= Diff(k, t))
  BY <1>6, <1>10
<1>12. \A t \in Thd : t \in ToSet(w.delay) =>
          /\ Diff(w, t) = Diff(k, t) - n
          /\ Diff(k, t) \in 1..(SliceMax - 1)
          /\ ~(n >= Diff(k, t))
  <2> SUFFICES ASSUME NEW t \in Thd, t \in ToSet(w.delay)
               PROVE  /\ Diff(w, t) = Diff(k, t) - n
                      /\ Diff(k, t) \in 1..(SliceMax - 1)
                      /\ ~(n >= Diff(k, t))
    OBVIOUS
  <2>1. t \in ToSet(k.delay)  BY <1>3, <1>7 DEF Thin
  <2>2. Diff(k, t) \in 1..(SliceMax - 1) /\ ~(n >= Diff(k, t))
    BY <1>1, <1>11, <2>1 DEF Timers
  <2>3. Diff(e, t) = Diff(k, t) - n
    BY <1>1, <1>2, <1>3, <1>4, <2>2, LaterDiff
  <2>4. Diff(w, t) = Diff(e, t)  BY <1>7 DEF Thin, Diff
  <2>. QED  BY <2>2, <2>3, <2>4
<1>13. n \in Nat  BY <1>2, CoreAssumption DEF Word
<1>14. Timers(w)
  <2>1. \A t \in Thd : t \in ToSet(w.delay) => Diff(w, t) \in 1..(SliceMax - 1)
    BY <1>12, <1>13, CoreAssumption
  <2>2. ASSUME NEW a \in Thd, NEW b \in Thd, Before(w.delay, a, b)
        PROVE  Diff(w, a) <= Diff(w, b)
    <3>1. Diff(k, a) <= Diff(k, b)
      BY <1>1, <1>3, <1>7, <2>2 DEF Thin, Timers
    <3>2. a \in ToSet(w.delay) /\ b \in ToSet(w.delay)
      <4>1. w.delay \in Seq(Thd)  BY <1>7 DEF Thin
      <4>. QED  BY <2>2, <4>1, ToSetLemma DEF Before
    <3>. QED  BY <1>12, <1>13, <3>1, <3>2, CoreAssumption
  <2>. QED  BY <2>1, <2>2 DEF Timers
<1>15. Timers(k')
  <2>1. Thin(w, w)  BY <1>7 DEF Thin, Calm
  <2>2. Thin(k', w)  BY <1>9, <2>1, StillThin
  <2>. QED  BY <1>14, <2>2, ThinTimers
<1>16. k'.now = (k.now + n) % W  BY <1>3, <1>7, <1>9 DEF Thin, Still
<1>. QED  BY <1>9, <1>11, <1>15, <1>16 DEF Still

----------------------------------------------------------------------------
(* The other steps: the clock stands still.                                *)

OnTime == Timers(k') /\ k'.now = k.now

\* Steps that start no timer.
LEMMA ThinOnTime ==
  ASSUME TimerInv, Thin(k', k)
  PROVE  OnTime
BY ThinTimers DEF TimerInv, OnTime, Thin

\* Steps that block the current thread; s is the memory when they do.
LEMMA BlockOnTime ==
  ASSUME TimerInv, User, NEW s \in Kernel, Still(s, k), s.cur = k.cur,
         NEW n \in Word, n # 0, NEW forever, NEW timed, NEW u,
         \A z : Thin(Block(s, n, forever, timed), z) => Thin(u, z),
         k' = Leave(u)
  PROVE  OnTime
<1> DEFINE b == Block(s, n, forever, timed)
<1>1. k \in Kernel /\ KInv(k) /\ Safe(k) /\ Timers(k)
  BY SafeInner DEF TimerInv, IInv
<1>2. k.state[k.cur] = "RUNNING"  BY <1>1, UserRuns DEF User
<1>3. k.cur \notin ToSet(k.delay)
  BY <1>1, <1>2, StateFacts DEF KInv, Good, InState
<1>4. Timers(s)
  <2>1. Thin(s, k)  BY <1>1, ThinRefl, StillThin
  <2>. QED  BY <1>1, <2>1, ThinTimers
<1>5. Timers(b) /\ Thin(b, b) /\ b.now = s.now
  BY <1>3, <1>4, BlockTimers DEF Still
<1>6. Thin(u, b)  BY <1>5
<1> HIDE DEF b
<1>7. Thin(k', b)  BY <1>6, QueueThin
<1>8. Timers(k')  BY <1>5, <1>7, ThinTimers
<1>9. k'.now = k.now  BY <1>5, <1>7 DEF Thin, Still
<1>. QED  BY <1>8, <1>9 DEF OnTime

\* RMP_Sched_Lock, RMP_Sched_Unlock and RMP_Yield.
LEMMA SchedThin ==
  ASSUME IInv, Sched_Lock \/ Sched_Unlock \/ Yield
  PROVE  Thin(k', k)
<1>1. Thin(k, k) /\ Mem(k)  BY SafeInner, ThinRefl, KernelMem DEF IInv
<1>2. CASE Sched_Lock
  <2>1. k' = [k EXCEPT !.lock = k.lock + 1]  BY <1>2 DEF Sched_Lock
  <2>. QED  BY <1>1, <2>1, FieldThin
<1>3. CASE Sched_Unlock
  <2> DEFINE u == [k EXCEPT !.lock = k.lock - 1]
  <2>1. k' = Leave(u)  BY <1>3 DEF Sched_Unlock
  <2>2. Thin(u, k)  BY <1>1, FieldThin
  <2> HIDE DEF u
  <2>. QED  BY <2>1, <2>2, QueueThin
<1>4. CASE Yield
  <2>1. k' = [k EXCEPT !.soft = 1] \/ k' = [k EXCEPT !.pend = 1]
    BY <1>4 DEF Yield
  <2>2. Still(k', k)  BY <1>1, <2>1 DEF Still, Calm, Mem, Boot
  <2>. QED  BY <1>1, <2>2, StillThin
<1>. QED  BY <1>2, <1>3, <1>4

\* The scheduler.
LEMMA CoreTimers ==
  ASSUME TimerInv, CoreNext
  PROVE  OnTime \/ \E n \in Ticks : Tick(n)
<1>1. IInv /\ k \in Kernel /\ Mem(k)
  BY SafeInner, KernelMem DEF TimerInv, IInv
<1>2. CASE Sched_Lock \/ Sched_Unlock \/ Yield
  BY <1>1, <1>2, SchedThin, ThinOnTime
<1>3. CASE Switch
  <2>1. k' = Run_High(k)  BY <1>3 DEF Switch
  <2>2. k'.delay = k.delay /\ k'.timeout = k.timeout /\ k'.now = k.now
    BY <1>1, <2>1 DEF Run_High, Mem, Boot
  <2>. QED  BY <2>2 DEF TimerInv, OnTime, Timers, Diff
<1>4. CASE Halt
  <2>1. Thin(k', k)  BY <1>1, <1>4, ThinRefl DEF Halt, vars
  <2>. QED  BY <2>1, ThinOnTime
<1>. QED  BY <1>2, <1>3, <1>4 DEF CoreNext

\* Waking one thread and telling it that its call failed.
LEMMA AbortThin ==
  ASSUME NEW s, Thin(s, s), NEW t
  PROVE  Thin(Leave(SetRetval(Wake(s, t), {t}, "err")), s)
<1>1. Thin(Wake(s, t), s)  BY WakeThin
<1>2. Thin(SetRetval(Wake(s, t), {t}, "err"), s)  BY <1>1, QueueThin
<1>. QED  BY <1>2, QueueThin

\* Deleting a thread.
LEMMA DelThin ==
  ASSUME IInv, NEW t \in Thd, Thd_Del(t)
  PROVE  Thin(k', k)
<1> DEFINE w == WakeAll(k, k.snd[t])
           s == SetRetval(w, ToSet(k.snd[t]), "err")
           off == IF s.state[t] = "RUNNING" THEN Run_Del(s, t)
                                            ELSE Unlink(s, t)
           gone == [off EXCEPT !.retval[t] = "err", !.state[t] = "FREE",
                               !.susp = @ \ {t}, !.full = @ \ {t}]
<1>1. Thin(k, k) /\ k \in Kernel
  BY SafeInner, ThinRefl DEF IInv
<1>2. k.snd[t] \in Seq(Thd)  BY <1>1 DEF Kernel
<1>3. k' = [gone EXCEPT !.panic = 1] \/ k' = Leave(gone)
  BY DEF Thd_Del
<1>4. Thin(w, k)  BY <1>1, <1>2, WakeAllThin
<1> HIDE DEF w
<1>5. Thin(s, k)  BY <1>4, QueueThin
<1> HIDE DEF s
<1>6. Thin(off, k)  BY <1>5, QueueThin, UnlinkThin
<1> HIDE DEF off
<1>7. Still(gone, off)  BY <1>6 DEF Thin, Still, Calm, Mem, Boot
<1> HIDE DEF gone
<1>8. Thin(gone, k)  BY <1>6, <1>7, StillThin
<1>9. Thin([gone EXCEPT !.panic = 1], k)
  <2>1. Still([gone EXCEPT !.panic = 1], gone)
    BY <1>8 DEF Thin, Still, Calm, Mem, Boot
  <2>. QED  BY <1>8, <2>1, StillThin
<1>10. Thin(Leave(gone), k)  BY <1>8, QueueThin
<1>. QED  BY <1>3, <1>9, <1>10

\* The calls on threads that start no timer.
LEMMA ThreadThin ==
  ASSUME IInv, NEW t \in Thd, NEW p, NEW n,
         \/ Thd_Crt(t, p, n) \/ Thd_Set(t, p, n) \/ Thd_Del(t)
         \/ Thd_Suspend(t) \/ Thd_Resume(t) \/ Thd_Cancel(t)
  PROVE  Thin(k', k)
<1>1. Safe(k) /\ k \in Kernel /\ Thin(k, k) /\ Mem(k)
  BY SafeInner, ThinRefl, KernelMem DEF IInv
<1>2. CASE Thd_Crt(t, p, n)
  <2> DEFINE new == [k EXCEPT !.prio[t] = p, !.slice[t] = n, !.left[t] = n,
                              !.snd[t] = <<>>, !.state[t] = "RUNNING",
                              !.susp = @ \ {t}, !.full = @ \ {t}]
  <2>1. k' = Leave(Run_Ins(new, t))  BY <1>2 DEF Thd_Crt
  <2>2. t # k.cur  BY <1>1, <1>2, UserRuns DEF Thd_Crt
  <2>3. k.left \in [Thd -> Word] /\ k.cur \in Thd  BY <1>1 DEF Kernel
  <2>4. Still(new, k)  BY <1>1, <2>2, <2>3 DEF Still, Calm, Mem, Boot
  <2> HIDE DEF new
  <2>5. Thin(new, k)  BY <1>1, <2>4, StillThin
  <2>6. Thin(Run_Ins(new, t), k)  BY <2>5, QueueThin
  <2>. QED  BY <2>1, <2>6, QueueThin
<1>3. CASE Thd_Set(t, p, n)
  <2> DEFINE del == Run_Del(k, t)
             lower == [del EXCEPT !.prio = [del.prio EXCEPT ![t] = p]]
             moved == IF k.state[t] = "RUNNING" THEN Run_Ins(lower, t)
                      ELSE [k EXCEPT !.prio = [k.prio EXCEPT ![t] = p]]
             set == IF p < PrioNum /\ p # k.prio[t] THEN moved ELSE k
             x == IF n < SliceMax THEN n ELSE set.slice[t]
             u == [set EXCEPT !.slice = [set.slice EXCEPT ![t] = x]]
  <2>1. k' = Leave(u)  BY <1>3 DEF Thd_Set
  <2>2. Thin(del, k)  BY <1>1, QueueThin
  <2> HIDE DEF del
  <2>3. Thin(lower, k)  BY <2>2, FieldThin
  <2> HIDE DEF lower
  <2>4. Thin(moved, k)  BY <1>1, <2>3, FieldThin, QueueThin
  <2> HIDE DEF moved
  <2>5. Thin(set, k)  BY <1>1, <2>4
  <2> HIDE DEF set, x
  <2>6. Thin(u, k)  BY <2>5, FieldThin
  <2> HIDE DEF u
  <2>. QED  BY <2>1, <2>6, QueueThin
<1>4. CASE Thd_Suspend(t)
  <2> DEFINE off == IF k.state[t] = "RUNNING" THEN Run_Del(k, t) ELSE k
             u == [off EXCEPT !.susp = off.susp \cup {t}]
  <2>1. k' = Leave(u)  BY <1>4 DEF Thd_Suspend
  <2>2. Thin(off, k)  BY <1>1, QueueThin
  <2> HIDE DEF off
  <2>3. Thin(u, k)  BY <2>2, FieldThin
  <2> HIDE DEF u
  <2>. QED  BY <2>1, <2>3, QueueThin
<1>5. CASE Thd_Resume(t)
  <2> DEFINE on == [k EXCEPT !.susp = k.susp \ {t}]
             u == IF k.state[t] = "RUNNING" THEN Run_Ins(on, t) ELSE on
  <2>1. k' = Leave(u)  BY <1>5 DEF Thd_Resume
  <2>2. Thin(on, k)  BY <1>1, FieldThin
  <2> HIDE DEF on
  <2>3. Thin(u, k)  BY <2>2, QueueThin
  <2> HIDE DEF u
  <2>. QED  BY <2>1, <2>3, QueueThin
<1>6. CASE Thd_Cancel(t)
  <2>1. k' = Leave(SetRetval(Wake(k, t), {t}, "err"))
    BY <1>6 DEF Thd_Cancel
  <2>. QED  BY <1>1, <2>1, AbortThin
<1>. QED  BY <1>2, <1>3, <1>4, <1>5, <1>6, DelThin

\* The calls on threads.
LEMMA ThreadTimers ==
  ASSUME TimerInv, ThreadNext
  PROVE  OnTime
<1>1. IInv /\ k \in Kernel /\ Thin(k, k) /\ Mem(k)
  BY SafeInner, ThinRefl, KernelMem DEF TimerInv, IInv
<1>2. ASSUME NEW n \in Waits, Thd_Delay(n)  PROVE OnTime
  <2>1. /\ User /\ n # 0 /\ n \in Word
        /\ k' = Leave(Block(k, n, "DELAYED", "DELAYED"))
    BY <1>2, WordLemma DEF Thd_Delay, MayBlock
  <2>2. Still(k, k)  BY <1>1 DEF Still, Calm
  <2>. QED  BY <1>1, <2>1, <2>2, BlockOnTime
<1>3. ASSUME NEW t \in Thd, NEW p, NEW n,
             \/ Thd_Crt(t, p, n) \/ Thd_Set(t, p, n) \/ Thd_Del(t)
             \/ Thd_Suspend(t) \/ Thd_Resume(t) \/ Thd_Cancel(t)
      PROVE  OnTime
  <2>1. Thin(k', k)  BY <1>1, <1>3, ThreadThin
  <2>. QED  BY <2>1, ThinOnTime
<1>. QED  BY <1>2, <1>3 DEF ThreadNext

\* _RMP_Thd_Unblock wakes a sender, if there is one.
LEMMA UnblockThin ==
  ASSUME NEW s, Thin(s, s), NEW c
  PROVE  Thin(Leave(Thd_Unblock(s, c)), s)
<1> DEFINE t == Head(s.snd[c])
           w == Wake(s, t)
           a == [s EXCEPT !.full = @ \ {c}]
           b == [w EXCEPT !.mailbox[c] = s.mailbox[t]]
<1>1. Thd_Unblock(s, c) = a \/ Thd_Unblock(s, c) = b
  BY DEF Thd_Unblock
<1>2. Thin(w, s)  BY WakeThin
<1> HIDE DEF w
<1>3. Still(a, s) /\ Still(b, w)  BY <1>2 DEF Thin, Still, Calm, Mem, Boot
<1> HIDE DEF a, b
<1>4. Thin(a, s) /\ Thin(b, s)  BY <1>2, <1>3, StillThin
<1>5. Thin(Leave(a), s) /\ Thin(Leave(b), s)  BY <1>4, QueueThin
<1>. QED  BY <1>1, <1>5

\* The mailbox calls.
LEMMA MailTimers ==
  ASSUME TimerInv, MailNext
  PROVE  OnTime
<1>1. k \in Kernel /\ Thin(k, k) /\ Mem(k) /\ Still(k, k)
  BY SafeInner, ThinRefl, KernelMem DEF TimerInv, IInv, Still, Calm
<1>2. ASSUME NEW t \in Thd, NEW d, Thd_Snd(t, d) \/ Thd_Snd_ISR(t, d)
      PROVE  OnTime
  <2> DEFINE woken == IF k.state[t] \in {"RCVBLK", "RCVDLY"} THEN Wake(k, t)
                                                           ELSE k
             u == [woken EXCEPT !.mailbox[t] = d, !.full = @ \cup {t}]
  <2>1. k' = Leave(u) \/ k' = u
    BY <1>2 DEF Thd_Snd, Thd_Snd_ISR, Deliver
  <2>2. Thin(woken, k)  BY <1>1, WakeThin
  <2> HIDE DEF woken
  <2>3. Still(u, woken)  BY <2>2 DEF Thin, Still, Calm, Mem, Boot
  <2> HIDE DEF u
  <2>4. Thin(u, k)  BY <2>2, <2>3, StillThin
  <2>5. Thin(k', k)  BY <2>1, <2>4, QueueThin
  <2>. QED  BY <2>5, ThinOnTime
<1>3. ASSUME NEW t \in Thd, NEW d, NEW n \in Waits, Thd_Snd_Block(t, d, n)
      PROVE  OnTime
  <2> DEFINE b == Block(k, n, "SNDBLK", "SNDDLY")
             u == [b EXCEPT !.snd[t] = Append(@, k.cur), !.mailbox[k.cur] = d]
  <2>1. User /\ n # 0 /\ n \in Word /\ k' = Leave(u)
    BY <1>3, WordLemma DEF Thd_Snd_Block, MayBlock
  <2>2. ASSUME NEW z, Thin(b, z)  PROVE Thin(u, z)
    <3> HIDE DEF b
    <3>1. Still(u, b)  BY <2>2 DEF Thin, Still, Calm, Mem, Boot
    <3>. QED  BY <2>2, <3>1, StillThin
  <2> HIDE DEF u
  <2>. QED  BY <1>1, <2>1, <2>2, BlockOnTime
<1>4. ASSUME NEW c \in Thd, Thd_Rcv(c) \/ Thd_Rcv_Done(c)  PROVE OnTime
  <2>1. \/ k' = Leave(Thd_Unblock(k, c)) \/ k' = k
        \/ k' = [k EXCEPT !.panic = 1]
    BY <1>4 DEF Thd_Rcv, Thd_Rcv_Done
  <2>2. Still([k EXCEPT !.panic = 1], k)
    BY <1>1 DEF Still, Calm, Mem, Boot
  <2>3. Thin([k EXCEPT !.panic = 1], k)  BY <1>1, <2>2, StillThin
  <2>4. Thin(Leave(Thd_Unblock(k, c)), k)  BY <1>1, UnblockThin
  <2>5. Thin(k', k)  BY <1>1, <2>1, <2>3, <2>4
  <2>. QED  BY <2>5, ThinOnTime
<1>5. ASSUME NEW n \in Waits, Thd_Rcv_Block(n)  PROVE OnTime
  <2>1. CASE k' = [k EXCEPT !.panic = 1]
    <3>1. Still(k', k)  BY <1>1, <2>1 DEF Still, Calm, Mem, Boot
    <3>2. Thin(k', k)  BY <1>1, <3>1, StillThin
    <3>. QED  BY <3>2, ThinOnTime
  <2>2. CASE n # 0 /\ k' = Leave(Block(k, n, "RCVBLK", "RCVDLY"))
    <3>1. User /\ n \in Word  BY <1>5, WordLemma DEF Thd_Rcv_Block, MayBlock
    <3>. QED  BY <1>1, <2>2, <3>1, BlockOnTime
  <2>. QED  BY <1>5, <2>1, <2>2 DEF Thd_Rcv_Block
<1>. QED  BY <1>2, <1>3, <1>4, <1>5 DEF MailNext

\* Waking a list of threads and then writing other fields.
LEMMA ListThin ==
  ASSUME IInv, NEW ts \in Seq(Thd), NEW u, Still(u, WakeAll(k, ts)),
         k' = Leave(u)
  PROVE  Thin(k', k)
<1>1. Thin(k, k)  BY SafeInner, ThinRefl DEF IInv
<1>2. Thin(WakeAll(k, ts), k)  BY <1>1, WakeAllThin
<1>3. Thin(u, k)  BY <1>2, StillThin
<1>. QED  BY <1>3, QueueThin

\* Taking a semaphore, or waiting for one.
LEMMA PendOnTime ==
  ASSUME TimerInv, User, NEW s \in Kernel, Still(s, k), s.cur = k.cur,
         NEW x, NEW n \in Word, k' = Pend_Core(s, x, n)
  PROVE  OnTime
<1> DEFINE a == [s EXCEPT !.num[x] = @ - 1]
           b == Block(s, n, "SEMBLK", "SEMDLY")
           u == [b EXCEPT !.wait[x] = Append(@, s.cur)]
<1>1. \/ k' = Leave(a) \/ k' = Leave(s)
      \/ n # 0 /\ k' = Leave(u)
  BY DEF Pend_Core
<1>2. Thin(s, k)
  <2>1. k \in Kernel  BY SafeInner DEF TimerInv, IInv
  <2>. QED  BY <2>1, ThinRefl, StillThin
<1>3. Thin(a, k)
  <2>1. Still(a, s)  BY <1>2 DEF Thin, Still, Calm, Mem, Boot
  <2>. QED  BY <1>2, <2>1, StillThin
<1> HIDE DEF a
<1>4. CASE k' = Leave(a) \/ k' = Leave(s)
  <2>1. Thin(k', k)  BY <1>2, <1>3, <1>4, QueueThin
  <2>. QED  BY <2>1, ThinOnTime
<1>5. CASE n # 0 /\ k' = Leave(u)
  <2>1. ASSUME NEW z, Thin(b, z)  PROVE Thin(u, z)
    <3> HIDE DEF b
    <3>1. Still(u, b)  BY <2>1 DEF Thin, Still, Calm, Mem, Boot
    <3>. QED  BY <2>1, <3>1, StillThin
  <2> HIDE DEF u
  <2>. QED  BY <1>5, <2>1, BlockOnTime
<1>. QED  BY <1>1, <1>4, <1>5

\* The semaphore calls and interrupts that make nobody wait.
SemThins(x, n, t) ==
  \/ x \in Sem /\ (Sem_Crt(x, n) \/ Sem_Del(x) \/ Sem_Bcst(x) \/ Sem_Bcst_ISR(x))
  \/ x \in Sem /\ n \in Posts /\ (Sem_Post(x, n) \/ Sem_Post_ISR(x, n))
  \/ Sem_Abort(t)

\* They thin the delay list at most.
LEMMA SemThin ==
  ASSUME IInv, NEW x, NEW n, NEW t, SemThins(x, n, t)
  PROVE  Thin(k', k)
<1>1. k \in Kernel /\ KInv(k) /\ Thin(k, k) /\ Mem(k)
  BY SafeInner, ThinRefl, KernelMem DEF IInv
<1>2. x \in Sem => k.wait[x] \in Seq(Thd)  BY <1>1 DEF Kernel
<1>3. ASSUME NEW ts \in Seq(Thd)  PROVE Mem(WakeAll(k, ts))
  BY <1>1, WakeAllThin DEF Thin
<1>4. CASE Sem_Crt(x, n)
  <2> DEFINE u == [k EXCEPT !.num[x] = n, !.wait[x] = <<>>,
                            !.used = @ \cup {x}]
  <2>1. k' = Leave(u)  BY <1>4 DEF Sem_Crt
  <2>2. Still(u, k)  BY <1>1 DEF Still, Calm, Mem, Boot
  <2> HIDE DEF u
  <2>3. Thin(u, k)  BY <1>1, <2>2, StillThin
  <2>. QED  BY <2>1, <2>3, QueueThin
<1>5. CASE x \in Sem /\ Sem_Del(x)
  <2> DEFINE w == WakeAll(k, k.wait[x])
             s == SetRetval(w, ToSet(k.wait[x]), "err")
             u == [s EXCEPT !.used = @ \ {x}]
  <2>1. k' = Leave(u)  BY <1>5 DEF Sem_Del
  <2>2. Mem(w)  BY <1>2, <1>3, <1>5
  <2> HIDE DEF w
  <2>3. Still(s, w)  BY <2>2, QueueStill
  <2> HIDE DEF s
  <2>4. Still(u, w)  BY <2>3 DEF Still, Calm, Mem, Boot
  <2> HIDE DEF u
  <2>. QED  BY <1>2, <1>5, <2>1, <2>4, ListThin DEF w
<1>6. CASE /\ x \in Sem /\ n \in Posts
           /\ Sem_Post(x, n) \/ Sem_Post_ISR(x, n)
  <2>1. n \in Word /\ k' = Leave(Serve(k, x, n))
    BY <1>6, WordLemma DEF Sem_Post, Sem_Post_ISR
  <2> DEFINE sum == (k.num[x] + n) % W
  <2>2. PICK m \in 0..Len(k.wait[x]) :
           Serve(k, x, n) = [WakeAll(k, SubSeq(k.wait[x], 1, m))
                             EXCEPT !.num[x] = sum - m]
    BY <1>1, <1>6, <2>1, ServePrefix
  <2> DEFINE ts == SubSeq(k.wait[x], 1, m)
             w == WakeAll(k, ts)
             u == [w EXCEPT !.num[x] = sum - m]
  <2>3. k' = Leave(u)  BY <2>1, <2>2
  <2>4. ts \in Seq(Thd)  BY <1>2, <1>6
  <2>5. Mem(w)  BY <1>3, <2>4
  <2> HIDE DEF w, sum, ts
  <2>6. Still(u, w)  BY <2>5 DEF Still, Calm, Mem, Boot
  <2> HIDE DEF u
  <2>. QED  BY <2>3, <2>4, <2>6, ListThin DEF w
<1>7. CASE x \in Sem /\ (Sem_Bcst(x) \/ Sem_Bcst_ISR(x))
  <2> DEFINE w == WakeAll(k, k.wait[x])
  <2>1. k' = Leave(w)  BY <1>7 DEF Sem_Bcst, Sem_Bcst_ISR
  <2>2. Still(w, w)  BY <1>2, <1>3, <1>7 DEF Still, Calm
  <2>. QED  BY <1>2, <1>7, <2>1, <2>2, ListThin
<1>8. CASE Sem_Abort(t)
  <2>1. k' = Leave(SetRetval(Wake(k, t), {t}, "err"))
    BY <1>8 DEF Sem_Abort
  <2>. QED  BY <1>1, <2>1, AbortThin
<1>. QED  BY <1>4, <1>5, <1>6, <1>7, <1>8 DEF SemThins

\* The semaphore calls.
LEMMA SemTimers ==
  ASSUME TimerInv, SemNext
  PROVE  OnTime
<1>1. IInv /\ k \in Kernel /\ Mem(k) /\ Still(k, k) /\ Thin(k, k)
  BY SafeInner, ThinRefl, KernelMem DEF TimerInv, IInv, Still, Calm
<1>2. ASSUME NEW x, NEW n, NEW t, SemThins(x, n, t)  PROVE OnTime
  <2>1. Thin(k', k)  BY <1>1, <1>2, SemThin
  <2>. QED  BY <2>1, ThinOnTime
<1>3. ASSUME NEW x \in Sem, NEW n \in Waits, Sem_Pend(x, n)  PROVE OnTime
  <2>1. User /\ n \in Word /\ k' = Pend_Core(k, x, n)
    BY <1>3, WordLemma DEF Sem_Pend
  <2>. QED  BY <1>1, <2>1, PendOnTime
<1>4. ASSUME NEW x \in Sem, NEW n \in Waits, Sem_Pend_Unlock(x, n)
      PROVE  OnTime
  <2> DEFINE s == [k EXCEPT !.lock = k.lock - 1]
  <2>1. /\ User /\ n \in Word /\ k.lock > 0
        /\ k' = Pend_Core(s, x, n) \/ k' = Leave(s)
    BY <1>4, WordLemma DEF Sem_Pend_Unlock
  <2>2. k.lock - 1 \in 0..LockMax
    BY <1>1, <2>1, CoreAssumption DEF Kernel
  <2>3. s \in Kernel /\ s.cur = k.cur  BY <1>1, <2>2 DEF Kernel
  <2>4. Still(s, k)  BY <1>1 DEF Still, Calm, Mem, Boot
  <2> HIDE DEF s
  <2>5. CASE k' = Pend_Core(s, x, n)
    BY <2>1, <2>3, <2>4, <2>5, PendOnTime
  <2>6. CASE k' = Leave(s)
    <3>1. Thin(s, k)  BY <1>1, <2>4, StillThin
    <3>2. Thin(k', k)  BY <2>6, <3>1, QueueThin
    <3>. QED  BY <3>2, ThinOnTime
  <2>. QED  BY <2>1, <2>5, <2>6
<1>. QED  BY <1>2, <1>3, <1>4 DEF SemNext, SemThins

----------------------------------------------------------------------------
(* The theorems.                                                           *)

\* When the kernel starts no timer runs.
LEMMA InitTimers == Init => Timers(k)
<1>1. Boot.delay = <<>>  BY DEF Boot
<1>2. ToSet(<<>>) = {} /\ \A a, b : ~Before(<<>>, a, b)
  BY DEF ToSet, Before
<1>. QED  BY <1>1, <1>2 DEF Init, Timers

\* A step of the kernel is a tick, or the clock stands still.
LEMMA StepTimers ==
  ASSUME TimerInv, [Next]_vars
  PROVE  OnTime \/ \E n \in Ticks : Tick(n)
<1>1. CASE UNCHANGED vars
  BY <1>1 DEF TimerInv, OnTime, vars
<1>. QED  BY <1>1, CoreTimers, ThreadTimers, MailTimers, SemTimers DEF Next

\* Every reachable state satisfies the inductive invariant, if the interrupts
\* are not too far apart.
THEOREM TimerInvariance == TicksFit => (Spec => []TimerInv)
<1> SUFFICES ASSUME TicksFit  PROVE Spec => []TimerInv
  OBVIOUS
<1>1. Init => TimerInv  BY InitSafe, InitTimers DEF TimerInv
<1>2. TimerInv /\ [Next]_vars => TimerInv'
  <2>1. TimerInv /\ [Next]_vars => IInv'
    <3>1. IInv /\ UNCHANGED vars => IInv'  BY DEF IInv, vars
    <3>. QED  BY <3>1, CoreSafe, ThreadSafe, MailSafe, SemSafe
              DEF Next, TimerInv
  <2>2. TimerInv /\ [Next]_vars => Timers(k')
    BY StepTimers, TickTimers DEF OnTime
  <2>. QED  BY <2>1, <2>2 DEF TimerInv
<1>. QED  BY <1>1, <1>2, PTL DEF Spec

\* Between interrupts every timer of the list is still to come, none is so
\* far ahead that its difference could be taken for one that has passed, and
\* the list is in the order of the times.
THEOREM TimersCorrect == TicksFit => (Spec => []TimersAlive)
<1> SUFFICES ASSUME TicksFit  PROVE Spec => []TimersAlive
  OBVIOUS
<1>1. TimerInv => TimersAlive
  <2> SUFFICES ASSUME TimerInv  PROVE TimersAlive
    OBVIOUS
  <2> DEFINE q == k.delay
  <2>1. q \in Seq(Thd) /\ Timers(k)
    BY SafeInner DEF TimerInv, IInv, Kernel
  <2>2. \A t \in ToSet(q) : t \in Thd  BY <2>1, ToSetLemma
  <2>3. \A m, n \in DOMAIN q : m < n =>
           q[m] \in Thd /\ q[n] \in Thd /\ Before(q, q[m], q[n])
    BY <2>1 DEF Before
  <2>. QED  BY <2>1, <2>2, <2>3 DEF Timers, TimersAlive
<1>. QED  BY <1>1, TimerInvariance, PTL

\* The timer interrupt ends a wait exactly if its time has come: not a slice
\* early, not a slice late, also when the timestamp wraps in between.
THEOREM TimeoutCorrect == TicksFit => (Spec => TimeoutExact)
<1> SUFFICES ASSUME TicksFit  PROVE Spec => TimeoutExact
  OBVIOUS
<1> DEFINE Exact == k'.now # k.now =>
              \A t \in ToSet(k.delay) :
                 t \notin ToSet(k'.delay) <=>
                    (k'.now - k.now) % W >= Diff(k, t)
<1>1. TimerInv /\ [Next]_vars => Exact
  <2> SUFFICES ASSUME TimerInv, [Next]_vars, k'.now # k.now,
                      NEW t \in ToSet(k.delay)
               PROVE  t \notin ToSet(k'.delay) <=>
                         (k'.now - k.now) % W >= Diff(k, t)
    OBVIOUS
  <2>1. PICK n \in Ticks : Tick(n)  BY StepTimers DEF OnTime
  <2>2. k \in Kernel  BY SafeInner DEF TimerInv, IInv
  <2>3. t \in Thd
    <3>1. k.delay \in Seq(Thd)  BY <2>2 DEF Kernel
    <3>. QED  BY <3>1, ToSetLemma
  <2>4. /\ k'.now = (k.now + n) % W
        /\ t \notin ToSet(k'.delay) <=> n >= Diff(k, t)
    BY <2>1, <2>3, TickTimers
  <2>5. (k'.now - k.now) % W = n
    <3>1. k.now \in Word /\ n \in Word  BY <2>2, WordLemma DEF Kernel
    <3>. QED  BY <2>4, <3>1, StartDiff
  <2>. QED  BY <2>4, <2>5
<1>. QED  BY <1>1, TimerInvariance, PTL DEF Spec, TimeoutExact

----------------------------------------------------------------------------
(* The tickless kernel: the parts of its inductive invariant.              *)

\* A thread that exists has a slice, and some of it left.
Sliced(s) ==
    \A t \in Thd : s.state[t] # "FREE" => s.slice[t] # 0 /\ s.left[t] # 0

\* The timer counts up to the value it was programmed with.
Clock == tim \in Timer /\ tim.at <= tim.last

\* What was true when the initial thread decided to stop the clocks is true
\* until it is awake again.
Asleep ==
    sleep \in {"to LPM4", "LPM4"} =>
       k.cur = Idle /\ Settled /\ k.run[0] = <<Idle>> /\ k.delay = <<>>

\* The time since t began to wait for n slices, as the timestamp shows it.
Waited(s, t, n) ==
    LET d == Diff(s, t)
    IN  IF n >= d THEN n - d ELSE n - d + W

\* With the g slices the timer has counted since the timestamp was brought up
\* to date, that is no more than the time that has passed according to r.
Real(s, r, g) ==
    /\ r \in [Thd -> [age : 0..SliceMax, asked : Word]]
    /\ \A t \in Thd : t \in ToSet(s.delay) =>
          /\ r[t].asked \in 1..(SliceMax - 1)
          /\ r[t].age = SliceMax \/ Waited(s, t, r[t].asked) + g <= r[t].age

Aged == Real(k, span, Tim_Get)

\* The invariant that needs nothing of the environment.
RealInv == IInv /\ Sliced(k) /\ Clock /\ Asleep /\ Aged

\* The timers lie within the range in which their order can be told, and an
\* earlier place on the list is an earlier time.
Far == (1 - SliceMax)..(LagMax + SliceMax - 1)
Lags(s) ==
    /\ \A t \in Thd : t \in ToSet(s.delay) => Lag(s, t) \in Far
    /\ \A a, b \in Thd : Before(s.delay, a, b) => Lag(s, a) >= Lag(s, b)

\* The timer is never programmed further ahead than a call can ask for.
Brief == k.delay # <<>> => 1 < SliceMax /\ tim.last < SliceMax

\* When timer t wants the handler to run.
Until(s, t) == IF Overflown(s, t) THEN 1 ELSE Diff(s, t)

\* Unless a switch is on its way, the timer comes in time.
Covers ==
    Settled =>
      /\ k.delay # <<>> => tim.on /\ tim.last <= Until(k, Head(k.delay))
      /\ k.cur # Idle => tim.on /\ tim.last <= k.left[k.cur]

\* The invariant of a timer that is served in time.
TicklessInv == RealInv /\ Lags(k) /\ Brief /\ Covers

----------------------------------------------------------------------------
(* Timestamps that may have been carried past a timer.                     *)

\* A lag in terms of the time until the timeout.
LEMMA LagOf ==
  ASSUME NEW s \in Kernel, NEW t \in Thd
  PROVE  LET d == Diff(s, t)
         IN  /\ d \in Word
             /\ Lag(s, t) = IF d = 0 THEN 0
                            ELSE IF d > (W - 1) \div 2 THEN W - d ELSE -d
             /\ Overflown(s, t) <=> Lag(s, t) >= 0
<1> DEFINE d == Diff(s, t)
           a == s.timeout[t]
           b == s.now
<1>1. a \in Word /\ b \in Word  BY DEF Kernel
<1>2. d \in Word /\ d = IF a - b >= 0 THEN a - b ELSE a - b + W
  BY DiffWord
<1>3. (b - a) % W = IF d = 0 THEN 0 ELSE W - d
  <2>1. b - a \in (1 - W)..(W - 1)  BY <1>1, CoreAssumption DEF Word
  <2> DEFINE c == b - a
  <2>2. c \in (1 - W)..(W - 1)  BY <2>1
  <2> HIDE DEF c
  <2>3. c % W = IF c >= 0 THEN c ELSE c + W  BY <2>2, ModNear
  <2> HIDE DEF d, a, b
  <2>. QED  BY <1>1, <1>2, <2>3, CoreAssumption DEF Word, c
<1>4. Lag(s, t) = IF Overflown(s, t) THEN (b - a) % W ELSE -d
  BY DEF Lag
<1>5. Overflown(s, t) <=> d = 0 \/ d > (W - 1) \div 2  BY DEF Overflown
<1> DEFINE l == Lag(s, t)
           o == Overflown(s, t)
           e == (b - a) % W
<1>6. /\ l = IF o THEN e ELSE -d
      /\ o <=> d = 0 \/ d > (W - 1) \div 2
      /\ e = IF d = 0 THEN 0 ELSE W - d
  BY <1>3, <1>4, <1>5
<1> HIDE DEF d, l, o, e
<1>7. /\ l = IF d = 0 THEN 0 ELSE IF d > (W - 1) \div 2 THEN W - d ELSE -d
      /\ o <=> l >= 0
  BY <1>2, <1>6, CoreAssumption DEF Word
<1>. QED  BY <1>2, <1>7 DEF d, l, o

\* The time until a timeout after the timestamp has moved on by n.
LEMMA DiffBump ==
  ASSUME NEW s \in Kernel, NEW u \in Kernel, NEW t \in Thd, NEW n \in Word,
         u.timeout[t] = s.timeout[t], u.now = (s.now + n) % W
  PROVE  LET d == Diff(s, t)
         IN  Diff(u, t) = IF d >= n THEN d - n ELSE d - n + W
<1> DEFINE d == Diff(s, t)
           e == Diff(u, t)
           a == s.timeout[t]
<1>1. /\ a \in Word /\ s.now \in Word
      /\ d = IF a - s.now >= 0 THEN a - s.now ELSE a - s.now + W
  BY DiffWord DEF Kernel
<1>2. u.now = IF s.now + n < W THEN s.now + n ELSE s.now + n - W
  <2> DEFINE b == s.now + n
  <2>1. b \in 0..(2 * W - 2)  BY <1>1, CoreAssumption DEF Word
  <2>2. u.now = b % W  OBVIOUS
  <2> HIDE DEF b
  <2>3. u.now = IF b < W THEN b ELSE b - W  BY <2>1, <2>2, ModNear
  <2>. QED  BY <1>1, <2>3, CoreAssumption DEF b, Word
<1>3. e = IF a - u.now >= 0 THEN a - u.now ELSE a - u.now + W
  BY DiffWord
<1> HIDE DEF d, e, a
<1>4. e = IF d >= n THEN d - n ELSE d - n + W
  BY <1>1, <1>2, <1>3, CoreAssumption DEF Word
<1>. QED  BY <1>4 DEF d, e

\* A lag grows with the timestamp, unless it grows out of range.
LEMMA LagBump ==
  ASSUME NEW s \in Kernel, NEW u \in Kernel, NEW t \in Thd, NEW n \in Word,
         u.timeout[t] = s.timeout[t], u.now = (s.now + n) % W,
         Lag(s, t) \in Far, Lag(s, t) + n \in Far
  PROVE  Lag(u, t) = Lag(s, t) + n
<1> DEFINE d == Diff(s, t)
           e == Diff(u, t)
           l == Lag(s, t)
           m == Lag(u, t)
<1>1. /\ d \in Word
      /\ l = IF d = 0 THEN 0 ELSE IF d > (W - 1) \div 2 THEN W - d ELSE -d
  BY LagOf
<1>2. /\ e \in Word
      /\ m = IF e = 0 THEN 0 ELSE IF e > (W - 1) \div 2 THEN W - e ELSE -e
  BY LagOf
<1>3. e = IF d >= n THEN d - n ELSE d - n + W  BY DiffBump
<1>4. l \in Far /\ l + n \in Far  OBVIOUS
<1> HIDE DEF d, e, l, m
<1>5. m = l + n
  BY <1>1, <1>2, <1>3, <1>4, CoreAssumption, TicklessAssumption DEF Word, Far
<1>. QED  BY <1>5 DEF l, m

\* Taking timers off the list keeps its order.
LEMMA ThinLags ==
  ASSUME NEW s, NEW u, Lags(s), Thin(u, s)
  PROVE  Lags(u)
<1>1. \A t : Diff(u, t) = Diff(s, t)  BY DEF Thin, Diff
<1>2. \A t : Overflown(u, t) <=> Overflown(s, t)  BY <1>1 DEF Overflown
<1>3. \A t : Lag(u, t) = Lag(s, t)  BY <1>1, <1>2 DEF Thin, Lag
<1>. QED  BY <1>3 DEF Thin, Lags

\* _RMP_Dly_Ins looks for the first timer that is due n slices from now or
\* later; timers that are overdue are before it.
LEMMA LagPlace ==
  ASSUME NEW s \in Kernel, Lags(s), NEW n \in Word, n # 0
  PROVE  LET q == s.delay
             later == {i \in DOMAIN q : ~Overflown(s, q[i]) /\ Diff(s, q[i]) >= n}
             place == IF later = {} THEN Len(q) + 1 ELSE Min(later)
         IN  /\ place \in 1..(Len(q) + 1)
             /\ \A i \in 1..Len(q) : i < place => Lag(s, q[i]) > -n
             /\ \A i \in 1..Len(q) : i >= place => Lag(s, q[i]) <= -n
<1> DEFINE q == s.delay
           later == {i \in DOMAIN q : ~Overflown(s, q[i]) /\ Diff(s, q[i]) >= n}
           place == IF later = {} THEN Len(q) + 1 ELSE Min(later)
           l(i) == Lag(s, q[i])
<1>1. q \in Seq(Thd)  BY DEF Kernel
<1>2. Len(q) \in Nat /\ DOMAIN q = 1..Len(q) /\ \A i \in 1..Len(q) : q[i] \in Thd
  BY <1>1
<1>3. \A i \in 1..Len(q) : q[i] \in ToSet(q)  BY <1>1, ToSetLemma
<1>4. n \in Int /\ n > 0  BY CoreAssumption DEF Word
<1>5. \A i \in 1..Len(q) : l(i) \in Int
  BY <1>2, <1>3, CoreAssumption, TicklessAssumption DEF Lags, Far
<1>6. ASSUME NEW i \in 1..Len(q)  PROVE i \in later <=> l(i) <= -n
  <2> DEFINE d == Diff(s, q[i])
             o == Overflown(s, q[i])
             m == l(i)
  <2>1. q[i] \in Thd  BY <1>2
  <2>2. /\ d \in Word
        /\ m = IF d = 0 THEN 0 ELSE IF d > (W - 1) \div 2 THEN W - d ELSE -d
        /\ o <=> m >= 0
    BY <2>1, LagOf
  <2>3. i \in later <=> ~o /\ d >= n  BY <1>2
  <2> HIDE DEF d, o, m, later
  <2>4. i \in later <=> m <= -n
    BY <1>4, <2>2, <2>3, CoreAssumption DEF Word
  <2>. QED  BY <2>4 DEF m
<1>7. \A i, j \in 1..Len(q) : i < j => l(i) >= l(j)
  <2>1. \A i, j \in 1..Len(q) : i < j => Before(q, q[i], q[j])
    BY DEF Before
  <2>. QED  BY <1>2, <2>1 DEF Lags
<1>8. later \subseteq 1..Len(q)  BY <1>2
<1> HIDE DEF later, q, l
<1>9. CASE later = {}
  <2>1. place = Len(q) + 1  BY <1>9
  <2> HIDE DEF place
  <2>2. \A i \in 1..Len(q) : l(i) > -n  BY <1>4, <1>5, <1>6, <1>9
  <2>3. place \in 1..(Len(q) + 1) /\ \A i \in 1..Len(q) : ~(i >= place)
    BY <1>2, <2>1
  <2>. QED  BY <2>2, <2>3 DEF q, later, place, l
<1>10. CASE later # {}
  <2>1. later \in SUBSET Nat  BY <1>2, <1>8
  <2>2. place \in later /\ \A i \in later : place <= i
    BY <1>10, <2>1, MinOfNats
  <2> HIDE DEF place
  <2>3. place \in 1..Len(q) /\ l(place) <= -n  BY <1>6, <1>8, <2>2
  <2>4. ASSUME NEW i \in 1..Len(q), i < place  PROVE l(i) > -n
    <3>1. i \notin later  BY <2>2, <2>3, <2>4
    <3>. QED  BY <1>4, <1>5, <1>6, <3>1
  <2>5. ASSUME NEW i \in 1..Len(q), i >= place  PROVE l(i) <= -n
    <3>1. CASE i = place  BY <2>3, <3>1
    <3>2. CASE place < i
      <4>1. l(place) >= l(i)  BY <1>7, <2>3, <3>2
      <4>. QED  BY <1>4, <1>5, <2>3, <4>1
    <3>. QED  BY <2>3, <2>5, <3>1, <3>2
  <2>6. place \in 1..(Len(q) + 1)  BY <1>2, <2>3
  <2>. QED  BY <2>4, <2>5, <2>6 DEF q, later, place, l
<1>. QED  BY <1>9, <1>10

\* u is s with a timer of n slices started for the current thread.
Starts(u, s, n) ==
    /\ u.delay = Dly_Ins(s, s.cur, n).delay
    /\ u.timeout = [s.timeout EXCEPT ![s.cur] = (s.now + n) % W]
    /\ u.now = s.now /\ u.cur = s.cur
    /\ s.pend = 1 \/ s.cur \notin s.susp => u.pend = 1

\* What is on the list then, and that the new timer lies n slices ahead.
LEMMA StartsList ==
  ASSUME NEW s \in Kernel, NEW u, NEW n \in Word, Starts(u, s, n)
  PROVE  /\ ToSet(u.delay) = ToSet(s.delay) \cup {s.cur}
         /\ \A t \in Thd : t # s.cur => u.timeout[t] = s.timeout[t]
         /\ Diff(u, s.cur) = n
<1> DEFINE t == s.cur
           q == s.delay
           later == {i \in DOMAIN q : ~Overflown(s, q[i]) /\ Diff(s, q[i]) >= n}
           place == IF later = {} THEN Len(q) + 1 ELSE Min(later)
<1>1. u.delay = InsertAt(q, place, t)
  <2>1. Dly_Ins(s, t, n) = [s EXCEPT !.timeout[t] = (s.now + n) % W,
                                     !.delay = InsertAt(q, place, t)]
    BY DEF Dly_Ins
  <2> HIDE DEF place
  <2>. QED  BY <2>1 DEF Starts, Kernel
<1>2. q \in Seq(Thd) /\ t \in Thd /\ s.now \in Word /\ s.timeout \in [Thd -> Word]
  BY DEF Kernel
<1>3. place \in 1..(Len(q) + 1)
  <2>1. later \subseteq 1..Len(q) /\ Len(q) \in Nat  BY <1>2
  <2> HIDE DEF later, q
  <2>2. ASSUME later # {}  PROVE Min(later) \in 1..Len(q)
    <3>1. later \in SUBSET Nat  BY <2>1
    <3>. QED  BY <2>1, <2>2, <3>1, MinOfNats
  <2>3. CASE later = {}
    <3>1. place = Len(q) + 1  BY <2>3
    <3>. QED  BY <2>1, <3>1
  <2>4. CASE later # {}
    <3>1. place = Min(later)  BY <2>4
    <3> HIDE DEF place
    <3>. QED  BY <2>1, <2>2, <2>4, <3>1
  <2>. QED  BY <2>3, <2>4
<1> HIDE DEF place
<1>4. ToSet(u.delay) = ToSet(q) \cup {t}  BY <1>1, <1>2, <1>3, InsertLemma
<1>5. u.timeout[t] = (s.now + n) % W /\ u.now = s.now
  BY <1>2 DEF Starts
<1>6. Diff(u, t) = n  BY <1>2, <1>5, StartDiff DEF Diff
<1>. QED  BY <1>2, <1>4, <1>6 DEF Starts

\* A timer is put where it belongs, behind all that are overdue.
LEMMA StartsLags ==
  ASSUME NEW s \in Kernel, NEW u \in Kernel, Lags(s),
         s.cur \notin ToSet(s.delay),
         NEW n \in Word, n # 0, n < SliceMax, Starts(u, s, n)
  PROVE  Lags(u)
<1> DEFINE t == s.cur
           q == s.delay
           r == u.delay
           later == {i \in DOMAIN q : ~Overflown(s, q[i]) /\ Diff(s, q[i]) >= n}
           place == IF later = {} THEN Len(q) + 1 ELSE Min(later)
<1>1. r = InsertAt(q, place, t)
  <2>1. Dly_Ins(s, t, n) = [s EXCEPT !.timeout[t] = (s.now + n) % W,
                                     !.delay = InsertAt(q, place, t)]
    BY DEF Dly_Ins
  <2> HIDE DEF place
  <2>. QED  BY <2>1 DEF Starts, Kernel
<1>2. q \in Seq(Thd) /\ t \in Thd  BY DEF Kernel
<1>3. /\ place \in 1..(Len(q) + 1)
      /\ \A i \in 1..Len(q) : i < place => Lag(s, q[i]) > -n
      /\ \A i \in 1..Len(q) : i >= place => Lag(s, q[i]) <= -n
  BY LagPlace
<1> HIDE DEF place, later
<1>4. ToSet(r) = ToSet(q) \cup {t}  BY StartsList
<1>5. \A a, b : Before(r, a, b) =>
         \/ Before(q, a, b)
         \/ b = t /\ \E j \in 1..Len(q) : j < place /\ q[j] = a
         \/ a = t /\ \E j \in 1..Len(q) : j >= place /\ q[j] = b
  BY <1>1, <1>2, <1>3, InsertOrder
<1>6. \A x \in Thd : x # t => Lag(u, x) = Lag(s, x)
  <2>1. \A x \in Thd : x # t => u.timeout[x] = s.timeout[x] /\ u.now = s.now
    BY StartsList DEF Starts
  <2>. QED  BY <2>1 DEF Lag, Overflown, Diff
<1>7. Lag(u, t) = -n
  <2> DEFINE d == Diff(u, t)
             l == Lag(u, t)
  <2>1. d = n  BY StartsList
  <2>2. l = IF d = 0 THEN 0 ELSE IF d > (W - 1) \div 2 THEN W - d ELSE -d
    BY <1>2, LagOf
  <2> HIDE DEF d, l
  <2>3. l = -n  BY <2>1, <2>2, CoreAssumption DEF Word
  <2>. QED  BY <2>3 DEF l
<1>8. -n \in Far /\ n \in Int
  BY CoreAssumption, TicklessAssumption DEF Far, Word
<1>9. \A x \in Thd : x \in ToSet(q) => x # t /\ Lag(s, x) \in Far
  BY DEF Lags
<1>10. /\ \A i \in 1..Len(q) : q[i] \in Thd /\ q[i] \in ToSet(q)
       /\ \A a, b : Before(q, a, b) => a \in ToSet(q) /\ b \in ToSet(q)
  <2>1. \A i \in 1..Len(q) : q[i] \in Thd  BY <1>2
  <2>2. \A i \in 1..Len(q) : q[i] \in ToSet(q)  BY <1>2, ToSetLemma
  <2> HIDE DEF q
  <2>. QED  BY <2>1, <2>2 DEF Before
<1>11. \A a, b \in Thd : Before(q, a, b) => Lag(s, a) >= Lag(s, b)
  BY DEF Lags
<1>12. \A x \in Far : x \in Int
  BY CoreAssumption, TicklessAssumption DEF Far
<1>13. t \notin ToSet(q)  OBVIOUS
<1> HIDE DEF q, r, t
<1>14. \A x \in Thd : x \in ToSet(r) => Lag(u, x) \in Far
  BY <1>4, <1>6, <1>7, <1>8, <1>9
<1>15. ASSUME NEW a \in Thd, NEW b \in Thd, Before(r, a, b)
       PROVE  Lag(u, a) >= Lag(u, b)
  <2>1. CASE Before(q, a, b)
    <3>1. a # t /\ b # t  BY <1>10, <1>13, <2>1
    <3>2. Lag(s, a) >= Lag(s, b)  BY <1>11, <2>1
    <3>. QED  BY <1>6, <3>1, <3>2
  <2>2. CASE b = t /\ \E j \in 1..Len(q) : j < place /\ q[j] = a
    <3>1. a # t /\ Lag(s, a) > -n  BY <1>3, <1>10, <1>13, <2>2 DEF q
    <3>2. Lag(s, a) \in Int  BY <1>9, <1>10, <1>12, <2>2
    <3>. QED  BY <1>6, <1>7, <1>8, <2>2, <3>1, <3>2
  <2>3. CASE a = t /\ \E j \in 1..Len(q) : j >= place /\ q[j] = b
    <3>1. b # t /\ Lag(s, b) <= -n  BY <1>3, <1>10, <1>13, <2>3 DEF q
    <3>2. Lag(s, b) \in Int  BY <1>9, <1>10, <1>12, <2>3
    <3>. QED  BY <1>6, <1>7, <1>8, <2>3, <3>1, <3>2
  <2>. QED  BY <1>5, <1>15, <2>1, <2>2, <2>3
<1>. QED  BY <1>14, <1>15 DEF Lags, r

----------------------------------------------------------------------------
(* What the calls do to the delay list.                                    *)

\* Only the timestamp of the memory, the delay list and the timeouts matter
\* for the place of a timer.
LEMMA PlaceSame ==
  ASSUME NEW s, NEW u, Mem(s), Mem(u), u.delay = s.delay,
         u.timeout = s.timeout, u.now = s.now, NEW t, NEW n
  PROVE  /\ Dly_Ins(u, t, n).delay = Dly_Ins(s, t, n).delay
         /\ Dly_Ins(u, t, n).timeout = [s.timeout EXCEPT ![t] = (s.now + n) % W]
<1>1. \A x : Diff(u, x) = Diff(s, x)  BY DEF Diff
<1>2. \A x : Overflown(u, x) <=> Overflown(s, x)  BY <1>1 DEF Overflown
<1> DEFINE later(z) == {i \in DOMAIN z.delay :
                          ~Overflown(z, z.delay[i]) /\ Diff(z, z.delay[i]) >= n}
           place(z) == IF later(z) = {} THEN Len(z.delay) + 1 ELSE Min(later(z))
           r(z) == InsertAt(z.delay, place(z), t)
<1>3. later(u) = later(s)  BY <1>1, <1>2
<1>4. \A z : Mem(z) =>
         /\ Dly_Ins(z, t, n).delay = r(z)
         /\ Dly_Ins(z, t, n).timeout = [z.timeout EXCEPT ![t] = (z.now + n) % W]
  <2> SUFFICES ASSUME NEW z, Mem(z)
               PROVE  /\ Dly_Ins(z, t, n).delay = r(z)
                      /\ Dly_Ins(z, t, n).timeout =
                            [z.timeout EXCEPT ![t] = (z.now + n) % W]
    OBVIOUS
  <2>1. Dly_Ins(z, t, n) =
           [z EXCEPT !.timeout = [z.timeout EXCEPT ![t] = (z.now + n) % W],
                     !.delay = r(z)]
    BY DEF Dly_Ins
  <2> HIDE DEF r
  <2>. QED  BY <2>1 DEF Mem, Boot
<1>5. r(u) = r(s)  BY <1>3
<1> HIDE DEF r
<1>. QED  BY <1>4, <1>5

\* A thread that blocks with a timeout starts its timer.
LEMMA BlockStarts ==
  ASSUME NEW s \in Kernel, NEW n, n < SliceMax, NEW forever, NEW timed
  PROVE  Starts(Block(s, n, forever, timed), s, n)
<1> DEFINE c == s.cur
           a == [s EXCEPT !.retval[c] = "ok"]
           off == Run_Del(a, c)
           d == Dly_Ins(off, c, n)
           u == [d EXCEPT !.state[c] = timed]
<1>1. Block(s, n, forever, timed) = u  BY DEF Block
<1>2. Mem(s)  BY KernelMem
<1>3. Mem(a) /\ a.susp = s.susp /\ a.cur = c /\ a.pend = s.pend
      /\ a.delay = s.delay /\ a.timeout = s.timeout /\ a.now = s.now
  BY <1>2 DEF Mem, Boot
<1> HIDE DEF a, c
<1>4. /\ Mem(off) /\ off.delay = s.delay /\ off.timeout = s.timeout
      /\ off.now = s.now /\ off.cur = s.cur
      /\ s.pend = 1 \/ s.cur \notin s.susp => off.pend = 1
  BY <1>3 DEF Run_Del, Mem, Boot, c
<1> HIDE DEF off
<1>5. /\ d.delay = Dly_Ins(s, c, n).delay
      /\ d.timeout = [s.timeout EXCEPT ![c] = (s.now + n) % W]
  <2>1. /\ Mem(s) /\ Mem(off) /\ off.delay = s.delay
        /\ off.timeout = s.timeout /\ off.now = s.now
    BY <1>2, <1>4
  <2>. QED  BY ONLY <2>1, PlaceSame
<1>6. Mem(d) /\ d.now = s.now /\ d.cur = s.cur /\ d.pend = off.pend
  BY <1>4 DEF Dly_Ins, Mem, Boot
<1> HIDE DEF d
<1>7. u.delay = d.delay /\ u.timeout = d.timeout /\ u.now = d.now
      /\ u.cur = d.cur /\ u.pend = d.pend
  BY <1>6 DEF Mem, Boot
<1>. QED  BY <1>1, <1>4, <1>5, <1>6, <1>7 DEF Starts, c

\* Leave requests a switch, and nothing else.
LEMMA LeaveStarts ==
  ASSUME NEW s, NEW u, Mem(u), NEW n, Starts(u, s, n)
  PROVE  Starts(Leave(u), s, n)
BY DEF Starts, Leave, Mem, Boot

\* RMP_Sem_Pend with a timeout, of a semaphore that is not free.
LEMMA PendStarts ==
  ASSUME NEW s \in Kernel, NEW x, s.num[x] = 0, NEW n, n # 0, n < SliceMax
  PROVE  Starts(Pend_Core(s, x, n), s, n)
<1> DEFINE b == Block(s, n, "SEMBLK", "SEMDLY")
           u == [b EXCEPT !.wait[x] = Append(@, s.cur)]
<1>1. Pend_Core(s, x, n) = Leave(u)  BY DEF Pend_Core
<1>2. Starts(b, s, n) /\ Mem(b)  BY BlockStarts, BlockMem
<1> HIDE DEF b
<1>3. Starts(u, s, n) /\ Mem(u)  BY <1>2 DEF Starts, Mem, Boot
<1>. QED  BY <1>1, <1>3, LeaveStarts

\* Any other call of RMP_Sem_Pend starts none.
LEMMA PendThin ==
  ASSUME NEW z, NEW s \in Kernel, Thin(s, z), NEW x, NEW n \in Word,
         n = 0 \/ n >= SliceMax \/ s.num[x] # 0
  PROVE  Thin(Pend_Core(s, x, n), z)
<1> DEFINE a == [s EXCEPT !.num[x] = @ - 1]
           e == [s EXCEPT !.retval[s.cur] = "ok"]
           off == Run_Del(e, s.cur)
           b == [off EXCEPT !.state[s.cur] = "SEMBLK"]
           u == [b EXCEPT !.wait[x] = Append(@, s.cur)]
<1>1. \/ Pend_Core(s, x, n) = Leave(a) \/ Pend_Core(s, x, n) = Leave(s)
      \/ n >= SliceMax /\ Pend_Core(s, x, n) =
            Leave([Block(s, n, "SEMBLK", "SEMDLY")
                   EXCEPT !.wait[x] = Append(@, s.cur)])
  BY DEF Pend_Core
<1>2. Mem(s)  BY KernelMem
<1>3. Still(a, s) /\ Still(e, s)  BY <1>2 DEF Still, Calm, Mem, Boot
<1>4. n >= SliceMax => Block(s, n, "SEMBLK", "SEMDLY") = b
  <2>1. n >= SliceMax => ~(n < SliceMax)  BY CoreAssumption DEF Word
  <2>. QED  BY <2>1 DEF Block
<1>5. Thin(a, z) /\ Thin(e, z)  BY <1>3, StillThin
<1> HIDE DEF a, e
<1>6. Thin(off, z)  BY <1>5, QueueThin
<1> HIDE DEF off
<1>7. Still(b, off)  BY <1>6 DEF Thin, Still, Calm, Mem, Boot
<1>8. Thin(b, z)  BY <1>6, <1>7, StillThin
<1> HIDE DEF b
<1>9. Still(u, b)  BY <1>8 DEF Thin, Still, Calm, Mem, Boot
<1>10. Thin(u, z)  BY <1>8, <1>9, StillThin
<1>11. Thin(Leave(a), z) /\ Thin(Leave(s), z) /\ Thin(Leave(u), z)
  BY <1>5, <1>10, QueueThin
<1>. QED  BY <1>1, <1>4, <1>11 DEF u

\* RMP_Sem_Pend_Unlock under a deeper lock, and the two calls without a timer.
LEMMA UntimedThin ==
  ASSUME IInv, NEW x \in Sem, NEW n \in Waits, Untimed(x, n),
         Sem_Pend(x, n) \/ Sem_Pend_Unlock(x, n)
  PROVE  Thin(k', k)
<1>1. k \in Kernel /\ Mem(k) /\ Thin(k, k) /\ n \in Word
  BY SafeInner, ThinRefl, KernelMem, WordLemma DEF IInv
<1>2. CASE Sem_Pend(x, n)
  <2>1. x \in k.used /\ k' = Pend_Core(k, x, n)  BY <1>2 DEF Sem_Pend
  <2>2. n = 0 \/ n >= SliceMax \/ k.num[x] # 0
    <3>1. k.num[x] = 0 /\ n # 0 => k.lock = 0
      BY <1>2 DEF Sem_Pend, MayBlock
    <3>. QED  BY <2>1, <3>1 DEF Untimed
  <2>. QED  BY <1>1, <2>1, <2>2, PendThin
<1>3. CASE Sem_Pend_Unlock(x, n)
  <2> DEFINE s == [k EXCEPT !.lock = k.lock - 1]
  <2>1. /\ k.lock > 0
        /\ k' = IF s.lock = 0 /\ x \in k.used THEN Pend_Core(s, x, n)
                                              ELSE Leave(s)
    BY <1>3 DEF Sem_Pend_Unlock
  <2>2. k.lock - 1 \in 0..LockMax /\ k.lock \in Nat
    BY <1>1, <2>1, CoreAssumption DEF Kernel
  <2>3. s \in Kernel /\ s.num = k.num /\ s.lock = k.lock - 1
    BY <1>1, <2>2 DEF Kernel
  <2>4. Thin(s, k)  BY <1>1, FieldThin
  <2> HIDE DEF s
  <2>5. CASE s.lock = 0 /\ x \in k.used
    <3>1. n = 0 \/ n >= SliceMax \/ s.num[x] # 0
      BY <2>2, <2>3, <2>5 DEF Untimed
    <3>. QED  BY <1>1, <2>1, <2>3, <2>4, <2>5, <3>1, PendThin
  <2>6. CASE ~(s.lock = 0 /\ x \in k.used)
    BY <2>1, <2>4, <2>6, QueueThin
  <2>. QED  BY <2>5, <2>6
<1>. QED  BY <1>2, <1>3

\* No call outside Timing starts a timer.
LEMMA CallsThin ==
  ASSUME IInv, Calls
  PROVE  Thin(k', k)
<1>1. ASSUME NEW t \in Thd, NEW p, NEW n,
             \/ Thd_Crt(t, p, n) \/ Thd_Set(t, p, n) \/ Thd_Del(t)
             \/ Thd_Suspend(t) \/ Thd_Resume(t) \/ Thd_Cancel(t)
      PROVE  Thin(k', k)
  BY <1>1, ThreadThin
<1>2. ASSUME NEW x, NEW n, NEW t, SemThins(x, n, t)
      PROVE  Thin(k', k)
  BY <1>2, SemThin
<1>. QED  BY <1>1, <1>2, SchedThin, UntimedThin DEF Calls, SemThins

\* Nor do the interrupts that post.
LEMMA SignalsThin ==
  ASSUME IInv, Signals
  PROVE  Thin(k', k)
BY SemThin DEF Signals, SemThins
----------------------------------------------------------------------------
(* The timestamp moves.                                                    *)

\* _RMP_Tim_Elapse changes the timestamp only.
LEMMA ElapseFields ==
  ASSUME NEW s \in Kernel, NEW n \in Word
  PROVE  LET u == Tim_Elapse(s, n)
         IN  /\ u \in Kernel /\ SameLists(u, s)
             /\ u.now = (s.now + n) % W /\ u.timeout = s.timeout
             /\ u.state = s.state /\ u.susp = s.susp /\ u.used = s.used
             /\ u.slice = s.slice /\ u.left = s.left /\ u.num = s.num
             /\ u.pend = s.pend /\ u.soft = s.soft
             /\ u.lock = s.lock /\ u.panic = s.panic
<1>1. (s.now + n) % W \in Word
  <2>1. s.now \in Word  BY DEF Kernel
  <2>2. s.now + n \in Int  BY <2>1, CoreAssumption DEF Word
  <2>. QED  BY <2>2, WordMod
<1> DEFINE v == (s.now + n) % W
           u == [s EXCEPT !.now = v]
<1>2. Tim_Elapse(s, n) = u  BY DEF Tim_Elapse
<1>3. v \in Word  BY <1>1
<1> HIDE DEF v
<1>4. /\ u \in Kernel /\ SameLists(u, s)
      /\ u.now = v /\ u.timeout = s.timeout
      /\ u.state = s.state /\ u.susp = s.susp /\ u.used = s.used
      /\ u.slice = s.slice /\ u.left = s.left /\ u.num = s.num
      /\ u.pend = s.pend /\ u.soft = s.soft
      /\ u.lock = s.lock /\ u.panic = s.panic
  BY <1>3 DEF Kernel, SameLists
<1>. QED  BY <1>2, <1>4 DEF v

\* It keeps the lists.
LEMMA ElapseSafe ==
  ASSUME NEW s, KInv(s), NEW n \in Word
  PROVE  LET u == Tim_Elapse(s, n)
         IN  KInv(u) /\ (Safe(s) => Safe(u))
<1> DEFINE u == Tim_Elapse(s, n)
<1>1. s \in Kernel  BY DEF KInv, Good
<1>2. /\ u \in Kernel /\ SameLists(u, s)
      /\ u.state = s.state /\ u.susp = s.susp /\ u.used = s.used
      /\ u.pend = s.pend /\ u.soft = s.soft
      /\ u.lock = s.lock /\ u.panic = s.panic
  BY <1>1, ElapseFields
<1> HIDE DEF u
<1>3. KInv(u)  BY <1>2, KInvSame
<1>4. Safe(s) => Safe(u)  BY <1>2, <1>3 DEF Safe, SameLists
<1>. QED  BY <1>3, <1>4 DEF u

\* What the timer has counted is a number of slices.
LEMMA CountWord ==
  ASSUME Clock
  PROVE  /\ Tim_Get \in Word /\ tim.last \in Word /\ Tim_Get <= tim.last
         /\ tim.ifg => Tim_Get = tim.last
<1>1. tim.last \in Word /\ tim.at \in Word /\ tim.at <= tim.last
  BY DEF Clock, Timer
<1>2. tim.last <= tim.last  BY <1>1, CoreAssumption DEF Word
<1>. QED  BY <1>1, <1>2 DEF Tim_Get

\* The memory in which a timed wait begins.
LEMMA StampFields ==
  ASSUME IInv, Clock
  PROVE  /\ Stamp \in Kernel /\ KInv(Stamp) /\ Safe(Stamp)
         /\ SameLists(Stamp, k) /\ Stamp.timeout = k.timeout
         /\ Stamp.now = (k.now + Tim_Get) % W
         /\ Stamp.state = k.state /\ Stamp.susp = k.susp
         /\ Stamp.used = k.used /\ Stamp.num = k.num
         /\ Stamp.slice = k.slice /\ Stamp.left = k.left
         /\ Stamp.pend = k.pend /\ Stamp.soft = k.soft
         /\ Stamp.lock = k.lock /\ Stamp.panic = k.panic
<1>1. k \in Kernel /\ KInv(k) /\ Safe(k)  BY SafeInner DEF IInv
<1>2. Tim_Get \in Word  BY CountWord
<1>3. KInv(Stamp) /\ Safe(Stamp)  BY <1>1, <1>2, ElapseSafe DEF Stamp
<1>. QED  BY <1>1, <1>2, <1>3, ElapseFields DEF Stamp

\* The calls that wait with a timeout: s is the memory in which the current
\* thread blocks, with the lock released.
Begins(s, n) ==
    /\ s = Stamp \/ s = [Stamp EXCEPT !.lock = 0]
    /\ s.lock = 0
    /\ n \in Word /\ n # 0 /\ n < SliceMax
    /\ \/ k' = Leave(Block(s, n, "DELAYED", "DELAYED"))
       \/ \E x \in Sem : /\ x \in s.used /\ s.num[x] = 0
                         /\ k' = Pend_Core(s, x, n)
    /\ User /\ k.cur # Idle
    /\ Dly_Hook(n) /\ UNCHANGED <<rcv, got>>

\* They are Delay, Pend and Pend_Unlock.
LEMMA TimingCases ==
  ASSUME IInv, Clock, Timing
  PROVE  \/ Pass \/ Timer_Handler \/ Switch_Hook \/ Init_Idle
         \/ Fall_Asleep \/ \E s, n : Begins(s, n)
<1> DEFINE r == [Stamp EXCEPT !.lock = 0]
<1>1. /\ Stamp.lock = k.lock /\ Stamp.used = k.used /\ Stamp.num = k.num
      /\ Mem(Stamp)
  BY StampFields, KernelMem
<1>2. r.lock = 0 /\ r.used = k.used /\ r.num = k.num
  BY <1>1 DEF Mem, Boot
<1> HIDE DEF r
<1>3. ASSUME NEW n \in Waits, Delay(n)  PROVE Begins(Stamp, n)
  <2>1. n \in Word  BY WordLemma
  <2>. QED  BY <1>1, <1>3, <2>1 DEF Delay, MayBlock, Begins
<1>4. ASSUME NEW n \in Waits, NEW x \in Sem, Pend(x, n)
      PROVE  Begins(Stamp, n)
  <2>1. n \in Word  BY WordLemma
  <2>. QED  BY <1>1, <1>4, <2>1 DEF Pend, MayBlock, Begins
<1>5. ASSUME NEW n \in Waits, NEW x \in Sem, Pend_Unlock(x, n)
      PROVE  Begins(r, n)
  <2>1. n \in Word  BY WordLemma
  <2>. QED  BY <1>2, <1>5, <2>1 DEF Pend_Unlock, Begins, r
<1>. QED  BY <1>3, <1>4, <1>5 DEF Timing

\* What s is.
LEMMA BeginsFields ==
  ASSUME IInv, Clock, NEW s, NEW n, Begins(s, n)
  PROVE  /\ s \in Kernel /\ KInv(s) /\ Inner(s)
         /\ SameLists(s, k) /\ s.timeout = k.timeout
         /\ s.now = (k.now + Tim_Get) % W
         /\ s.state = k.state /\ s.susp = k.susp
         /\ s.slice = k.slice /\ s.left = k.left /\ s.pend = k.pend
         /\ s.state[s.cur] = "RUNNING" /\ s.cur = k.cur /\ s.cur # Idle
         /\ s.soft = 0
<1> DEFINE r == [Stamp EXCEPT !.lock = 0]
<1>1. s = Stamp \/ s = r  BY DEF Begins
<1>2. /\ Stamp \in Kernel /\ KInv(Stamp) /\ Safe(Stamp)
      /\ SameLists(Stamp, k) /\ Stamp.timeout = k.timeout
      /\ Stamp.now = (k.now + Tim_Get) % W
      /\ Stamp.state = k.state /\ Stamp.susp = k.susp
      /\ Stamp.slice = k.slice /\ Stamp.left = k.left
      /\ Stamp.pend = k.pend /\ Stamp.soft = k.soft
  BY StampFields
<1>3. k.soft = 0 /\ k.cur # Idle /\ User  BY DEF Begins, User
<1>4. k.state[k.cur] = "RUNNING"  BY <1>3, UserRuns DEF IInv
<1>5. /\ r \in Kernel /\ SameLists(r, Stamp) /\ r.timeout = Stamp.timeout
      /\ r.now = Stamp.now /\ r.state = Stamp.state
      /\ r.susp = Stamp.susp /\ r.slice = Stamp.slice
      /\ r.left = Stamp.left /\ r.pend = Stamp.pend /\ r.soft = Stamp.soft
      /\ r.used = Stamp.used /\ r.lock = 0
  <2>1. 0 \in 0..LockMax  BY CoreAssumption
  <2>. QED  BY <1>2, <2>1 DEF Kernel, SameLists
<1> HIDE DEF r
<1>6. KInv(r)  BY <1>2, <1>5, KInvSame
<1>7. Inner(r)  BY <1>2, <1>3, <1>5, <1>6 DEF Inner
<1>8. Inner(Stamp)  BY <1>2, SafeInner
<1>9. SameLists(r, k)  BY <1>2, <1>5 DEF SameLists
<1>10. Stamp.cur = k.cur /\ r.cur = k.cur  BY <1>2, <1>9 DEF SameLists
<1>11. CASE s = Stamp
  BY <1>2, <1>3, <1>4, <1>8, <1>10, <1>11
<1>12. CASE s = r
  BY <1>2, <1>3, <1>4, <1>5, <1>6, <1>7, <1>9, <1>10, <1>12
<1>. QED  BY <1>1, <1>11, <1>12

----------------------------------------------------------------------------
(* The invariant of the kernel holds of the tickless kernel too.           *)

\* The calls are some of the kernel's.
LEMMA CallsSafe ==
  ASSUME IInv, Calls \/ Signals
  PROVE  IInv'
<1>1. CASE Calls
  <2>1. CoreNext \/ ThreadNext \/ SemNext
    <3>1. Sched_Lock \/ Sched_Unlock \/ Yield => CoreNext  BY DEF CoreNext
    <3>2. ASSUME NEW t \in Thd
          PROVE  /\ Thd_Del(t) \/ Thd_Suspend(t) \/ Thd_Resume(t)
                               \/ Thd_Cancel(t) => ThreadNext
                 /\ Sem_Abort(t) => SemNext
      BY DEF ThreadNext, SemNext
    <3>3. ASSUME NEW t \in Thd, NEW n \in Slices
          PROVE  /\ \A p \in Prio : Thd_Crt(t, p, n) => ThreadNext
                 /\ \A p \in 0..PrioNum : Thd_Set(t, p, n) => ThreadNext
      BY DEF ThreadNext
    <3>4. ASSUME NEW x \in Sem
          PROVE  /\ Sem_Del(x) \/ Sem_Bcst(x) => SemNext
                 /\ \A n \in Posts : Sem_Crt(x, n) \/ Sem_Post(x, n) => SemNext
                 /\ \A n \in Waits :
                       Sem_Pend(x, n) \/ Sem_Pend_Unlock(x, n) => SemNext
      BY DEF SemNext
    <3>. QED  BY <1>1, <3>1, <3>2, <3>3, <3>4 DEF Calls
  <2>. QED  BY <2>1, CoreSafe, ThreadSafe, SemSafe
<1>2. CASE Signals
  <2>1. SemNext  BY <1>2 DEF Signals, SemNext
  <2>. QED  BY <2>1, SemSafe
<1>. QED  BY <1>1, <1>2

\* So is what starts a timer, from the memory with the new timestamp.
LEMMA BeginsSafe ==
  ASSUME IInv, Clock, NEW s, NEW n, Begins(s, n)
  PROVE  Safe(k')
<1>1. /\ s \in Kernel /\ KInv(s) /\ Inner(s)
      /\ s.state[s.cur] = "RUNNING" /\ s.cur # Idle
  BY BeginsFields
<1>2. s.lock = 0 /\ n \in Word /\ n < SliceMax  BY DEF Begins
<1>3. CASE k' = Leave(Block(s, n, "DELAYED", "DELAYED"))
  <2>1. "DELAYED" \in Blocked /\ "DELAYED" \in Timed
        /\ "DELAYED" \notin Sending \cup Pending
    BY DEF Blocked, Timed, Sending, Pending
  <2>2. Inner(Block(s, n, "DELAYED", "DELAYED"))
    BY <1>1, <1>2, <2>1, BlockAlone
  <2>. QED  BY <1>3, <2>2, LeaveSafe
<1>4. ASSUME NEW x \in Sem, x \in s.used, k' = Pend_Core(s, x, n)
      PROVE  Safe(k')
  BY <1>1, <1>2, <1>4, PendCore
<1>. QED  BY <1>3, <1>4 DEF Begins

\* Every step of the tickless kernel keeps the lists.
LEMMA TicklessSafe ==
  ASSUME IInv, Clock, TicklessNext
  PROVE  IInv'
<1>1. Safe(k) /\ Inner(k) /\ KInv(k) /\ k \in Kernel
  BY SafeInner DEF IInv
<1>2. Tim_Get \in Word /\ tim.last \in Word  BY CountWord
<1>3. CASE Awake(Calls) \/ Rousing(Signals)
  BY <1>3, CallsSafe DEF Awake, Rousing
<1>4. CASE Pass \/ Init_Idle \/ Fall_Asleep
  BY <1>4 DEF Pass, Init_Idle, Fall_Asleep, IInv, vars
<1>5. CASE Timer_Handler
  <2>1. Inner(Tim_Handler(k, tim.last))  BY <1>1, <1>2, TimHandler
  <2>2. k' = Leave(Tim_Handler(k, tim.last)) /\ UNCHANGED <<rcv, got>>
    BY <1>5 DEF Timer_Handler
  <2>3. Safe(k')  BY <2>1, <2>2, LeaveSafe
  <2>. QED  BY <2>2, <2>3 DEF IInv
<1>6. CASE Switch_Hook
  <2>1. k.lock = 0  BY <1>6 DEF Switch_Hook, Interrupt
  <2>2. Safe(Run_High(k))  BY <1>1, <2>1, RunHigh
  <2>3. KInv(Run_High(k))  BY <2>2, SafeInner
  <2>4. Safe(Tim_Elapse(Run_High(k), Tim_Get))
    BY <1>2, <2>2, <2>3, ElapseSafe
  <2>5. k' = Tim_Elapse(Run_High(k), Tim_Get) /\ UNCHANGED <<rcv, got>>
    BY <1>6 DEF Switch_Hook
  <2>. QED  BY <2>4, <2>5 DEF IInv
<1>7. ASSUME NEW s, NEW n, Begins(s, n)  PROVE IInv'
  BY <1>7, BeginsSafe DEF IInv, Begins
<1>8. CASE Timing
  BY <1>4, <1>5, <1>6, <1>7, <1>8, TimingCases
<1>. QED  BY <1>3, <1>8 DEF TicklessNext

----------------------------------------------------------------------------
(* Slices.                                                                 *)

\* Nobody's slice is changed, and no thread is created.
Kept(u, s) ==
    /\ u.slice = s.slice /\ u.left = s.left
    /\ \A t \in Thd : u.state[t] # "FREE" => s.state[t] # "FREE"

\* Such steps leave everyone with a slice.
LEMMA KeptSliced ==
  ASSUME NEW s, NEW u, Sliced(s), Kept(u, s)
  PROVE  Sliced(u)
BY DEF Sliced, Kept

\* The states and slices are not changed.
Alike(u, s) ==
    /\ Mem(u) /\ u.state = s.state /\ u.slice = s.slice /\ u.left = s.left

\* Most helpers touch neither.
LEMMA HelpersAlike ==
  ASSUME NEW s, Mem(s), NEW t, NEW T, NEW r
  PROVE  /\ Alike(Run_Ins(s, t), s) /\ Alike(Run_Del(s, t), s)
         /\ Alike(Leave(s), s) /\ Alike(SetRetval(s, T, r), s)
         /\ Alike(Unlink(s, t), s)
BY DEF Alike, Run_Ins, Run_Del, Leave, SetRetval, Unlink, Mem, Boot

\* Waking threads keeps the slices.
LEMMA WokenKept ==
  ASSUME NEW s, NEW u, NEW T, Woken(u, s, T),
         \A t \in T : s.state[t] \in Blocked
  PROVE  Kept(u, s)
<1>1. u.slice = s.slice /\ u.left = s.left  BY DEF Woken, SameRest
<1>2. \A t \in Thd : u.state[t] = IF t \in T THEN "RUNNING" ELSE s.state[t]
  BY DEF Woken
<1>. QED  BY <1>1, <1>2, StateFacts DEF Kept

\* And being alike.
LEMMA AlikeKept ==
  ASSUME NEW z, NEW s, NEW u, Kept(s, z), Alike(u, s)
  PROVE  Kept(u, z) /\ Kept(Leave(u), z)
<1>1. Alike(Leave(u), u)  BY HelpersAlike DEF Alike
<1>. QED  BY <1>1 DEF Kept, Alike

\* The end of a wait that is given up.
LEMMA AbortKept ==
  ASSUME NEW s, KInv(s), NEW t \in Thd, s.state[t] \in Blocked
  PROVE  Kept(Leave(SetRetval(Wake(s, t), {t}, "err")), s)
<1> DEFINE w == Wake(s, t)
<1>1. KInv(w) /\ Woken(w, s, {t})  BY WakeOne
<1> HIDE DEF w
<1>2. Mem(w)  BY <1>1, KernelMem DEF KInv, Good
<1>3. Kept(w, s)  BY <1>1, WokenKept
<1>4. Alike(SetRetval(w, {t}, "err"), w)  BY <1>2, HelpersAlike
<1>. QED  BY <1>3, <1>4, AlikeKept DEF w

\* The deletion of a thread.
LEMMA DelKept ==
  ASSUME IInv, NEW t \in Thd, Thd_Del(t)
  PROVE  Kept(k', k)
<1> DEFINE T == ToSet(k.snd[t])
           w == WakeAll(k, k.snd[t])
           s == SetRetval(w, T, "err")
           off == IF s.state[t] = "RUNNING" THEN Run_Del(s, t)
                                            ELSE Unlink(s, t)
           gone == [off EXCEPT !.retval[t] = "err", !.state[t] = "FREE",
                               !.susp = @ \ {t}, !.full = @ \ {t}]
           halt == [gone EXCEPT !.panic = 1]
<1>1. k \in Kernel /\ KInv(k)  BY SafeInner DEF IInv
<1>2. k' = IF t = k.cur /\ k.lock > 0 THEN halt ELSE Leave(gone)
  BY DEF Thd_Del
<1>3. /\ k.snd[t] \in Seq(Thd) /\ IsInjective(k.snd[t])
      /\ \A x \in T : x \in Thd /\ k.state[x] \in Blocked
  <2>1. DOMAIN k.snd = Thd /\ k.snd[t] \in Seq(Thd)  BY <1>1 DEF Kernel
  <2>2. Apart(k.snd, InState(k, Sending))
    BY <1>1, ListedDef DEF KInv, Good
  <2>3. IsInjective(k.snd[t])  BY <2>1, <2>2 DEF Apart
  <2>4. \A x \in T : x \in InState(k, Sending)
    BY <2>1, <2>2 DEF Apart
  <2>. QED  BY <2>1, <2>3, <2>4 DEF InState, Blocked
<1>4. KInv(w) /\ Woken(w, k, T)  BY <1>1, <1>3, WakeEach
<1> HIDE DEF w
<1>5. Mem(w) /\ w.state \in [Thd -> ThdState]
  BY <1>4, KernelMem DEF KInv, Good, Kernel
<1>6. Kept(w, k)  BY <1>3, <1>4, WokenKept
<1>7. Alike(s, w)  BY <1>5, HelpersAlike
<1> HIDE DEF s, T
<1>8. Alike(off, s)  BY <1>7, HelpersAlike DEF Alike
<1> HIDE DEF off
<1>9. off.state \in [Thd -> ThdState] /\ Kept(off, k)
  BY <1>5, <1>6, <1>7, <1>8, AlikeKept DEF Alike
<1>10. /\ Mem(gone) /\ gone.state = [off.state EXCEPT ![t] = "FREE"]
       /\ gone.slice = off.slice /\ gone.left = off.left
  BY <1>8 DEF Alike, Mem, Boot
<1> HIDE DEF gone
<1>11. Kept(gone, k)
  <2>1. \A x \in Thd : gone.state[x] # "FREE" => off.state[x] # "FREE"
    BY <1>9, <1>10
  <2>. QED  BY <1>9, <1>10, <2>1 DEF Kept
<1>12. Alike(halt, gone) /\ Alike(gone, gone)
  BY <1>10 DEF Alike, Mem, Boot
<1> HIDE DEF halt
<1>. QED  BY <1>2, <1>11, <1>12, AlikeKept

\* The waking loops of the semaphores.
LEMMA PrefixKept ==
  ASSUME IInv, NEW x \in Sem, NEW m \in 0..Len(k.wait[x]), NEW u,
         Alike(u, WakeAll(k, SubSeq(k.wait[x], 1, m))), k' = Leave(u)
  PROVE  Kept(k', k)
<1> DEFINE ts == SubSeq(k.wait[x], 1, m)
           w == WakeAll(k, ts)
<1>1. KInv(k)  BY SafeInner DEF IInv
<1>2. /\ k.wait[x] \in Seq(Thd) /\ IsInjective(k.wait[x])
      /\ \A t \in ToSet(k.wait[x]) : k.state[t] \in Blocked
  BY <1>1, WaitersBlocked
<1>3. /\ ts \in Seq(Thd) /\ IsInjective(ts)
      /\ \A t \in ToSet(ts) : k.state[t] \in Blocked
  BY <1>2, PrefixLemma
<1> HIDE DEF ts
<1>4. Woken(w, k, ToSet(ts))  BY <1>1, <1>3, WakeEach
<1>5. Kept(w, k)  BY <1>3, <1>4, WokenKept
<1>6. Alike(u, w)  BY DEF ts
<1>. QED  BY <1>5, <1>6, AlikeKept

\* The semaphore calls and interrupts that make nobody wait.
LEMMA SemKept ==
  ASSUME IInv, NEW x, NEW n, NEW t \in Thd, SemThins(x, n, t)
  PROVE  Kept(k', k)
<1>1. k \in Kernel /\ KInv(k) /\ Mem(k)
  BY SafeInner, KernelMem DEF IInv
<1>2. Kept(k, k)  BY DEF Kept
<1>3. ASSUME x \in Sem
      PROVE  /\ k.wait[x] \in Seq(Thd)
             /\ SubSeq(k.wait[x], 1, Len(k.wait[x])) = k.wait[x]
             /\ Len(k.wait[x]) \in 0..Len(k.wait[x])
  <2>1. k.wait[x] \in Seq(Thd)  BY <1>1, <1>3 DEF Kernel
  <2>. QED  BY <2>1, WholePrefix
<1>4. ASSUME x \in Sem, NEW m \in 0..Len(k.wait[x])
      PROVE  Mem(WakeAll(k, SubSeq(k.wait[x], 1, m)))
  <2>1. SubSeq(k.wait[x], 1, m) \in Seq(Thd)  BY <1>3, <1>4
  <2>2. Thin(k, k)  BY <1>1, ThinRefl
  <2>. QED  BY <2>1, <2>2, WakeAllThin DEF Thin
<1>5. CASE Sem_Crt(x, n)
  <2> DEFINE u == [k EXCEPT !.num[x] = n, !.wait[x] = <<>>,
                            !.used = @ \cup {x}]
  <2>1. k' = Leave(u)  BY <1>5 DEF Sem_Crt
  <2>2. Alike(u, k)  BY <1>1 DEF Alike, Mem, Boot
  <2> HIDE DEF u
  <2>. QED  BY <1>2, <2>1, <2>2, AlikeKept
<1>6. CASE x \in Sem /\ Sem_Del(x)
  <2> DEFINE m == Len(k.wait[x])
             w == WakeAll(k, SubSeq(k.wait[x], 1, m))
             s == SetRetval(w, ToSet(k.wait[x]), "err")
             u == [s EXCEPT !.used = @ \ {x}]
  <2>1. k' = Leave(u)  BY <1>3, <1>6 DEF Sem_Del
  <2>2. Mem(w)  BY <1>3, <1>4, <1>6
  <2> HIDE DEF w
  <2>3. Alike(s, w)  BY <2>2, HelpersAlike
  <2> HIDE DEF s
  <2>4. Alike(u, w)  BY <2>3 DEF Alike, Mem, Boot
  <2> HIDE DEF u
  <2>. QED  BY <1>3, <1>6, <2>1, <2>4, PrefixKept DEF w
<1>7. CASE /\ x \in Sem /\ n \in Posts
           /\ Sem_Post(x, n) \/ Sem_Post_ISR(x, n)
  <2>1. n \in Word /\ k' = Leave(Serve(k, x, n))
    BY <1>7, WordLemma DEF Sem_Post, Sem_Post_ISR
  <2> DEFINE sum == (k.num[x] + n) % W
  <2>2. PICK m \in 0..Len(k.wait[x]) :
           Serve(k, x, n) = [WakeAll(k, SubSeq(k.wait[x], 1, m))
                             EXCEPT !.num[x] = sum - m]
    BY <1>1, <1>7, <2>1, ServePrefix
  <2> DEFINE w == WakeAll(k, SubSeq(k.wait[x], 1, m))
             u == [w EXCEPT !.num[x] = sum - m]
  <2>3. k' = Leave(u)  BY <2>1, <2>2
  <2>4. Mem(w)  BY <1>4, <1>7
  <2> HIDE DEF w, sum
  <2>5. Alike(u, w)  BY <2>4 DEF Alike, Mem, Boot
  <2> HIDE DEF u
  <2>. QED  BY <1>7, <2>3, <2>5, PrefixKept DEF w
<1>8. CASE x \in Sem /\ (Sem_Bcst(x) \/ Sem_Bcst_ISR(x))
  <2> DEFINE m == Len(k.wait[x])
             w == WakeAll(k, SubSeq(k.wait[x], 1, m))
  <2>1. k' = Leave(w)  BY <1>3, <1>8 DEF Sem_Bcst, Sem_Bcst_ISR
  <2>2. Mem(w)  BY <1>3, <1>4, <1>8
  <2>3. Alike(w, w)  BY <2>2 DEF Alike
  <2>. QED  BY <1>3, <1>8, <2>1, <2>3, PrefixKept
<1>9. CASE Sem_Abort(t)
  <2>1. /\ k' = Leave(SetRetval(Wake(k, t), {t}, "err"))
        /\ k.state[t] \in Blocked
    BY <1>9, StateFacts DEF Sem_Abort
  <2>. QED  BY <1>1, <2>1, AbortKept
<1>. QED  BY <1>5, <1>6, <1>7, <1>8, <1>9 DEF SemThins

\* A thread that blocks existed before.
LEMMA BlockKept ==
  ASSUME NEW s \in Kernel, s.state[s.cur] = "RUNNING", NEW n, NEW forever,
         NEW timed
  PROVE  Kept(Block(s, n, forever, timed), s)
<1> DEFINE u == Block(s, n, forever, timed)
           v == IF n < SliceMax THEN timed ELSE forever
<1>1. /\ u.state = [s.state EXCEPT ![s.cur] = v]
      /\ u.retval = [s.retval EXCEPT ![s.cur] = "ok"]
      /\ u.snd = s.snd /\ u.wait = s.wait /\ SameRest(u, s)
  BY BlockFields
<1>2. s.state \in [Thd -> ThdState]  BY DEF Kernel
<1> HIDE DEF u, v
<1>3. \A t \in Thd : u.state[t] # "FREE" => s.state[t] # "FREE"
  BY <1>1, <1>2
<1>4. Kept(u, s)  BY <1>1, <1>3 DEF Kept, SameRest
<1>. QED  BY <1>4 DEF u

\* Taking a semaphore, or waiting for one.
LEMMA PendKept ==
  ASSUME NEW s \in Kernel, s.state[s.cur] = "RUNNING", NEW x, NEW n
  PROVE  Kept(Pend_Core(s, x, n), s)
<1> DEFINE a == [s EXCEPT !.num[x] = @ - 1]
           b == Block(s, n, "SEMBLK", "SEMDLY")
           u == [b EXCEPT !.wait[x] = Append(@, s.cur)]
<1>1. \/ Pend_Core(s, x, n) = Leave(a) \/ Pend_Core(s, x, n) = Leave(s)
      \/ Pend_Core(s, x, n) = Leave(u)
  BY DEF Pend_Core
<1>2. Kept(s, s) /\ Mem(s)  BY KernelMem DEF Kept
<1>3. Alike(a, s) /\ Alike(s, s)  BY <1>2 DEF Alike, Mem, Boot
<1>4. Kept(b, s) /\ Mem(b)  BY BlockKept, BlockMem
<1> HIDE DEF a, b
<1>5. Alike(u, b)  BY <1>4 DEF Alike, Mem, Boot
<1> HIDE DEF u
<1>. QED  BY <1>1, <1>2, <1>3, <1>4, <1>5, AlikeKept

\* The calls that only lock, unlock, yield, suspend and resume.
LEMMA PlainKept ==
  ASSUME IInv, NEW t,
         \/ Sched_Lock \/ Sched_Unlock \/ Yield
         \/ Thd_Suspend(t) \/ Thd_Resume(t)
  PROVE  Kept(k', k)
<1>1. Mem(k)  BY SafeInner, KernelMem DEF IInv
<1>2. Kept(k, k)  BY DEF Kept
<1>3. CASE Sched_Lock \/ Sched_Unlock \/ Yield
  <2> DEFINE a == [k EXCEPT !.lock = @ + 1]
             b == [k EXCEPT !.lock = @ - 1]
             c == [k EXCEPT !.soft = 1]
             d == [k EXCEPT !.pend = 1]
  <2>1. k' = a \/ k' = Leave(b) \/ k' = c \/ k' = d
    BY <1>3 DEF Sched_Lock, Sched_Unlock, Yield
  <2>2. Alike(a, k) /\ Alike(b, k) /\ Alike(c, k) /\ Alike(d, k)
    BY <1>1 DEF Alike, Mem, Boot
  <2> HIDE DEF a, b, c, d
  <2>. QED  BY <1>2, <2>1, <2>2, AlikeKept
<1>4. CASE Thd_Suspend(t)
  <2> DEFINE off == IF k.state[t] = "RUNNING" THEN Run_Del(k, t) ELSE k
             u == [off EXCEPT !.susp = off.susp \cup {t}]
  <2>1. k' = Leave(u)  BY <1>4 DEF Thd_Suspend
  <2>2. Alike(off, k)  BY <1>1, HelpersAlike DEF Alike
  <2> HIDE DEF off
  <2>3. Alike(u, k)  BY <2>2 DEF Alike, Mem, Boot
  <2> HIDE DEF u
  <2>. QED  BY <1>2, <2>1, <2>3, AlikeKept
<1>5. CASE Thd_Resume(t)
  <2> DEFINE on == [k EXCEPT !.susp = k.susp \ {t}]
             u == IF k.state[t] = "RUNNING" THEN Run_Ins(on, t) ELSE on
  <2>1. k' = Leave(u)  BY <1>5 DEF Thd_Resume
  <2>2. Alike(on, k)  BY <1>1 DEF Alike, Mem, Boot
  <2> HIDE DEF on
  <2>3. Alike(u, on)  BY <2>2, HelpersAlike DEF Alike
  <2> HIDE DEF u
  <2>. QED  BY <1>2, <2>1, <2>2, <2>3, AlikeKept DEF Alike
<1>. QED  BY <1>3, <1>4, <1>5

\* A thread is created with a slice, and never set to have none.
LEMMA SlicesSliced ==
  ASSUME IInv, Sliced(k), NEW t \in Thd, NEW p, NEW n,
         Thd_Crt(t, p, n) \/ Thd_Set(t, p, n)
  PROVE  Sliced(k')
<1>1. k \in Kernel /\ Mem(k)  BY SafeInner, KernelMem DEF IInv
<1>2. /\ k.state \in [Thd -> ThdState] /\ k.slice \in [Thd -> Word]
      /\ k.left \in [Thd -> Word]
  BY <1>1 DEF Kernel
<1>3. CASE Thd_Crt(t, p, n)
  <2> DEFINE new == [k EXCEPT !.prio[t] = p, !.slice[t] = n, !.left[t] = n,
                              !.snd[t] = <<>>, !.state[t] = "RUNNING",
                              !.susp = @ \ {t}, !.full = @ \ {t}]
             u == Run_Ins(new, t)
  <2>1. n # 0 /\ k' = Leave(u)  BY <1>3 DEF Thd_Crt
  <2>2. /\ Mem(new) /\ new.state = [k.state EXCEPT ![t] = "RUNNING"]
        /\ new.slice = [k.slice EXCEPT ![t] = n]
        /\ new.left = [k.left EXCEPT ![t] = n]
    BY <1>1 DEF Mem, Boot
  <2> HIDE DEF new
  <2>3. Sliced(new)  BY <1>2, <2>1, <2>2 DEF Sliced
  <2>4. Alike(u, new)  BY <2>2, HelpersAlike
  <2> HIDE DEF u
  <2>5. Kept(new, new)  BY DEF Kept
  <2>. QED  BY <2>1, <2>3, <2>4, <2>5, AlikeKept, KeptSliced
<1>4. CASE Thd_Set(t, p, n)
  <2> DEFINE del == Run_Del(k, t)
             lower == [del EXCEPT !.prio[t] = p]
             back == Run_Ins(lower, t)
             same == [k EXCEPT !.prio[t] = p]
             set == IF p < PrioNum /\ p # k.prio[t]
                    THEN IF k.state[t] = "RUNNING" THEN back ELSE same
                    ELSE k
             u == [set EXCEPT !.slice[t] = IF n < SliceMax THEN n ELSE @]
  <2>1. n # 0 /\ k' = Leave(u)  BY <1>4 DEF Thd_Set
  <2>2. Alike(k, k) /\ Alike(del, k) /\ Alike(same, k)
    BY <1>1, HelpersAlike DEF Alike, Mem, Boot
  <2> HIDE DEF del, same
  <2>3. Alike(lower, k)  BY <2>2 DEF Alike, Mem, Boot
  <2> HIDE DEF lower
  <2>4. Alike(back, k)  BY <2>3, HelpersAlike DEF Alike
  <2> HIDE DEF back
  <2>5. Alike(set, k)  BY <2>2, <2>4
  <2> HIDE DEF set
  <2>6. /\ Mem(u) /\ u.state = k.state /\ u.left = k.left
        /\ u.slice = [k.slice EXCEPT ![t] = IF n < SliceMax THEN n ELSE @]
    BY <2>5 DEF Alike, Mem, Boot
  <2> HIDE DEF u
  <2>7. \A x \in Thd : u.slice[x] = n \/ u.slice[x] = k.slice[x]
    BY <1>2, <2>6
  <2>8. Sliced(u)  BY <2>1, <2>6, <2>7 DEF Sliced
  <2>9. Kept(u, u) /\ Alike(u, u)  BY <2>6 DEF Kept, Alike
  <2>. QED  BY <2>1, <2>8, <2>9, AlikeKept, KeptSliced
<1>. QED  BY <1>3, <1>4

\* No call leaves a thread without a slice.
LEMMA CallsSliced ==
  ASSUME IInv, Sliced(k), Calls \/ Signals
  PROVE  Sliced(k')
<1>1. k \in Kernel /\ KInv(k) /\ Idle \in Thd
  BY SafeInner, CoreAssumption DEF IInv
<1>2. User => k.state[k.cur] = "RUNNING"  BY UserRuns DEF IInv
<1>3. ASSUME NEW t, \/ Sched_Lock \/ Sched_Unlock \/ Yield
                    \/ Thd_Suspend(t) \/ Thd_Resume(t)
      PROVE  Sliced(k')
  BY <1>3, PlainKept, KeptSliced
<1>4. ASSUME NEW x, NEW n, NEW t \in Thd, SemThins(x, n, t)
      PROVE  Sliced(k')
  BY <1>4, SemKept, KeptSliced
<1>5. ASSUME NEW t \in Thd, Thd_Del(t)  PROVE Sliced(k')
  BY <1>5, DelKept, KeptSliced
<1>6. ASSUME NEW t \in Thd, Thd_Cancel(t)  PROVE Sliced(k')
  <2>1. /\ k' = Leave(SetRetval(Wake(k, t), {t}, "err"))
        /\ k.state[t] \in Blocked
    BY <1>6 DEF Thd_Cancel, Blocked
  <2>. QED  BY <1>1, <2>1, AbortKept, KeptSliced
<1>7. ASSUME NEW x, NEW n, Sem_Pend(x, n)  PROVE Sliced(k')
  <2>1. User /\ k' = Pend_Core(k, x, n)  BY <1>7 DEF Sem_Pend
  <2>. QED  BY <1>1, <1>2, <2>1, PendKept, KeptSliced
<1>8. ASSUME NEW x, NEW n, Sem_Pend_Unlock(x, n)  PROVE Sliced(k')
  <2> DEFINE s == [k EXCEPT !.lock = k.lock - 1]
  <2>1. /\ User /\ k.lock > 0
        /\ k' = Pend_Core(s, x, n) \/ k' = Leave(s)
    BY <1>8 DEF Sem_Pend_Unlock
  <2>2. k.lock - 1 \in 0..LockMax
    BY <1>1, <2>1, CoreAssumption DEF Kernel
  <2>3. s \in Kernel /\ s.cur = k.cur /\ s.state = k.state
        /\ s.slice = k.slice /\ s.left = k.left
    BY <1>1, <2>2 DEF Kernel
  <2> HIDE DEF s
  <2>4. Sliced(s) /\ Kept(s, s)  BY <2>3 DEF Sliced, Kept
  <2>5. Alike(s, s)  BY <2>3, KernelMem DEF Alike
  <2>6. Kept(Leave(s), s)  BY <2>4, <2>5, AlikeKept
  <2>7. Kept(Pend_Core(s, x, n), s)  BY <1>2, <2>1, <2>3, PendKept
  <2>. QED  BY <2>1, <2>4, <2>6, <2>7, KeptSliced
<1>9. CASE Signals
  <2>1. PICK x \in Sem : Sem_Bcst_ISR(x) \/ \E n \in Posts : Sem_Post_ISR(x, n)
    BY <1>9 DEF Signals
  <2>. QED  BY <1>1, <1>4, <2>1 DEF SemThins
<1>10. CASE Calls
  BY <1>1, <1>3, <1>4, <1>5, <1>6, <1>7, <1>8, <1>10, SlicesSliced
     DEF Calls, SemThins
<1>. QED  BY <1>9, <1>10

\* What the timer interrupt does: n slices later, some threads are awake.
LEMMA HandlerFields ==
  ASSUME NEW s, KInv(s), NEW n \in Word
  PROVE  LET e == Elapsed(s, n)
             u == Tim_Handler(s, n)
         IN  /\ e \in Kernel /\ KInv(e) /\ KInv(u) /\ u \in Kernel
             /\ e.delay = s.delay /\ e.timeout = s.timeout /\ e.state = s.state
             /\ e.now = (s.now + n) % W
             /\ Thin(u, e)
             /\ u.prio = s.prio /\ u.cur = s.cur /\ u.slice = s.slice
             /\ u.left = [s.left EXCEPT ![s.cur] = IF n >= @ THEN @ ELSE @ - n]
             /\ ToSet(Expired(e)) \subseteq InState(s, Timed)
             /\ u.state = [x \in Thd |-> IF x \in ToSet(Expired(e))
                                         THEN "RUNNING" ELSE s.state[x]]
<1> DEFINE e == Elapsed(s, n)
           ts == Expired(e)
           w == WakeAll(e, ts)
           V == {t \in ToSet(ts) : e.state[t] # "DELAYED"}
           u == Tim_Handler(s, n)
           l == [s.left EXCEPT ![s.cur] = IF n >= @ THEN @ ELSE @ - n]
<1>1. s \in Kernel /\ Mem(s)  BY KernelMem DEF KInv, Good
<1>2. /\ u = Tim_Proc(e) /\ KInv(e) /\ SameLists(e, s)
      /\ e.now = (s.now + n) % W /\ e.state = s.state
      /\ e.timeout = s.timeout
  BY ElapsedFields
<1>3. e.left = l /\ e.slice = s.slice  BY <1>1 DEF Elapsed, Mem, Boot
<1> HIDE DEF e, l
<1>4. e \in Kernel  BY <1>2 DEF KInv, Good
<1>5. /\ ts \in Seq(Thd) /\ \A x \in ToSet(ts) : x \in Thd /\ e.state[x] \in Timed
      /\ KInv(w) /\ Woken(w, e, ToSet(ts))
  BY <1>2, WakeExpired
<1>6. Thin(e, e)  BY <1>4, ThinRefl
<1>7. Thin(w, e)  BY <1>5, <1>6, WakeAllThin
<1>8. u = SetRetval(w, V, "err")  BY <1>2 DEF Tim_Proc
<1> HIDE DEF ts, w, u, V
<1>9. Thin(u, e)  BY <1>7, <1>8, QueueThin
<1>10. w \in Kernel  BY <1>5 DEF KInv, Good
<1>11. /\ u \in Kernel /\ SameLists(u, w) /\ SameRest(u, w)
       /\ u.state = w.state /\ u.pend = w.pend
  BY <1>8, <1>10, RetvalFields
<1>12. u.susp = w.susp /\ u.used = w.used  BY <1>11 DEF SameRest
<1>13. KInv(u)  BY <1>5, <1>11, <1>12, KInvSame
<1>14. /\ u.prio = s.prio /\ u.cur = s.cur /\ u.slice = s.slice
       /\ u.left = l
  BY <1>2, <1>3, <1>5, <1>11 DEF Woken, SameRest, SameLists
<1>15. u.state = [x \in Thd |-> IF x \in ToSet(ts) THEN "RUNNING"
                                                   ELSE s.state[x]]
  BY <1>2, <1>5, <1>11 DEF Woken
<1>16. ToSet(ts) \subseteq InState(s, Timed)  BY <1>2, <1>5 DEF InState
<1>17. e.delay = s.delay  BY <1>2 DEF SameLists
<1>. QED  BY <1>2, <1>4, <1>9, <1>11, <1>13, <1>14, <1>15, <1>16, <1>17
          DEF e, ts, u, l

\* What the context switch leaves alone, and that it is done then.
LEMMA SwitchSame ==
  ASSUME NEW s, Mem(s)
  PROVE  LET u == Run_High(s)
         IN  /\ u.state = s.state /\ u.slice = s.slice
             /\ u.left = [s.left EXCEPT ![s.cur] = s.slice[s.cur]]
             /\ u.delay = s.delay /\ u.timeout = s.timeout /\ u.now = s.now
             /\ u.prio = s.prio /\ u.pend = 0 /\ u.soft = 0
<1> DEFINE p == Max(s.bitmap)
           q == IF s.cur = Head(s.run[p])
                THEN Append(Tail(s.run[p]), s.cur) ELSE s.run[p]
           h == Head(q)
<1>1. Run_High(s) = [s EXCEPT !.pend = 0, !.soft = 0, !.run[p] = q,
                              !.left[s.cur] = s.slice[s.cur], !.cur = h]
  BY DEF Run_High
<1> HIDE DEF p, q, h
<1>. QED  BY <1>1 DEF Mem, Boot

\* The memory after the context switch of the tickless kernel.
LEMMA SwitchedFields ==
  ASSUME IInv, Clock, Switch_Hook
  PROVE  /\ KInv(k') /\ k' \in Kernel
         /\ k'.state = k.state /\ k'.slice = k.slice /\ k'.prio = k.prio
         /\ k'.left = [k.left EXCEPT ![k.cur] = k.slice[k.cur]]
         /\ k'.delay = k.delay /\ k'.timeout = k.timeout
         /\ k'.now = (k.now + Tim_Get) % W
         /\ k'.pend = 0 /\ tim' = Tim_Set(Tim_Future(k'))
<1> DEFINE u == Run_High(k)
<1>1. k \in Kernel /\ KInv(k) /\ Mem(k)  BY SafeInner, KernelMem DEF IInv
<1>2. k.lock = 0 /\ k' = Tim_Elapse(u, Tim_Get)
      /\ tim' = Tim_Set(Tim_Future(k'))
  BY DEF Switch_Hook, Interrupt
<1>3. KInv(u) /\ u \in Kernel  BY <1>1, <1>2, RunHigh, SafeInner
<1>4. Tim_Get \in Word  BY CountWord
<1>5. KInv(k')  BY <1>2, <1>3, <1>4, ElapseSafe
<1>6. /\ u.state = k.state /\ u.slice = k.slice
      /\ u.left = [k.left EXCEPT ![k.cur] = k.slice[k.cur]]
      /\ u.delay = k.delay /\ u.timeout = k.timeout /\ u.now = k.now
      /\ u.prio = k.prio /\ u.pend = 0
  BY <1>1, SwitchSame
<1> HIDE DEF u
<1>7. /\ k' \in Kernel /\ SameLists(k', u)
      /\ k'.now = (u.now + Tim_Get) % W /\ k'.timeout = u.timeout
      /\ k'.state = u.state /\ k'.slice = u.slice /\ k'.left = u.left
      /\ k'.pend = u.pend
  BY <1>2, <1>3, <1>4, ElapseFields
<1>. QED  BY <1>2, <1>5, <1>6, <1>7 DEF SameLists

\* Every step leaves everyone with a slice.
LEMMA TicklessSliced ==
  ASSUME IInv, Clock, Sliced(k), TicklessNext
  PROVE  Sliced(k')
<1>1. k \in Kernel /\ KInv(k) /\ Mem(k)  BY SafeInner, KernelMem DEF IInv
<1>2. /\ k.state \in [Thd -> ThdState] /\ k.left \in [Thd -> Word]
      /\ k.slice \in [Thd -> Word] /\ k.cur \in Thd
  BY <1>1 DEF Kernel
<1>3. tim.last \in Word  BY CountWord
<1>4. CASE Awake(Calls) \/ Rousing(Signals)
  BY <1>4, CallsSliced DEF Awake, Rousing
<1>5. CASE Pass \/ Init_Idle \/ Fall_Asleep
  BY <1>5 DEF Pass, Init_Idle, Fall_Asleep, vars
<1>6. CASE Timer_Handler
  <2> DEFINE n == tim.last
             u == Tim_Handler(k, n)
             T == ToSet(Expired(Elapsed(k, n)))
  <2>1. k' = Leave(u)  BY <1>6 DEF Timer_Handler
  <2>2. /\ u \in Kernel /\ u.slice = k.slice
        /\ u.left = [k.left EXCEPT ![k.cur] = IF n >= @ THEN @ ELSE @ - n]
        /\ T \subseteq InState(k, Timed)
        /\ u.state = [x \in Thd |-> IF x \in T THEN "RUNNING" ELSE k.state[x]]
    BY <1>1, <1>3, HandlerFields
  <2> HIDE DEF u, T
  <2>3. \A t \in Thd : u.state[t] # "FREE" => k.state[t] # "FREE"
    BY <2>2, StateFacts DEF InState
  <2>4. \A t \in Thd : k.left[t] # 0 => u.left[t] # 0
    BY <1>2, <1>3, <2>2, CoreAssumption DEF Word
  <2>5. Sliced(u)  BY <2>2, <2>3, <2>4 DEF Sliced
  <2>6. Alike(u, u) /\ Kept(u, u)  BY <2>2, KernelMem DEF Alike, Kept
  <2>. QED  BY <2>1, <2>5, <2>6, AlikeKept, KeptSliced
<1>7. CASE Switch_Hook
  <2>1. /\ k'.state = k.state /\ k'.slice = k.slice
        /\ k'.left = [k.left EXCEPT ![k.cur] = k.slice[k.cur]]
    BY <1>7, SwitchedFields
  <2>. QED  BY <1>2, <2>1 DEF Sliced
<1>8. ASSUME NEW s, NEW n, Begins(s, n)  PROVE Sliced(k')
  <2>1. /\ s \in Kernel /\ s.state = k.state /\ s.slice = k.slice
        /\ s.left = k.left /\ s.state[s.cur] = "RUNNING"
    BY <1>8, BeginsFields
  <2>2. Sliced(s)  BY <2>1 DEF Sliced
  <2>3. CASE k' = Leave(Block(s, n, "DELAYED", "DELAYED"))
    <3> DEFINE b == Block(s, n, "DELAYED", "DELAYED")
    <3>1. Kept(b, s) /\ Mem(b)  BY <2>1, BlockKept, BlockMem
    <3>2. Alike(b, b)  BY <3>1 DEF Alike
    <3> HIDE DEF b
    <3>3. Kept(Leave(b), s)  BY <3>1, <3>2, AlikeKept
    <3>. QED  BY <2>2, <2>3, <3>3, KeptSliced DEF b
  <2>4. ASSUME NEW x, k' = Pend_Core(s, x, n)  PROVE Sliced(k')
    <3>1. Kept(k', s)  BY <2>1, <2>4, PendKept
    <3>. QED  BY <2>2, <3>1, KeptSliced
  <2>. QED  BY <1>8, <2>3, <2>4 DEF Begins
<1>9. CASE Timing
  BY <1>5, <1>6, <1>7, <1>8, <1>9, TimingCases
<1>. QED  BY <1>4, <1>9 DEF TicklessNext

----------------------------------------------------------------------------
(* The timer.                                                              *)

\* A timed wait starts its timer, and a switch is on its way.
LEMMA BeginsStarts ==
  ASSUME IInv, Clock, NEW s, NEW n, Begins(s, n)
  PROVE  /\ Starts(k', s, n) /\ k'.pend = 1
         /\ s.cur \notin ToSet(s.delay)
         /\ k' \in Kernel /\ tim' = Tim_Off /\ sleep = "no" /\ sleep' = "no"
         /\ span' = [span EXCEPT ![s.cur] = [age |-> 0, asked |-> n]]
<1>1. /\ s \in Kernel /\ KInv(s) /\ s.state[s.cur] = "RUNNING"
      /\ s.cur = k.cur
  BY BeginsFields
<1>2. n \in Word /\ n # 0 /\ n < SliceMax  BY DEF Begins
<1>3. Starts(k', s, n)
  <2>1. CASE k' = Leave(Block(s, n, "DELAYED", "DELAYED"))
    <3>1. Starts(Block(s, n, "DELAYED", "DELAYED"), s, n)
      BY <1>1, <1>2, BlockStarts
    <3>2. Mem(Block(s, n, "DELAYED", "DELAYED"))  BY <1>1, BlockMem
    <3>. QED  BY <2>1, <3>1, <3>2, LeaveStarts
  <2>2. ASSUME NEW x, s.num[x] = 0, k' = Pend_Core(s, x, n)
        PROVE  Starts(k', s, n)
    BY <1>1, <1>2, <2>2, PendStarts
  <2>. QED  BY <2>1, <2>2 DEF Begins
<1>4. s.pend \in {0, 1} /\ s.cur \in Thd  BY <1>1 DEF Kernel
<1>5. s.pend = 0 => s.cur \notin s.susp
  BY <1>1 DEF KInv, Good, Highest, Ready
<1>6. k'.pend = 1  BY <1>3, <1>4, <1>5 DEF Starts
<1>7. s.cur \notin ToSet(s.delay)
  BY <1>1, StateFacts DEF KInv, Good, InState
<1>8. k' \in Kernel  BY BeginsSafe, SafeInner
<1>. QED  BY <1>1, <1>3, <1>6, <1>7, <1>8 DEF Begins, Dly_Hook

\* _RMP_Tim_Future looks no further than the first timeout, and no further
\* than what is left of the slice.
LEMMA FutureCovers ==
  ASSUME NEW s \in Kernel
  PROVE  LET n == Tim_Future(s)
         IN  /\ n \in Word
             /\ s.delay # <<>> => n <= Until(s, Head(s.delay))
             /\ s.left[s.cur] # 0 => n <= s.left[s.cur]
<1> DEFINE l == s.left[s.cur]
           h == Head(s.delay)
           d == Diff(s, h)
           f == Tim_Future(s)
<1>1. l \in Word  BY DEF Kernel
<1>2. 1 \in Word /\ \A m \in Word : m \in Nat /\ m <= m
  BY CoreAssumption DEF Word
<1>3. CASE s.delay = <<>>
  <2>1. f = l  BY <1>3 DEF Tim_Future
  <2> HIDE DEF l, f
  <2>. QED  BY <1>1, <1>2, <1>3, <2>1 DEF l, f
<1>4. CASE s.delay # <<>>
  <2>1. h \in Thd  BY <1>4 DEF Kernel
  <2>2. d \in Word  BY <2>1, DiffWord
  <2>3. Until(s, h) = IF Overflown(s, h) THEN 1 ELSE d  BY DEF Until
  <2>4. f = IF Overflown(s, h) THEN 1 ELSE Min({d, l})
    BY <1>4 DEF Tim_Future
  <2>5. Min({d, l}) \in {d, l} /\ \A m \in {d, l} : Min({d, l}) <= m
    <3>1. {d, l} \in SUBSET Nat /\ {d, l} # {}  BY <1>1, <1>2, <2>2
    <3> HIDE DEF d, l
    <3>. QED  BY <3>1, MinOfNats
  <2> DEFINE m == Min({d, l})
             o == Overflown(s, h)
             v == Until(s, h)
  <2>6. /\ m \in {d, l} /\ m <= d /\ m <= l
        /\ f = IF o THEN 1 ELSE m
        /\ v = IF o THEN 1 ELSE d
    BY <2>3, <2>4, <2>5
  <2> HIDE DEF f, m, o, v, d, l
  <2>7. f \in Word /\ f <= v /\ (l # 0 => f <= l)
    BY <1>1, <1>2, <2>2, <2>6, CoreAssumption DEF Word
  <2>. QED  BY <2>7 DEF f, v, l
<1>. QED  BY <1>3, <1>4

\* The timer counts up to what it was programmed with.
LEMMA TicklessClock ==
  ASSUME IInv, Clock, TicklessNext
  PROVE  Clock'
<1>1. KInv(k) /\ tim.last \in Word  BY SafeInner, CountWord DEF IInv
<1>2. 0 \in Word  BY CoreAssumption DEF Word
<1>3. tim' = tim => Clock'  BY DEF Clock
<1>4. tim' = Tim_Off => Clock'
  BY <1>2 DEF Tim_Off, Clock, Timer
<1>5. ASSUME NEW n \in Word, tim' = Tim_Set(n)  PROVE Clock'
  <2>1. (n = 0) \in BOOLEAN /\ 0 <= n  BY CoreAssumption DEF Word
  <2>. QED  BY <1>2, <1>5, <2>1 DEF Tim_Set, Clock, Timer
<1>6. CASE Pass
  <2>1. CASE ~tim.on \/ sleep = "LPM4"
    <3>1. tim' = tim  BY <1>6, <2>1 DEF Pass
    <3>. QED  BY <1>3, <3>1
  <2>2. CASE ~(~tim.on \/ sleep = "LPM4")
    <3> DEFINE a == IF tim.at = tim.last THEN 0 ELSE tim.at + 1
               f == tim.ifg \/ tim.at + 1 = tim.last
    <3>1. tim' = [tim EXCEPT !.at = a, !.ifg = f]  BY <1>6, <2>2 DEF Pass
    <3>2. tim \in Timer /\ tim.at <= tim.last  BY DEF Clock
    <3>3. /\ tim.at \in Word /\ tim.last \in Word /\ tim.ifg \in BOOLEAN
          /\ tim.on \in BOOLEAN
      BY <3>2 DEF Timer
    <3>4. a \in Word /\ a <= tim.last
      BY <3>2, <3>3, CoreAssumption DEF Word
    <3>5. f \in BOOLEAN  BY <3>3
    <3> HIDE DEF a, f
    <3>6. tim' \in Timer /\ tim'.at = a /\ tim'.last = tim.last
      BY <3>1, <3>2, <3>4, <3>5 DEF Timer
    <3>. QED  BY <3>4, <3>6 DEF Clock
  <2>. QED  BY <2>1, <2>2
<1>7. CASE Timer_Handler
  <2>1. Tim_Handler(k, tim.last) \in Kernel  BY <1>1, HandlerFields
  <2>2. Tim_Future(Tim_Handler(k, tim.last)) \in Word
    BY <2>1, FutureCovers
  <2>. QED  BY <1>4, <1>5, <1>7, <2>2 DEF Timer_Handler
<1>8. CASE Switch_Hook
  <2>1. k' \in Kernel /\ tim' = Tim_Set(Tim_Future(k'))
    BY <1>8, SwitchedFields
  <2>2. Tim_Future(k') \in Word  BY <2>1, FutureCovers
  <2>. QED  BY <1>5, <2>1, <2>2
<1>9. ASSUME NEW s, NEW n, Begins(s, n)  PROVE Clock'
  BY <1>4, <1>9, BeginsStarts
<1>10. CASE Init_Idle \/ Fall_Asleep
  BY <1>3, <1>10 DEF Init_Idle, Fall_Asleep
<1>11. CASE Timing
  BY <1>6, <1>7, <1>8, <1>9, <1>10, <1>11, TimingCases
<1>12. CASE Awake(Calls) \/ Rousing(Signals)
  BY <1>3, <1>12 DEF Awake, Rousing, tvars
<1>. QED  BY <1>11, <1>12 DEF TicklessNext

----------------------------------------------------------------------------
(* Clocks that are off.                                                    *)

\* From an empty list nothing can be taken.
LEMMA ThinEmpty ==
  ASSUME NEW s, NEW u, Thin(u, s), s.delay = <<>>
  PROVE  u.delay = <<>>
<1>1. u.delay \in Seq(Thd) /\ \A t \in Thd : t \notin ToSet(u.delay)
  <2>1. ToSet(<<>>) = {}  BY DEF ToSet
  <2>. QED  BY <2>1 DEF Thin
<1>2. ToSet(u.delay) \subseteq Thd  BY <1>1, ToSetLemma
<1>3. ToSet(u.delay) = {}  BY <1>1, <1>2
<1>. QED  BY <1>1, <1>3, EmptySet

\* Where a thread runs with the lock free no switch is pended or requested.
LEMMA UserSettled ==
  ASSUME IInv, User, k.lock = 0
  PROVE  Settled
<1>1. k.pend \in {0, 1} /\ k.soft = 0
  BY SafeInner DEF IInv, KInv, Good, Kernel, User
<1>2. k.pend = 1 => k.soft = 1  BY DEF IInv, Safe
<1>. QED  BY <1>1, <1>2 DEF Settled

\* What was true when the clocks stopped stays true: whatever changes the
\* kernel is an interrupt, which ends the sleep, or a call, which is made
\* awake.
LEMMA TicklessAsleep ==
  ASSUME IInv, Clock, Asleep, TicklessNext
  PROVE  Asleep'
<1>1. sleep' = "no" => Asleep'  BY DEF Asleep
<1>2. CASE Awake(Calls) \/ Rousing(Signals)
  BY <1>1, <1>2 DEF Awake, Rousing, Int_Load, tvars
<1>3. CASE Timer_Handler \/ Switch_Hook
  BY <1>1, <1>3 DEF Timer_Handler, Switch_Hook, Int_Load
<1>4. CASE Pass  BY <1>4 DEF Pass, vars, Asleep, Settled
<1>5. CASE Init_Idle
  <2>1. k' = k /\ k.cur = Idle /\ sleep' = IF Tim_Idle THEN "to LPM4" ELSE "to LPM3"
    BY <1>5 DEF Init_Idle, vars
  <2>2. Settled  BY <1>5, UserSettled DEF Init_Idle
  <2>. QED  BY <2>1, <2>2 DEF Asleep, Tim_Idle, Settled
<1>6. CASE Fall_Asleep
  BY <1>6 DEF Fall_Asleep, vars, Asleep, Settled
<1>7. ASSUME NEW s, NEW n, Begins(s, n)  PROVE Asleep'
  BY <1>1, <1>7, BeginsStarts
<1>8. CASE Timing
  BY <1>3, <1>4, <1>5, <1>6, <1>7, <1>8, TimingCases
<1>. QED  BY <1>2, <1>8 DEF TicklessNext

----------------------------------------------------------------------------
(* Real time.                                                              *)

\* Timers that are taken off the list need not be looked at.
LEMMA RealThin ==
  ASSUME NEW s, NEW u, NEW r, NEW g, Real(s, r, g), Thin(u, s)
  PROVE  Real(u, r, g)
<1>1. \A t \in Thd : t \in ToSet(u.delay) => t \in ToSet(s.delay)
  BY DEF Thin
<1>2. \A t : Diff(u, t) = Diff(s, t)  BY DEF Thin, Diff
<1>3. \A t, n : Waited(u, t, n) = Waited(s, t, n)  BY <1>2 DEF Waited
<1>. QED  BY <1>1, <1>3 DEF Real

\* Bringing the timestamp up to date does not make it run ahead.
LEMMA RealBump ==
  ASSUME NEW s \in Kernel, NEW u \in Kernel, NEW r, NEW g \in Word,
         Real(s, r, g), u.delay = s.delay, u.timeout = s.timeout,
         u.now = (s.now + g) % W
  PROVE  Real(u, r, 0)
<1> SUFFICES ASSUME NEW t \in Thd, t \in ToSet(s.delay), r[t].age # SliceMax
             PROVE  Waited(u, t, r[t].asked) + 0 <= r[t].age
  BY DEF Real
<1> DEFINE n == r[t].asked
           a == r[t].age
           d == Diff(s, t)
           e == Diff(u, t)
           v == Waited(s, t, n)
           w == Waited(u, t, n)
<1>1. r[t] \in [age : 0..SliceMax, asked : Word]  BY DEF Real
<1>2. n \in Word /\ a \in 0..SliceMax /\ v + g <= a  BY <1>1 DEF Real
<1>3. v = IF n >= d THEN n - d ELSE n - d + W  BY DEF Waited
<1>4. w = IF n >= e THEN n - e ELSE n - e + W  BY DEF Waited
<1>5. d \in Word  BY DiffWord
<1>6. e = IF d >= g THEN d - g ELSE d - g + W  BY DiffBump
<1> HIDE DEF n, a, d, e, v, w
<1>7. w + 0 <= a
  BY <1>2, <1>3, <1>4, <1>5, <1>6, CoreAssumption DEF Word
<1>. QED  BY <1>7 DEF w, a, n

\* A slice of real time makes everyone a slice older.
LEMMA RealPass ==
  ASSUME NEW s \in Kernel, NEW r, NEW g \in Word, NEW h \in Int, h <= g + 1,
         Real(s, r, g)
  PROVE  Real(s, [t \in Thd |-> [r[t] EXCEPT !.age = Min({@ + 1, SliceMax})]],
              h)
<1> DEFINE q == [t \in Thd |-> [r[t] EXCEPT !.age = Min({@ + 1, SliceMax})]]
<1>1. \A t \in Thd : r[t] \in [age : 0..SliceMax, asked : Word]  BY DEF Real
<1>2. ASSUME NEW t \in Thd
      PROVE  /\ q[t] \in [age : 0..SliceMax, asked : Word]
             /\ q[t].asked = r[t].asked
             /\ q[t].age = IF r[t].age = SliceMax THEN SliceMax
                           ELSE r[t].age + 1
  <2> DEFINE a == r[t].age
             m == Min({a + 1, SliceMax})
  <2>1. a \in 0..SliceMax /\ r[t].asked \in Word /\ r[t] \in [age : 0..SliceMax, asked : Word]
    BY <1>1
  <2>2. m \in {a + 1, SliceMax} /\ m <= a + 1 /\ m <= SliceMax
    <3>1. {a + 1, SliceMax} \in SUBSET Nat /\ {a + 1, SliceMax} # {}
      BY <2>1, CoreAssumption
    <3> HIDE DEF a
    <3>. QED  BY <3>1, MinOfNats
  <2>3. q[t] = [r[t] EXCEPT !.age = m]  OBVIOUS
  <2> HIDE DEF a, m, q
  <2>4. m \in 0..SliceMax /\ m = IF a = SliceMax THEN SliceMax ELSE a + 1
    BY <2>1, <2>2, CoreAssumption
  <2>5. q[t] \in [age : 0..SliceMax, asked : Word] /\ q[t].asked = r[t].asked
        /\ q[t].age = m
    BY <2>1, <2>3, <2>4
  <2>. QED  BY <2>4, <2>5 DEF a
<1>3. q \in [Thd -> [age : 0..SliceMax, asked : Word]]  BY <1>2
<1> HIDE DEF q
<1>4. ASSUME NEW t \in Thd, t \in ToSet(s.delay)
      PROVE  /\ q[t].asked \in 1..(SliceMax - 1)
             /\ q[t].age = SliceMax \/ Waited(s, t, q[t].asked) + h <= q[t].age
  <2> DEFINE n == r[t].asked
             a == r[t].age
             b == q[t].age
             d == Diff(s, t)
             v == Waited(s, t, n)
  <2>1. n \in 1..(SliceMax - 1) /\ (a = SliceMax \/ v + g <= a)
    BY <1>4 DEF Real
  <2>2. n \in Word /\ a \in 0..SliceMax  BY <1>1
  <2>3. d \in Word  BY DiffWord
  <2>4. v = IF n >= d THEN n - d ELSE n - d + W  BY DEF Waited
  <2>5. q[t].asked = n /\ b = IF a = SliceMax THEN SliceMax ELSE a + 1
    BY <1>2
  <2> HIDE DEF n, a, b, d, v
  <2>6. b = SliceMax \/ v + h <= b
    BY <2>1, <2>2, <2>3, <2>4, <2>5, CoreAssumption DEF Word
  <2>. QED  BY <2>1, <2>5, <2>6 DEF v, b
<1>5. Real(s, q, h)  BY <1>3, <1>4 DEF Real
<1>. QED  BY <1>5 DEF q

\* A wait that begins is not old.
LEMMA RealStarts ==
  ASSUME NEW s \in Kernel, NEW u, NEW r, Real(s, r, 0),
         NEW n \in Word, n # 0, n < SliceMax, Starts(u, s, n)
  PROVE  Real(u, [r EXCEPT ![s.cur] = [age |-> 0, asked |-> n]], 0)
<1> DEFINE c == s.cur
           q == [r EXCEPT ![s.cur] = [age |-> 0, asked |-> n]]
<1>1. /\ ToSet(u.delay) = ToSet(s.delay) \cup {c}
      /\ \A t \in Thd : t # c => u.timeout[t] = s.timeout[t]
      /\ Diff(u, c) = n
  BY StartsList
<1>2. c \in Thd /\ n \in 1..(SliceMax - 1) /\ 0 \in 0..SliceMax
  BY CoreAssumption DEF Kernel, Word
<1>3. r \in [Thd -> [age : 0..SliceMax, asked : Word]]  BY DEF Real
<1>4. /\ q \in [Thd -> [age : 0..SliceMax, asked : Word]]
      /\ q[c] = [age |-> 0, asked |-> n]
      /\ \A t \in Thd : t # c => q[t] = r[t]
  BY <1>2, <1>3
<1> HIDE DEF q, c
<1>5. ASSUME NEW t \in Thd, t \in ToSet(u.delay)
      PROVE  /\ q[t].asked \in 1..(SliceMax - 1)
             /\ q[t].age = SliceMax \/ Waited(u, t, q[t].asked) + 0 <= q[t].age
  <2>1. CASE t = c
    <3>1. Waited(u, c, n) = n - n  BY <1>1, <1>2 DEF Waited
    <3>2. q[t].asked = n /\ q[t].age = 0  BY <1>4, <2>1
    <3>. QED  BY <1>2, <2>1, <3>1, <3>2
  <2>2. CASE t # c
    <3>1. t \in ToSet(s.delay) /\ q[t] = r[t]  BY <1>1, <1>4, <1>5, <2>2
    <3>2. u.timeout[t] = s.timeout[t] /\ u.now = s.now
      BY <1>1, <2>2 DEF Starts
    <3>3. Diff(u, t) = Diff(s, t)  BY <3>2 DEF Diff
    <3>4. Waited(u, t, q[t].asked) = Waited(s, t, r[t].asked)
      BY <3>1, <3>3 DEF Waited
    <3>. QED  BY <3>1, <3>4 DEF Real
  <2>. QED  BY <2>1, <2>2
<1>6. Real(u, q, 0)  BY <1>4, <1>5 DEF Real
<1>. QED  BY <1>6 DEF q, c

\* A timer that is programmed anew has counted nothing.
LEMMA SetNothing ==
  ASSUME (tim' = Tim_Off) \/ \E n : tim' = Tim_Set(n)
  PROVE  Tim_Get' = 0
<1>1. CASE tim' = Tim_Off
  BY <1>1 DEF Tim_Get, Tim_Off
<1>2. ASSUME NEW n, tim' = Tim_Set(n)  PROVE Tim_Get' = 0
  BY <1>2 DEF Tim_Get, Tim_Set
<1>. QED  BY <1>1, <1>2

\* The timer counts at most one slice in a slice of real time.
LEMMA PassCounts ==
  ASSUME Clock, Pass
  PROVE  Tim_Get' \in Int /\ Tim_Get' <= Tim_Get + 1
<1> DEFINE on == ~(~tim.on \/ sleep = "LPM4")
           a == IF tim.at = tim.last THEN 0 ELSE tim.at + 1
           f == tim.ifg \/ tim.at + 1 = tim.last
<1>1. /\ tim \in Timer /\ tim.at \in Word /\ tim.last \in Word
      /\ tim.at <= tim.last
  BY DEF Clock, Timer
<1>2. tim' = IF on THEN [tim EXCEPT !.at = a, !.ifg = f] ELSE tim
  BY DEF Pass
<1>3. Tim_Get \in Int  BY <1>1, CountWord, CoreAssumption DEF Word
<1>4. CASE ~on
  <2>1. Tim_Get' = Tim_Get  BY <1>2, <1>4 DEF Tim_Get
  <2>. QED  BY <1>3, <2>1
<1>5. CASE on
  <2>1. /\ tim'.at = a /\ tim'.ifg = f /\ tim'.last = tim.last
    BY <1>1, <1>2, <1>5 DEF Timer
  <2>2. Tim_Get' = IF f THEN tim.last ELSE a  BY <2>1 DEF Tim_Get
  <2>3. CASE tim.ifg
    <3>1. Tim_Get' = tim.last /\ Tim_Get = tim.last
      BY <2>2, <2>3 DEF Tim_Get
    <3>. QED  BY <1>3, <3>1
  <2>4. CASE ~tim.ifg
    <3>1. Tim_Get = tim.at  BY <2>4 DEF Tim_Get
    <3> DEFINE g == Tim_Get'
               x == tim.at
               y == tim.last
    <3>2. g = IF x + 1 = y THEN y ELSE IF x = y THEN 0 ELSE x + 1
      BY <2>2, <2>4
    <3> HIDE DEF g
    <3>3. g \in Int /\ g <= x + 1
      BY <1>1, <3>2, CoreAssumption DEF Word
    <3>. QED  BY <3>1, <3>3 DEF g
  <2>. QED  BY <2>3, <2>4
<1>. QED  BY <1>4, <1>5

\* The time of the kernel never runs ahead of real time.
LEMMA TicklessAged ==
  ASSUME IInv, Clock, Aged, TicklessNext
  PROVE  Aged'
<1>1. k \in Kernel /\ KInv(k)  BY SafeInner DEF IInv
<1>2. Tim_Get \in Word  BY CountWord
<1>3. Real(k, span, Tim_Get)  BY DEF Aged
<1>4. ASSUME Thin(k', k), UNCHANGED <<tim, span>>  PROVE Aged'
  <2>1. span' = span /\ Tim_Get' = Tim_Get  BY <1>4 DEF Tim_Get
  <2>2. Real(k', span, Tim_Get)  BY <1>3, <1>4, RealThin
  <2>. QED  BY <2>1, <2>2 DEF Aged
<1>5. CASE Awake(Calls) \/ Rousing(Signals)
  BY <1>4, <1>5, CallsThin, SignalsThin DEF Awake, Rousing, tvars
<1>6. CASE Init_Idle \/ Fall_Asleep
  <2>1. k' = k /\ span' = span /\ tim' = tim
    BY <1>6 DEF Init_Idle, Fall_Asleep, vars
  <2>2. Tim_Get' = Tim_Get  BY <2>1 DEF Tim_Get
  <2>. QED  BY <1>3, <2>1, <2>2 DEF Aged
<1>7. CASE Pass
  <2> DEFINE q == [t \in Thd |->
                     [span[t] EXCEPT !.age = Min({@ + 1, SliceMax})]]
  <2>1. k' = k /\ span' = q  BY <1>7 DEF Pass, vars
  <2> DEFINE h == Tim_Get'
  <2>2. h \in Int /\ h <= Tim_Get + 1  BY <1>7, PassCounts
  <2> HIDE DEF h
  <2>3. Real(k, q, h)  BY <1>1, <1>2, <1>3, <2>2, RealPass
  <2> HIDE DEF q
  <2>. QED  BY <2>1, <2>3 DEF Aged, h
<1>8. CASE Timer_Handler
  <2> DEFINE n == tim.last
             e == Elapsed(k, n)
             u == Tim_Handler(k, n)
  <2>1. tim.ifg /\ k' = Leave(u) /\ span' = span
        /\ (tim' = Tim_Off \/ tim' = Tim_Set(Tim_Future(u)))
    BY <1>8 DEF Timer_Handler
  <2>2. n = Tim_Get /\ n \in Word  BY <2>1, CountWord
  <2>3. /\ e \in Kernel /\ e.delay = k.delay /\ e.timeout = k.timeout
        /\ e.now = (k.now + n) % W /\ Thin(u, e)
    <3>1. KInv(k) /\ n \in Word  BY <1>1, <2>2
    <3>2. e \in Kernel /\ e.delay = k.delay /\ Thin(u, e)
      BY <3>1, HandlerFields
    <3>3. e.now = (k.now + n) % W /\ e.timeout = k.timeout
      BY <3>1, ElapsedFields
    <3> HIDE DEF e
    <3>. QED  BY <3>2, <3>3
  <2> HIDE DEF e, u, n
  <2>4. Real(e, span, 0)  BY <1>1, <1>2, <1>3, <2>2, <2>3, RealBump
  <2>5. Thin(Leave(u), e)  BY <2>3, QueueThin
  <2>6. Real(k', span, 0)  BY <2>1, <2>4, <2>5, RealThin
  <2>7. Tim_Get' = 0  BY <2>1, SetNothing
  <2>. QED  BY <2>1, <2>6, <2>7 DEF Aged
<1>9. CASE Switch_Hook
  <2>1. /\ k' \in Kernel /\ k'.delay = k.delay /\ k'.timeout = k.timeout
        /\ k'.now = (k.now + Tim_Get) % W /\ tim' = Tim_Set(Tim_Future(k'))
    BY <1>9, SwitchedFields
  <2>2. Real(k', span, 0)  BY <1>1, <1>2, <1>3, <2>1, RealBump
  <2>3. Tim_Get' = 0  BY <2>1, SetNothing
  <2>4. span' = span  BY <1>9 DEF Switch_Hook
  <2>. QED  BY <2>2, <2>3, <2>4 DEF Aged
<1>10. ASSUME NEW s, NEW n, Begins(s, n)  PROVE Aged'
  <2>1. /\ s \in Kernel /\ SameLists(s, k) /\ s.timeout = k.timeout
        /\ s.now = (k.now + Tim_Get) % W
    BY <1>10, BeginsFields
  <2>2. s.delay = k.delay  BY <2>1 DEF SameLists
  <2>3. Real(s, span, 0)  BY <1>1, <1>2, <1>3, <2>1, <2>2, RealBump
  <2>4. n \in Word /\ n # 0 /\ n < SliceMax  BY <1>10 DEF Begins
  <2>5. /\ Starts(k', s, n) /\ tim' = Tim_Off
        /\ span' = [span EXCEPT ![s.cur] = [age |-> 0, asked |-> n]]
    BY <1>10, BeginsStarts
  <2>6. Real(k', span', 0)  BY <2>1, <2>3, <2>4, <2>5, RealStarts
  <2>7. Tim_Get' = 0  BY <2>5, SetNothing
  <2>. QED  BY <2>6, <2>7 DEF Aged
<1>11. CASE Timing
  BY <1>6, <1>7, <1>8, <1>9, <1>10, <1>11, TimingCases
<1>. QED  BY <1>5, <1>11 DEF TicklessNext

----------------------------------------------------------------------------
(* What needs nothing of the environment.                                  *)

\* When the kernel starts the timer is off and nobody waits.
LEMMA InitReal == TicklessInit => RealInv
<1> SUFFICES ASSUME TicklessInit  PROVE RealInv
  OBVIOUS
<1>1. Init /\ k = Boot /\ tim = Tim_Off /\ sleep = "no"
      /\ span = [t \in Thd |-> [age |-> 0, asked |-> 0]]
  BY DEF TicklessInit, Init
<1>2. IInv  BY <1>1, InitSafe
<1>3. 0 \in Word /\ 0 \in 0..SliceMax /\ IdleSlice # 0
  BY CoreAssumption DEF Word
<1>4. Sliced(k)  BY <1>1, <1>3 DEF Sliced, Boot
<1>5. Clock  BY <1>1, <1>3 DEF Clock, Timer, Tim_Off
<1>6. Asleep  BY <1>1 DEF Asleep
<1>7. Aged
  <2>1. k.delay = <<>> /\ ToSet(<<>>) = {}  BY <1>1 DEF Boot, ToSet
  <2>2. span \in [Thd -> [age : 0..SliceMax, asked : Word]]  BY <1>1, <1>3
  <2>. QED  BY <2>1, <2>2 DEF Aged, Real
<1>. QED  BY <1>2, <1>4, <1>5, <1>6, <1>7 DEF RealInv

\* Every step keeps it.
LEMMA RealStep == RealInv /\ [TicklessNext]_<<vars, tvars>> => RealInv'
<1>1. RealInv /\ TicklessNext => RealInv'
  <2> SUFFICES ASSUME RealInv, TicklessNext  PROVE RealInv'
    OBVIOUS
  <2>1. IInv /\ Sliced(k) /\ Clock /\ Asleep /\ Aged  BY DEF RealInv
  <2>2. IInv' /\ Sliced(k') /\ Clock' /\ Asleep' /\ Aged'
    BY <2>1, TicklessSafe, TicklessSliced, TicklessClock, TicklessAsleep,
       TicklessAged
  <2>. QED  BY <2>2 DEF RealInv
<1>2. RealInv /\ UNCHANGED <<vars, tvars>> => RealInv'
  <2> SUFFICES ASSUME RealInv, UNCHANGED <<vars, tvars>>  PROVE RealInv'
    OBVIOUS
  <2>1. k' = k /\ rcv' = rcv /\ got' = got /\ tim' = tim /\ sleep' = sleep
        /\ span' = span
    BY DEF vars, tvars
  <2>2. IInv' /\ Sliced(k') /\ Asleep' /\ Clock'
    BY <2>1 DEF RealInv, IInv, Asleep, Settled, Clock
  <2>3. Aged'  BY <2>1 DEF RealInv, Aged, Tim_Get
  <2>. QED  BY <2>2, <2>3 DEF RealInv
<1>. QED  BY <1>1, <1>2

\* Every reachable state of the tickless kernel satisfies RealInv.
THEOREM RealInvariance == TicklessSpec => []RealInv
BY InitReal, RealStep, PTL DEF TicklessSpec

\* All clocks are off only if there is nothing to time: no timer is pending,
\* no switch is on its way, and no thread but the initial one is ready.
THEOREM IdleCorrect == TicklessSpec => []IdleSafe
<1>1. RealInv => IdleSafe
  <2> SUFFICES ASSUME RealInv, sleep = "LPM4"
               PROVE  /\ k.delay = <<>> /\ Settled
                      /\ \A p \in Prio : k.run[p] = IF p = 0 THEN <<Idle>> ELSE <<>>
    BY DEF IdleSafe
  <2>1. k.cur = Idle /\ Settled /\ k.run[0] = <<Idle>> /\ k.delay = <<>>
    BY DEF RealInv, Asleep
  <2>2. Highest(k, Ready(k)) /\ Queued(k, Ready(k)) /\ k \in Kernel
    BY SafeInner DEF RealInv, IInv, KInv, Good
  <2>3. k.prio[Idle] = 0
    <3>1. 0 \in Prio  BY CoreAssumption DEF Prio
    <3>2. ToSet(k.run[0]) = {t \in Ready(k) : k.prio[t] = 0}
      BY <2>2, <3>1 DEF Queued
    <3>3. Idle \in ToSet(<<Idle>>)  BY DEF ToSet
    <3>. QED  BY <2>1, <3>2, <3>3
  <2>4. ASSUME NEW p \in Prio, p # 0  PROVE k.run[p] = <<>>
    <3>1. p \in k.bitmap => p <= 0  BY <2>1, <2>2, <2>3 DEF Settled, Highest
    <3>2. p \notin k.bitmap  BY <2>4, <3>1, CoreAssumption DEF Prio
    <3>. QED  BY <2>2, <3>2 DEF Queued
  <2>. QED  BY <2>1, <2>4
<1>. QED  BY <1>1, RealInvariance, PTL

\* The threads the handler wakes are those whose timers are overflown.
LEMMA ExpiredOverflown ==
  ASSUME NEW s \in Kernel, NEW t, t \in ToSet(Expired(s))
  PROVE  t \in ToSet(s.delay) /\ t \in Thd /\ Overflown(s, t)
<1> DEFINE q == s.delay
<1>1. q \in Seq(Thd) /\ Len(q) \in Nat  BY DEF Kernel
<1>2. PICK m \in 0..Len(q) :
         /\ Expired(s) = SubSeq(q, 1, m)
         /\ \A i \in 1..m : Overflown(s, q[i])
  BY <1>1, ExpiredPrefix
<1> DEFINE r == SubSeq(q, 1, m)
<1>3. r \in Seq(Thd) /\ Len(r) = m /\ \A i \in 1..m : r[i] = q[i]
  BY <1>1
<1>4. PICK i \in 1..Len(r) : r[i] = t
  <2>1. t \in ToSet(r)  BY <1>2
  <2> HIDE DEF r
  <2>. QED  BY <1>3, <2>1, ToSetLemma
<1>5. i \in 1..m /\ i \in 1..Len(q) /\ q[i] = t  BY <1>1, <1>3, <1>4
<1>. QED  BY <1>1, <1>2, <1>5, ToSetLemma

\* A timer that is overflown was started as long ago as was asked for.
LEMMA OverflownWaited ==
  ASSUME NEW s \in Kernel, NEW t \in Thd, NEW n \in 1..(SliceMax - 1),
         Overflown(s, t)
  PROVE  Waited(s, t, n) \in Int /\ Waited(s, t, n) >= n
<1> DEFINE d == Diff(s, t)
           v == Waited(s, t, n)
<1>1. d \in Word /\ (d = 0 \/ d > (W - 1) \div 2)
  BY DiffWord DEF Overflown
<1>2. v = IF n >= d THEN n - d ELSE n - d + W  BY DEF Waited
<1> HIDE DEF d, v
<1>3. v \in Int /\ v >= n  BY <1>1, <1>2, CoreAssumption DEF Word
<1>. QED  BY <1>3 DEF v

\* No wait with a timeout is ended by the timer before that many slices have
\* really passed, however often the timestamp was brought up to date between.
THEOREM EarlyCorrect == TicklessSpec => NotEarly
<1> DEFINE Early(t) == Timer_Handler /\ k.state[t] \in Timed
                         /\ k'.state[t] = "RUNNING"
           Late(t) == span[t].age >= span[t].asked
<1>1. RealInv => \A t \in Thd : Early(t) => Late(t)
  <2> SUFFICES ASSUME RealInv, NEW t \in Thd, Early(t)  PROVE Late(t)
    OBVIOUS
  <2> DEFINE n == tim.last
             e == Elapsed(k, n)
             u == Tim_Handler(k, n)
  <2>1. k \in Kernel /\ KInv(k) /\ Clock /\ Real(k, span, Tim_Get)
    BY SafeInner DEF RealInv, IInv, Aged
  <2>2. tim.ifg /\ k' = Leave(u) /\ k.state[t] \in Timed
        /\ k'.state[t] = "RUNNING"
    BY DEF Timer_Handler
  <2>3. n = Tim_Get /\ n \in Word /\ Tim_Get \in Word
    BY <2>1, <2>2, CountWord
  <2>4. /\ e \in Kernel /\ e.delay = k.delay /\ e.timeout = k.timeout
        /\ e.now = (k.now + n) % W /\ u \in Kernel
        /\ u.state = [x \in Thd |-> IF x \in ToSet(Expired(e))
                                    THEN "RUNNING" ELSE k.state[x]]
    <3>1. KInv(k) /\ n \in Word  BY <2>1, <2>3
    <3>2. /\ e \in Kernel /\ e.delay = k.delay /\ u \in Kernel
          /\ u.state = [x \in Thd |-> IF x \in ToSet(Expired(e))
                                      THEN "RUNNING" ELSE k.state[x]]
      BY <3>1, HandlerFields
    <3>3. e.now = (k.now + n) % W /\ e.timeout = k.timeout
      BY <3>1, ElapsedFields
    <3> HIDE DEF e
    <3>. QED  BY <3>2, <3>3
  <2> HIDE DEF e, u, n
  <2>5. Leave(u).state = u.state  BY <2>4 DEF Leave, Kernel
  <2>6. t \in ToSet(Expired(e))
    BY <2>2, <2>4, <2>5, StateFacts
  <2>7. t \in ToSet(e.delay) /\ Overflown(e, t)
    BY <2>4, <2>6, ExpiredOverflown
  <2>8. Real(e, span, 0)  BY <2>1, <2>3, <2>4, RealBump
  <2> DEFINE a == span[t].asked
             b == span[t].age
             v == Waited(e, t, a)
  <2>9. /\ a \in 1..(SliceMax - 1) /\ (b = SliceMax \/ v + 0 <= b)
        /\ b \in 0..SliceMax
    BY <2>7, <2>8 DEF Real
  <2>10. v \in Int /\ v >= a  BY <2>4, <2>7, <2>9, OverflownWaited
  <2> HIDE DEF a, b, v
  <2>11. b >= a  BY <2>9, <2>10, CoreAssumption
  <2>. QED  BY <2>11 DEF a, b
<1>2. RealInv /\ [TicklessNext]_<<vars, tvars>> =>
         \A t \in Thd : Early(t) => Late(t)
  BY <1>1
<1> HIDE DEF Early, Late
<1>3. TicklessSpec => [][\A t \in Thd : Early(t) => Late(t)]_<<vars, tvars>>
  BY <1>1, RealInvariance, PTL DEF TicklessSpec
<1>. QED  BY <1>3 DEF NotEarly, Early, Late

----------------------------------------------------------------------------
(* A timer that is served in time.                                         *)

\* A list with an element is not empty, and its head is on it.
LEMMA HeadOnList ==
  ASSUME NEW q \in Seq(Thd)
  PROVE  /\ \A t \in ToSet(q) : q # <<>> /\ t \in Thd
         /\ q # <<>> => /\ Head(q) \in Thd /\ Head(q) \in ToSet(q)
                        /\ \A t \in ToSet(q) : t = Head(q) \/ Before(q, Head(q), t)
<1>1. ASSUME NEW t \in ToSet(q)
      PROVE  \E i \in 1..Len(q) : q[i] = t
  BY ToSetLemma
<1>2. \A t \in ToSet(q) : q # <<>> /\ t \in Thd
  BY <1>1
<1>3. ASSUME q # <<>>
      PROVE  /\ Head(q) \in Thd /\ Head(q) \in ToSet(q)
             /\ \A t \in ToSet(q) : t = Head(q) \/ Before(q, Head(q), t)
  <2>1. Len(q) \in Nat /\ 1 \in 1..Len(q) /\ Head(q) = q[1]  BY <1>3
  <2>2. q[1] \in Thd /\ q[1] \in ToSet(q)  BY <2>1, ToSetLemma
  <2>3. ASSUME NEW t \in ToSet(q)  PROVE t = q[1] \/ Before(q, q[1], t)
    <3>1. PICK i \in 1..Len(q) : q[i] = t  BY <1>1
    <3>2. i = 1 \/ 1 < i  BY <2>1
    <3>. QED  BY <2>1, <3>1, <3>2 DEF Before
  <2>. QED  BY <2>1, <2>2, <2>3
<1>. QED  BY <1>2, <1>3

\* The order of the list survives a bump of the timestamp if no timer is long
\* overdue and the bump is no longer than the timer was programmed for.
LEMMA LagsBump ==
  ASSUME NEW s \in Kernel, NEW u \in Kernel, Lags(s), NEW n \in Word,
         \A t \in Thd : t \in ToSet(s.delay) => Lag(s, t) <= LagMax,
         s.delay # <<>> => n < SliceMax,
         u.delay = s.delay, u.timeout = s.timeout, u.now = (s.now + n) % W
  PROVE  Lags(u)
<1>1. s.delay \in Seq(Thd)  BY DEF Kernel
<1>2. ASSUME NEW t \in Thd, t \in ToSet(s.delay)
      PROVE  /\ Lag(s, t) \in Int /\ Lag(u, t) \in Far
             /\ Lag(u, t) = Lag(s, t) + n
  <2> DEFINE l == Lag(s, t)
  <2>1. l \in Far /\ l <= LagMax  BY <1>2 DEF Lags
  <2>2. n < SliceMax  BY <1>1, <1>2, HeadOnList
  <2> HIDE DEF l
  <2>3. l \in Int /\ l + n \in Far
    BY <2>1, <2>2, CoreAssumption, TicklessAssumption DEF Far, Word
  <2>4. Lag(u, t) = l + n  BY <2>1, <2>3, LagBump DEF l
  <2>. QED  BY <2>3, <2>4 DEF l
<1>3. ASSUME NEW a \in Thd, NEW b \in Thd, Before(u.delay, a, b)
      PROVE  Lag(u, a) >= Lag(u, b)
  <2>1. a \in ToSet(s.delay) /\ b \in ToSet(s.delay)
    BY <1>1, <1>3, ToSetLemma DEF Before
  <2>2. Lag(s, a) >= Lag(s, b)  BY <1>3 DEF Lags
  <2> DEFINE la == Lag(s, a)
             lb == Lag(s, b)
             ma == Lag(u, a)
             mb == Lag(u, b)
  <2>3. la \in Int /\ lb \in Int /\ ma = la + n /\ mb = lb + n /\ la >= lb
    BY <1>2, <2>1, <2>2
  <2> HIDE DEF la, lb, ma, mb
  <2>4. ma >= mb  BY <2>3, CoreAssumption DEF Word
  <2>. QED  BY <2>4 DEF ma, mb
<1>. QED  BY <1>2, <1>3 DEF Lags

\* When a timer wants the handler to run, in terms of its lag.
LEMMA UntilLag ==
  ASSUME NEW s \in Kernel, NEW t \in Thd, Lag(s, t) \in Far
  PROVE  /\ Until(s, t) \in Int
         /\ Until(s, t) = IF Lag(s, t) >= 0 THEN 1 ELSE -Lag(s, t)
         /\ Until(s, t) = 1 \/ Until(s, t) < SliceMax
<1> DEFINE d == Diff(s, t)
           l == Lag(s, t)
           v == Until(s, t)
           o == Overflown(s, t)
<1>1. /\ d \in Word /\ (o <=> l >= 0)
      /\ l = IF d = 0 THEN 0 ELSE IF d > (W - 1) \div 2 THEN W - d ELSE -d
  BY LagOf
<1>2. v = IF o THEN 1 ELSE d  BY DEF Until
<1>3. l \in Far  OBVIOUS
<1> HIDE DEF d, l, v, o
<1>4. /\ v \in Int /\ v = (IF l >= 0 THEN 1 ELSE -l)
      /\ v = 1 \/ v < SliceMax
  BY <1>1, <1>2, <1>3, CoreAssumption, TicklessAssumption DEF Word, Far
<1>. QED  BY <1>4 DEF v, l

\* Taking timers off the list does not bring the first timeout nearer.
LEMMA ThinHead ==
  ASSUME NEW s \in Kernel, NEW u \in Kernel, Lags(s), Thin(u, s),
         u.delay # <<>>
  PROVE  /\ s.delay # <<>>
         /\ Until(s, Head(s.delay)) \in Int
         /\ Until(s, Head(s.delay)) <= Until(u, Head(u.delay))
<1> DEFINE h == Head(s.delay)
           g == Head(u.delay)
<1>1. s.delay \in Seq(Thd) /\ u.delay \in Seq(Thd)  BY DEF Kernel
<1>2. g \in Thd /\ g \in ToSet(u.delay)  BY <1>1, HeadOnList
<1>3. g \in ToSet(s.delay)  BY <1>2 DEF Thin
<1>4. s.delay # <<>>  BY <1>1, <1>3, HeadOnList
<1>5. /\ h \in Thd /\ h \in ToSet(s.delay)
      /\ g = h \/ Before(s.delay, h, g)
  BY <1>1, <1>3, <1>4, HeadOnList
<1>6. Until(u, g) = Until(s, g)
  <2>1. Diff(u, g) = Diff(s, g)  BY DEF Thin, Diff
  <2>2. Overflown(u, g) <=> Overflown(s, g)  BY <2>1 DEF Overflown
  <2>. QED  BY <2>1, <2>2 DEF Until
<1> HIDE DEF h, g
<1>7. Lag(s, h) \in Far /\ Lag(s, g) \in Far
      /\ (g = h \/ Lag(s, h) >= Lag(s, g))
  BY <1>2, <1>3, <1>5 DEF Lags
<1> DEFINE lh == Lag(s, h)
           lg == Lag(s, g)
           vh == Until(s, h)
           vg == Until(s, g)
<1>8. /\ vh \in Int /\ vh = IF lh >= 0 THEN 1 ELSE -lh
      /\ vg \in Int /\ vg = IF lg >= 0 THEN 1 ELSE -lg
  BY <1>2, <1>5, <1>7, UntilLag
<1>9. lh \in Far /\ lg \in Far /\ (vg = vh \/ lh >= lg)  BY <1>7
<1> HIDE DEF lh, lg, vh, vg
<1>10. vh <= vg
  BY <1>8, <1>9, CoreAssumption, TicklessAssumption DEF Far
<1>. QED  BY <1>4, <1>6, <1>8, <1>10 DEF vh, vg, h, g

\* Once the timer is programmed by what lies ahead, it comes in time.
LEMMA Programmed ==
  ASSUME KInv(k'), Sliced(k'), Lags(k'), tim' = Tim_Set(Tim_Future(k')),
         k'.delay # <<>> => 1 < SliceMax
  PROVE  Brief' /\ Covers'
<1> DEFINE f == Tim_Future(k')
           h == Head(k'.delay)
           l == k'.left[k'.cur]
<1>1. k' \in Kernel  BY DEF KInv, Good
<1>2. f \in Word /\ (k'.delay # <<>> => f <= Until(k', h)) /\ (l # 0 => f <= l)
  BY <1>1, FutureCovers
<1>3. tim'.on /\ tim'.last = f  BY DEF Tim_Set
<1>4. ASSUME k'.delay # <<>>  PROVE Until(k', h) \in Int /\ Until(k', h) < SliceMax
  <2>1. k'.delay \in Seq(Thd)  BY <1>1 DEF Kernel
  <2>2. h \in Thd /\ h \in ToSet(k'.delay)  BY <1>4, <2>1, HeadOnList
  <2>3. Lag(k', h) \in Far  BY <2>2 DEF Lags
  <2>4. 1 < SliceMax  BY <1>4
  <2>. QED  BY <1>1, <2>2, <2>3, <2>4, UntilLag
<1>5. k'.pend = 0 => l # 0
  <2>1. SUFFICES ASSUME k'.pend = 0  PROVE l # 0
    OBVIOUS
  <2>2. k'.cur \in Thd /\ k'.state[k'.cur] = "RUNNING"
    BY <1>1, <2>1 DEF KInv, Good, Highest, Ready
  <2>. QED  BY <2>2 DEF Sliced
<1>6. k'.delay # <<>> => f < SliceMax
  <2> DEFINE v == Until(k', h)
  <2>1. k'.delay # <<>> => f <= v /\ v \in Int /\ v < SliceMax
    BY <1>2, <1>4
  <2> HIDE DEF f, v
  <2>. QED  BY <1>2, <2>1, CoreAssumption DEF Word
<1> HIDE DEF f
<1>7. Brief'  BY <1>3, <1>6 DEF Brief
<1>8. Covers'  BY <1>2, <1>3, <1>5 DEF Covers, Settled
<1>. QED  BY <1>7, <1>8

\* A step that neither moves the timestamp nor touches the timer.
LEMMA ThinTimed ==
  ASSUME k \in Kernel, k' \in Kernel, Lags(k), Brief, Covers,
         Thin(k', k), tim'.on = tim.on, tim'.last = tim.last, Clock
  PROVE  Lags(k') /\ Brief' /\ Covers'
<1>1. Lags(k')  BY ThinLags
<1>2. k'.delay # <<>> =>
         /\ k.delay # <<>>
         /\ Until(k, Head(k.delay)) \in Int
         /\ Until(k, Head(k.delay)) <= Until(k', Head(k'.delay))
  BY ThinHead
<1>3. Brief'  BY <1>2 DEF Brief
<1>4. Settled' => Settled
  <2>1. k.pend \in {0, 1} /\ k.soft \in {0, 1}  BY DEF Kernel
  <2>. QED  BY <2>1 DEF Settled, Thin, Calm
<1>5. k'.cur = k.cur /\ k'.left[k'.cur] = k.left[k.cur]
  BY DEF Thin, Calm
<1> DEFINE v == Until(k, Head(k.delay))
           w == Until(k', Head(k'.delay))
           n == tim.last
<1>6. ASSUME Settled', k'.delay # <<>>  PROVE tim.on /\ n <= w
  <2>1. tim.on /\ n <= v /\ v \in Int /\ v <= w
    BY <1>2, <1>4, <1>6 DEF Covers
  <2>2. n \in Word  BY CountWord
  <2>3. w \in Int
    <3>1. k'.delay \in Seq(Thd)  BY DEF Kernel
    <3>2. Head(k'.delay) \in Thd /\ Head(k'.delay) \in ToSet(k'.delay)
      BY <1>6, <3>1, HeadOnList
    <3>3. Lag(k', Head(k'.delay)) \in Far  BY <1>1, <3>2 DEF Lags
    <3>. QED  BY <3>2, <3>3, UntilLag
  <2> HIDE DEF v, w, n
  <2>. QED  BY <2>1, <2>2, <2>3, CoreAssumption DEF Word
<1>7. Covers'
  BY <1>4, <1>5, <1>6 DEF Covers
<1>. QED  BY <1>1, <1>3, <1>7

\* What the timer has counted is less than a call can ask for.
LEMMA CountBrief ==
  ASSUME Clock, Brief, k.delay # <<>>
  PROVE  Tim_Get < SliceMax /\ tim.last < SliceMax /\ 1 < SliceMax
<1>1. /\ Tim_Get \in Word /\ tim.last \in Word /\ Tim_Get <= tim.last
      /\ tim.last < SliceMax /\ 1 < SliceMax
  BY CountWord DEF Brief
<1>2. Tim_Get < SliceMax  BY <1>1, CoreAssumption DEF Word
<1>. QED  BY <1>1, <1>2

\* As long as the timer interrupt is punctual, the delay list stays in order
\* and the timer comes in time.
LEMMA TicklessTimed ==
  ASSUME TicklessInv, Punctual, TicklessNext
  PROVE  Lags(k') /\ Brief' /\ Covers'
<1>1. /\ IInv /\ Clock /\ Sliced(k) /\ Lags(k) /\ Brief /\ Covers
      /\ RealInv
  BY DEF TicklessInv, RealInv
<1>2. k \in Kernel /\ KInv(k)  BY <1>1, SafeInner DEF IInv
<1>3. RealInv'  BY <1>1, RealStep
<1>4. k' \in Kernel /\ KInv(k') /\ Sliced(k')
  BY <1>3, SafeInner DEF RealInv, IInv
<1>5. \A t \in Thd : t \in ToSet(k.delay) => Lag(k, t) <= LagMax
  BY DEF Punctual
<1>6. Tim_Get \in Word /\ tim.last \in Word  BY <1>1, CountWord
<1>7. k.delay # <<>> => Tim_Get < SliceMax /\ tim.last < SliceMax /\ 1 < SliceMax
  BY <1>1, CountBrief
<1>8. CASE Awake(Calls) \/ Rousing(Signals)
  <2>1. Thin(k', k)  BY <1>1, <1>8, CallsThin, SignalsThin DEF Awake, Rousing
  <2>2. tim' = tim  BY <1>8 DEF Awake, Rousing, tvars
  <2>. QED  BY <1>1, <1>2, <1>4, <2>1, <2>2, ThinTimed
<1>9. CASE Pass \/ Init_Idle \/ Fall_Asleep
  <2>1. k' = k  BY <1>9 DEF Pass, Init_Idle, Fall_Asleep, vars
  <2>2. tim'.on = tim.on /\ tim'.last = tim.last
    <3>1. tim \in Timer  BY <1>1 DEF Clock
    <3>2. CASE Init_Idle \/ Fall_Asleep  BY <3>2 DEF Init_Idle, Fall_Asleep
    <3>3. CASE Pass
      <4> DEFINE a == IF tim.at = tim.last THEN 0 ELSE tim.at + 1
                 f == tim.ifg \/ tim.at + 1 = tim.last
      <4>1. tim' = tim \/ tim' = [tim EXCEPT !.at = a, !.ifg = f]
        BY <3>3 DEF Pass
      <4> HIDE DEF a, f
      <4>. QED  BY <3>1, <4>1 DEF Timer
    <3>. QED  BY <1>9, <3>2, <3>3
  <2>3. Thin(k', k)  BY <1>2, <2>1, ThinRefl
  <2>. QED  BY <1>1, <1>2, <1>4, <2>2, <2>3, ThinTimed
<1>10. CASE Timer_Handler
  <2> DEFINE n == tim.last
             e == Elapsed(k, n)
             u == Tim_Handler(k, n)
  <2>1. /\ k' = Leave(u)
        /\ tim' = IF u.pend = 1 THEN Tim_Off ELSE Tim_Set(Tim_Future(u))
    BY <1>10 DEF Timer_Handler
  <2>2. /\ e \in Kernel /\ u \in Kernel /\ e.delay = k.delay /\ e.timeout = k.timeout
        /\ e.now = (k.now + n) % W /\ Thin(u, e)
    <3>1. KInv(k) /\ n \in Word  BY <1>2, <1>6
    <3>2. e \in Kernel /\ u \in Kernel /\ e.delay = k.delay /\ Thin(u, e)
      BY <3>1, HandlerFields
    <3>3. e.now = (k.now + n) % W /\ e.timeout = k.timeout
      BY <3>1, ElapsedFields
    <3> HIDE DEF e
    <3>. QED  BY <3>2, <3>3
  <2>3. n \in Word /\ (k.delay # <<>> => n < SliceMax)  BY <1>6, <1>7
  <2> HIDE DEF e, u, n
  <2>4. Lags(e)  BY <1>1, <1>2, <1>5, <2>2, <2>3, LagsBump
  <2>5. Thin(Leave(u), e)  BY <2>2, QueueThin
  <2>6. Lags(k')  BY <2>1, <2>4, <2>5, ThinLags
  <2>7. k'.delay # <<>> => 1 < SliceMax
    <3>1. k.delay = <<>> => k'.delay = <<>>  BY <2>1, <2>2, <2>5, ThinEmpty
    <3>. QED  BY <1>7, <3>1
  <2>8. CASE u.pend = 1
    <3>1. k'.pend = 1  BY <2>1, <2>2, <2>8 DEF Leave, Kernel
    <3>2. Covers'  BY <3>1 DEF Covers, Settled
    <3>3. tim' = Tim_Off  BY <2>1, <2>8
    <3>4. tim'.last = 0 /\ (1 < SliceMax => 0 < SliceMax)
      BY <3>3, CoreAssumption DEF Tim_Off
    <3>5. Brief'  BY <2>7, <3>4 DEF Brief
    <3>. QED  BY <2>6, <3>2, <3>5
  <2>9. CASE u.pend # 1
    <3>1. k' = u  BY <2>1, <2>9 DEF Leave
    <3>2. tim' = Tim_Set(Tim_Future(k'))  BY <2>1, <2>9, <3>1
    <3>. QED  BY <1>4, <2>6, <2>7, <3>2, Programmed
  <2>. QED  BY <2>8, <2>9
<1>11. CASE Switch_Hook
  <2>1. /\ k'.delay = k.delay /\ k'.timeout = k.timeout
        /\ k'.now = (k.now + Tim_Get) % W
        /\ tim' = Tim_Set(Tim_Future(k'))
    BY <1>1, <1>11, SwitchedFields
  <2>2. Lags(k')  BY <1>1, <1>2, <1>4, <1>5, <1>6, <1>7, <2>1, LagsBump
  <2>. QED  BY <1>4, <1>7, <2>1, <2>2, Programmed
<1>12. ASSUME NEW s, NEW n, Begins(s, n)
       PROVE  Lags(k') /\ Brief' /\ Covers'
  <2>1. /\ s \in Kernel /\ SameLists(s, k) /\ s.timeout = k.timeout
        /\ s.now = (k.now + Tim_Get) % W
    BY <1>1, <1>12, BeginsFields
  <2>2. s.delay = k.delay  BY <2>1 DEF SameLists
  <2>3. Lags(s)  BY <1>1, <1>2, <1>5, <1>6, <1>7, <2>1, <2>2, LagsBump
  <2>4. /\ Starts(k', s, n) /\ k'.pend = 1 /\ s.cur \notin ToSet(s.delay)
        /\ tim' = Tim_Off
    BY <1>1, <1>12, BeginsStarts
  <2>5. n \in Word /\ n # 0 /\ n < SliceMax  BY <1>12 DEF Begins
  <2>6. Lags(k')  BY <1>4, <2>1, <2>3, <2>4, <2>5, StartsLags
  <2>7. Covers'  BY <2>4 DEF Covers, Settled
  <2>8. 1 < SliceMax /\ 0 < SliceMax  BY <2>5, CoreAssumption DEF Word
  <2>9. Brief'  BY <2>4, <2>8 DEF Brief, Tim_Off
  <2>. QED  BY <2>6, <2>7, <2>9
<1>13. CASE Timing
  BY <1>1, <1>9, <1>10, <1>11, <1>12, <1>13, TimingCases
<1>. QED  BY <1>8, <1>13 DEF TicklessNext

\* When the kernel starts there is nothing to time.
LEMMA InitTimed == TicklessInit => TicklessInv
<1> SUFFICES ASSUME TicklessInit  PROVE TicklessInv
  OBVIOUS
<1>1. k = Boot /\ RealInv  BY InitReal DEF TicklessInit, Init
<1>2. k.delay = <<>> /\ k.cur = Idle  BY <1>1 DEF Boot
<1>3. Brief /\ Covers  BY <1>2 DEF Brief, Covers
<1>4. Lags(k)
  <2>1. ToSet(<<>>) = {} /\ \A a, b : ~Before(<<>>, a, b)
    BY DEF ToSet, Before
  <2>. QED  BY <1>2, <2>1 DEF Lags
<1>. QED  BY <1>1, <1>3, <1>4 DEF TicklessInv

\* Every step of a kernel with a punctual timer keeps the invariant.
LEMMA TimedStep ==
  TicklessInv /\ Punctual /\ [TicklessNext]_<<vars, tvars>> => TicklessInv'
<1>1. TicklessInv => RealInv  BY DEF TicklessInv
<1>2. TicklessInv /\ Punctual /\ TicklessNext => TicklessInv'
  BY <1>1, RealStep, TicklessTimed DEF TicklessInv
<1>3. TicklessInv /\ UNCHANGED <<vars, tvars>> => TicklessInv'
  <2> SUFFICES ASSUME TicklessInv, UNCHANGED <<vars, tvars>>
               PROVE  TicklessInv'
    OBVIOUS
  <2>1. k' = k /\ tim' = tim  BY DEF vars, tvars
  <2>2. RealInv'  BY <1>1, RealStep
  <2>3. Lags(k') /\ Brief' /\ Covers'
    BY <2>1 DEF TicklessInv, Brief, Covers, Settled
  <2>. QED  BY <2>2, <2>3 DEF TicklessInv
<1>. QED  BY <1>2, <1>3

\* As long as the timer interrupt is punctual, every state of the tickless
\* kernel satisfies TicklessInv.
THEOREM TicklessInvariance == TicklessSpec /\ []Punctual => []TicklessInv
BY InitTimed, TimedStep, PTL DEF TicklessSpec

\* The delay list stays sorted by timeout although the timestamp is carried
\* past timers by switches and delays, if it is not carried too far.
THEOREM SortedCorrect == TicklessSpec /\ []Punctual => []DelaySorted
<1>1. TicklessInv => DelaySorted
  <2> SUFFICES ASSUME TicklessInv, NEW m \in DOMAIN k.delay,
                      NEW n \in DOMAIN k.delay, m < n
               PROVE  Lag(k, k.delay[m]) >= Lag(k, k.delay[n])
    BY DEF DelaySorted
  <2>1. k \in Kernel  BY SafeInner DEF TicklessInv, RealInv, IInv
  <2>2. k.delay \in Seq(Thd) /\ DOMAIN k.delay = 1..Len(k.delay)
    BY <2>1 DEF Kernel
  <2>3. k.delay[m] \in Thd /\ k.delay[n] \in Thd  BY <2>2
  <2>4. Before(k.delay, k.delay[m], k.delay[n])  BY <2>2 DEF Before
  <2>. QED  BY <2>3, <2>4 DEF TicklessInv, Lags
<1>. QED  BY <1>1, TicklessInvariance, PTL

\* Unless a switch is on its way the timer runs and ends in time for the first
\* timeout and for the end of the slice.
THEOREM CoversCorrect == TicklessSpec /\ []Punctual => []TimerCovers
<1>1. TicklessInv => TimerCovers
  <2> SUFFICES ASSUME TicklessInv  PROVE TimerCovers
    OBVIOUS
  <2>1. Covers /\ Asleep  BY DEF TicklessInv, RealInv
  <2>2. k.delay # <<>> => sleep # "LPM4"  BY <2>1 DEF Asleep
  <2>. QED  BY <2>1, <2>2 DEF TimerCovers, Covers, Until
<1>. QED  BY <1>1, TicklessInvariance, PTL
==============================================================================
