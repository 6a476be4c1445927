--------------------------- MODULE RmpMailProofs ---------------------------
(***************************************************************************)
(* The mailboxes implement a queue of mails per thread: every step of the  *)
(* kernel is a step of AbsMail.  The word of a control block holds the     *)
(* mail a thread received or the mail it is sending, so this needs the     *)
(* roles apart: a thread that waits to send is sent no mail.               *)
(*                                                                         *)
(* Most steps change no mail, or take waiting senders off the lists        *)
(* without a change of order; these withdraw mails at most.  Sending,      *)
(* receiving and deleting a thread remain.                                 *)
(***************************************************************************)
EXTENDS RmpKernelProofs

\* r is q without some of its members.
Part(r, q) ==
    \E f \in [1..Len(r) -> 1..Len(q)] :
       /\ \A n \in 1..Len(r) : r[n] = q[f[n]]
       /\ \A m, n \in 1..Len(r) : m < n => f[m] < f[n]

\* A list is part of itself.
LEMMA PartRefl ==
  ASSUME NEW T, NEW q \in Seq(T)
  PROVE  Part(q, q)
<1> DEFINE f == [n \in 1..Len(q) |-> n]
<1>1. f \in [1..Len(q) -> 1..Len(q)]  OBVIOUS
<1>2. /\ \A n \in 1..Len(q) : q[n] = q[f[n]]
      /\ \A m, n \in 1..Len(q) : m < n => f[m] < f[n]
  OBVIOUS
<1>. QED  BY <1>1, <1>2 DEF Part

\* And part of whatever a list it is part of is part of.
LEMMA PartTrans ==
  ASSUME NEW T, NEW p \in Seq(T), NEW q \in Seq(T), NEW r \in Seq(T),
         Part(r, q), Part(q, p)
  PROVE  Part(r, p)
<1>1. PICK f \in [1..Len(r) -> 1..Len(q)] :
         /\ \A n \in 1..Len(r) : r[n] = q[f[n]]
         /\ \A m, n \in 1..Len(r) : m < n => f[m] < f[n]
  BY DEF Part
<1>2. PICK g \in [1..Len(q) -> 1..Len(p)] :
         /\ \A n \in 1..Len(q) : q[n] = p[g[n]]
         /\ \A m, n \in 1..Len(q) : m < n => g[m] < g[n]
  BY DEF Part
<1> DEFINE h == [n \in 1..Len(r) |-> g[f[n]]]
<1>3. h \in [1..Len(r) -> 1..Len(p)]  OBVIOUS
<1>4. /\ \A n \in 1..Len(r) : r[n] = p[h[n]]
      /\ \A m, n \in 1..Len(r) : m < n => h[m] < h[n]
  BY <1>1, <1>2
<1>. QED  BY <1>3, <1>4 DEF Part

\* RMP_List_Del leaves a part of the list.
LEMMA RemovePart ==
  ASSUME NEW T, NEW q \in Seq(T), NEW t
  PROVE  RemoveFirst(q, t) \in Seq(T) /\ Part(RemoveFirst(q, t), q)
<1>1. CASE \A i \in 1..Len(q) : q[i] # t
  <2>1. RemoveFirst(q, t) = q  BY <1>1 DEF RemoveFirst
  <2>. QED  BY <2>1, PartRefl
<1>2. CASE \E i \in 1..Len(q) : q[i] = t
  <2> DEFINE I == {i \in 1..Len(q) : q[i] = t}
             m == Min(I)
             r == RemoveAt(q, m)
             f == [i \in 1..Len(r) |-> IF i < m THEN i ELSE i + 1]
  <2>1. m \in 1..Len(q)
    <3>1. I \in SUBSET Nat /\ I # {}  BY <1>2
    <3>2. m \in I  BY <3>1, MinOfNats
    <3>. QED  BY <3>2
  <2>2. RemoveFirst(q, t) = r
    BY <1>2 DEF RemoveFirst, SelectInSeq
  <2> HIDE DEF m
  <2>3. /\ r \in Seq(T) /\ Len(r) = Len(q) - 1
        /\ \A i \in 1..(Len(q) - 1) : r[i] = IF i < m THEN q[i] ELSE q[i + 1]
    BY <2>1, RemoveAtLemma
  <2> HIDE DEF r
  <2>4. f \in [1..Len(r) -> 1..Len(q)]  BY <2>1, <2>3
  <2>5. /\ \A n \in 1..Len(r) : r[n] = q[f[n]]
        /\ \A i, j \in 1..Len(r) : i < j => f[i] < f[j]
    BY <2>1, <2>3
  <2> HIDE DEF f
  <2>. QED  BY <2>2, <2>3, <2>4, <2>5 DEF Part
<1>. QED  BY <1>1, <1>2

\* RMP_List_Del of the first thread of a list leaves the others.
LEMMA RemoveHead ==
  ASSUME NEW T, NEW q \in Seq(T), q # <<>>
  PROVE  RemoveFirst(q, Head(q)) = Tail(q)
<1> DEFINE I == {i \in 1..Len(q) : q[i] = q[1]}
           m == Min(I)
           r == RemoveAt(q, m)
<1>1. 1 \in 1..Len(q) /\ Head(q) = q[1]  OBVIOUS
<1>2. m = 1
  <2>1. I \in SUBSET Nat /\ 1 \in I  BY <1>1
  <2>2. m \in I /\ m <= 1  BY <2>1, MinOfNats
  <2>. QED  BY <2>2
<1>3. RemoveFirst(q, Head(q)) = r
  BY <1>1 DEF RemoveFirst, SelectInSeq
<1>4. /\ r \in Seq(T) /\ Len(r) = Len(q) - 1
      /\ \A i \in 1..(Len(q) - 1) : r[i] = IF i < m THEN q[i] ELSE q[i + 1]
  <2>1. m \in 1..Len(q)  BY <1>1, <1>2
  <2> HIDE DEF m
  <2>. QED  BY <2>1, RemoveAtLemma
<1> HIDE DEF r, m
<1>5. Tail(q) \in Seq(T) /\ Len(Tail(q)) = Len(q) - 1
      /\ \A i \in 1..(Len(q) - 1) : Tail(q)[i] = q[i + 1]
  BY <1>1
<1>6. \A i \in 1..Len(r) : r[i] = Tail(q)[i]  BY <1>2, <1>4, <1>5
<1>7. r = Tail(q)  BY <1>4, <1>5, <1>6, SeqEqual
<1>. QED  BY <1>3, <1>7

\* A thread that is not on a list is not taken off it.
LEMMA RemoveNone ==
  ASSUME NEW T, NEW q \in Seq(T), NEW t, t \notin ToSet(q)
  PROVE  RemoveFirst(q, t) = q
<1>1. \A i \in 1..Len(q) : q[i] # t  BY ToSetLemma
<1>. QED  BY <1>1 DEF RemoveFirst

----------------------------------------------------------------------------
(* Steps that only take senders off the lists.                             *)

\* u is s after a step that concerns no mail.
Mute(u, s) ==
    /\ Mem(u) /\ u.state = s.state
    /\ u.mailbox = s.mailbox /\ u.full = s.full /\ u.snd = s.snd

\* u is s after some senders were taken off the lists: no mail is written,
\* none arrives, the others keep their order and nobody begins to send.
Fewer(u, s) ==
    /\ Mem(u) /\ DOMAIN u.state = Thd
    /\ u.mailbox = s.mailbox /\ u.full = s.full
    /\ u.snd \in [Thd -> Seq(Thd)] /\ s.snd \in [Thd -> Seq(Thd)]
    /\ \A r \in Thd : Part(u.snd[r], s.snd[r])
    /\ \A t \in Thd : u.state[t] \in Sending => s.state[t] \in Sending

\* Nothing taken off is a special case.
LEMMA FewerRefl == \A s \in Kernel : Fewer(s, s)
<1> SUFFICES ASSUME NEW s \in Kernel  PROVE Fewer(s, s)
  OBVIOUS
<1>1. Mem(s) /\ s.snd \in [Thd -> Seq(Thd)] /\ DOMAIN s.state = Thd
  BY KernelMem DEF Kernel
<1>2. \A r \in Thd : Part(s.snd[r], s.snd[r])  BY <1>1, PartRefl
<1>. QED  BY <1>1, <1>2 DEF Fewer

\* A step that concerns no mail, after others.
LEMMA MuteFewer ==
  ASSUME NEW z, NEW s, NEW u, Fewer(s, z), Mute(u, s)
  PROVE  Fewer(u, z)
BY DEF Fewer, Mute

\* The run queues, the return values and the switch concern no mail.
LEMMA QueueMute ==
  ASSUME NEW s, Mem(s), NEW t, NEW T, NEW r
  PROVE  /\ Mute(Run_Ins(s, t), s) /\ Mute(Run_Del(s, t), s)
         /\ Mute(Leave(s), s) /\ Mute(SetRetval(s, T, r), s)
BY DEF Mute, Run_Ins, Run_Del, Leave, SetRetval, Mem, Boot

\* The same after other steps.
LEMMA QueueFewer ==
  ASSUME NEW z, NEW s, Fewer(s, z), NEW t, NEW T, NEW r
  PROVE  /\ Fewer(Run_Ins(s, t), z) /\ Fewer(Run_Del(s, t), z)
         /\ Fewer(Leave(s), z) /\ Fewer(SetRetval(s, T, r), z)
<1>1. Mem(s)  BY DEF Fewer
<1>. QED  BY <1>1, QueueMute, MuteFewer

\* A change of state to one that is not sending.
LEMMA StateFewer ==
  ASSUME NEW z, NEW s, Fewer(s, z), NEW t, NEW v, v \notin Sending
  PROVE  Fewer([s EXCEPT !.state[t] = v], z)
<1> DEFINE u == [s EXCEPT !.state[t] = v]
<1>1. /\ Mem(u) /\ u.state = [s.state EXCEPT ![t] = v]
      /\ u.mailbox = s.mailbox /\ u.full = s.full /\ u.snd = s.snd
  BY DEF Fewer, Mem, Boot
<1> HIDE DEF u
<1>2. DOMAIN u.state = Thd /\ \A x \in Thd :
         u.state[x] = v \/ u.state[x] = s.state[x]
  BY <1>1 DEF Fewer
<1>3. Fewer(u, z)  BY <1>1, <1>2 DEF Fewer
<1>. QED  BY <1>3 DEF u

\* A thread that stops waiting leaves the sender lists.
LEMMA UnlinkFewer ==
  ASSUME NEW z, NEW s, Fewer(s, z), z.snd \in [Thd -> Seq(Thd)], NEW t
  PROVE  Fewer(Unlink(s, t), z)
<1> DEFINE u == Unlink(s, t)
<1>1. /\ Mem(u) /\ u.state = s.state
      /\ u.mailbox = s.mailbox /\ u.full = s.full
      /\ \/ u.snd = s.snd
         \/ u.snd = [r \in Thd |-> RemoveFirst(s.snd[r], t)]
  BY DEF Unlink, Fewer, Mem, Boot
<1> HIDE DEF u
<1>2. CASE u.snd = s.snd
  <2>1. Fewer(u, z)  BY <1>1, <1>2 DEF Fewer
  <2>. QED  BY <2>1 DEF u
<1>3. CASE u.snd = [r \in Thd |-> RemoveFirst(s.snd[r], t)]
  <2>1. \A r \in Thd : /\ s.snd[r] \in Seq(Thd) /\ z.snd[r] \in Seq(Thd)
                       /\ Part(s.snd[r], z.snd[r])
    BY DEF Fewer
  <2>2. \A r \in Thd : u.snd[r] \in Seq(Thd) /\ Part(u.snd[r], s.snd[r])
    BY <1>3, <2>1, RemovePart
  <2>3. \A r \in Thd : Part(u.snd[r], z.snd[r])
    BY <2>1, <2>2, PartTrans
  <2>4. u.snd \in [Thd -> Seq(Thd)]  BY <1>3, <2>2
  <2>5. Fewer(u, z)  BY <1>1, <2>3, <2>4 DEF Fewer
  <2>. QED  BY <2>5 DEF u
<1>. QED  BY <1>1, <1>2, <1>3

\* So does one that is woken.
LEMMA WakeFewer ==
  ASSUME NEW z, NEW s, Fewer(s, z), NEW t
  PROVE  Fewer(Wake(s, t), z)
<1> DEFINE u == Unlink(s, t)
           v == [u EXCEPT !.state[t] = "RUNNING"]
<1>1. Fewer(u, z)
  <2>1. z.snd \in [Thd -> Seq(Thd)]  BY DEF Fewer
  <2>. QED  BY <2>1, UnlinkFewer
<1> HIDE DEF u
<1>2. "RUNNING" \notin Sending  BY DEF Sending
<1>3. Fewer(v, z)  BY <1>1, <1>2, StateFewer
<1> HIDE DEF v
<1>4. Fewer(Run_Ins(v, t), z)  BY <1>3, QueueFewer
<1>. QED  BY <1>4 DEF Wake, u, v

\* And a waking loop.
LEMMA WakeAllFewer ==
  ASSUME NEW z, NEW s, Fewer(s, z), NEW ts \in Seq(Thd)
  PROVE  Fewer(WakeAll(s, ts), z)
<1> DEFINE n == Len(ts)
<1>1. n \in Nat  OBVIOUS
<1>2. PICK f : Chain(s, ts, n, f) /\ WakeAll(s, ts) = f[n]
  BY <1>1, WakeAllChain
<1> HIDE DEF n
<1>3. \A i \in 0..n : f[i] = IF i = 0 THEN s ELSE Wake(f[i - 1], ts[i])
  BY <1>2 DEF Chain
<1> DEFINE Bad == {i \in 0..n : ~Fewer(f[i], z)}
<1>4. Bad = {}
  <2>1. SUFFICES ASSUME Bad # {}  PROVE FALSE
    OBVIOUS
  <2>2. PICK m \in Bad : \A i \in Bad : m <= i
    <3>1. Bad \in SUBSET Nat  BY <1>1
    <3> HIDE DEF Bad
    <3>. QED  BY <2>1, <3>1, LeastNat
  <2>3. m \in 0..n /\ ~Fewer(f[m], z)  OBVIOUS
  <2>4. m # 0
    <3>1. f[0] = s  BY <1>1, <1>3
    <3>. QED  BY <2>3, <3>1
  <2>5. m - 1 \in 0..n /\ ~(m <= m - 1)  BY <1>1, <2>3, <2>4
  <2>6. Fewer(f[m - 1], z)  BY <2>2, <2>5
  <2>7. f[m] = Wake(f[m - 1], ts[m])  BY <1>3, <2>3, <2>4
  <2>8. Fewer(Wake(f[m - 1], ts[m]), z)  BY <2>6, WakeFewer
  <2>. QED  BY <2>3, <2>7, <2>8
<1>5. n \in 0..n  BY <1>1
<1>6. Fewer(f[n], z)  BY <1>4, <1>5
<1>. QED  BY <1>2, <1>6

\* A thread that blocks, but not to send.
LEMMA BlockFewer ==
  ASSUME NEW s \in Kernel, NEW n, NEW forever, NEW timed,
         {forever, timed} \cap Sending = {}
  PROVE  Fewer(Block(s, n, forever, timed), s)
<1> DEFINE u == Block(s, n, forever, timed)
           v == IF n < SliceMax THEN timed ELSE forever
<1>1. /\ u.state = [s.state EXCEPT ![s.cur] = v]
      /\ u.retval = [s.retval EXCEPT ![s.cur] = "ok"]
      /\ u.snd = s.snd /\ u.wait = s.wait /\ SameRest(u, s)
  BY BlockFields
<1>2. Mem(u)  BY BlockMem
<1>3. v \notin Sending  OBVIOUS
<1> HIDE DEF u, v
<1>4. s.state \in [Thd -> ThdState] /\ Fewer(s, s)
  BY FewerRefl DEF Kernel
<1>5. DOMAIN u.state = Thd /\ \A x \in Thd :
         u.state[x] = v \/ u.state[x] = s.state[x]
  BY <1>1, <1>4
<1>6. Fewer(u, s)
  BY <1>1, <1>2, <1>3, <1>4, <1>5 DEF Fewer, SameRest
<1>. QED  BY <1>6 DEF u

----------------------------------------------------------------------------
(* The scheduler, the calls on threads and the semaphore calls.            *)

\* The scheduler; a timeout takes senders off the lists.
LEMMA CoreFewer ==
  ASSUME IInv, CoreNext
  PROVE  Fewer(k', k)
<1>1. k \in Kernel /\ KInv(k) /\ Mem(k) /\ Fewer(k, k)
  BY SafeInner, KernelMem, FewerRefl DEF IInv
<1>2. CASE Sched_Lock \/ Yield \/ Halt
  <2>1. Mute(k', k)
    BY <1>1, <1>2 DEF Sched_Lock, Yield, Halt, vars, Mute, Mem, Boot
  <2>. QED  BY <1>1, <2>1, MuteFewer
<1>3. CASE Sched_Unlock
  <2> DEFINE u == [k EXCEPT !.lock = k.lock - 1]
  <2>1. k' = Leave(u)  BY <1>3 DEF Sched_Unlock
  <2>2. Mute(u, k)  BY <1>1 DEF Mute, Mem, Boot
  <2> HIDE DEF u
  <2>. QED  BY <1>1, <2>1, <2>2, MuteFewer, QueueFewer
<1>4. CASE Switch
  <2>1. Mute(k', k)  BY <1>1, <1>4 DEF Switch, Run_High, Mute, Mem, Boot
  <2>. QED  BY <1>1, <2>1, MuteFewer
<1>5. ASSUME NEW n \in Ticks, Tick(n)  PROVE Fewer(k', k)
  <2> DEFINE e == Elapsed(k, n)
             ts == Expired(e)
             w == WakeAll(e, ts)
             T == {t \in ToSet(ts) : e.state[t] # "DELAYED"}
  <2>1. n \in Word  BY WordLemma
  <2>2. k' = Leave(SetRetval(w, T, "err")) /\ KInv(e)
    BY <1>1, <1>5, <2>1, ElapsedFields DEF Tick, Tim_Proc
  <2>3. Mute(e, k)  BY <1>1 DEF Elapsed, Mute, Mem, Boot
  <2> HIDE DEF e
  <2>4. ts \in Seq(Thd)  BY <2>2, WakeExpired
  <2>5. Fewer(e, k)  BY <1>1, <2>3, MuteFewer
  <2> HIDE DEF ts
  <2>6. Fewer(w, k)  BY <2>4, <2>5, WakeAllFewer
  <2> HIDE DEF w, T
  <2>. QED  BY <2>2, <2>6, QueueFewer
<1>. QED  BY <1>2, <1>3, <1>4, <1>5 DEF CoreNext

\* Waking one thread and telling it that its call failed.
LEMMA AbortFewer ==
  ASSUME NEW s \in Kernel, NEW t
  PROVE  Fewer(Leave(SetRetval(Wake(s, t), {t}, "err")), s)
<1>1. Fewer(Wake(s, t), s)  BY FewerRefl, WakeFewer
<1>2. Fewer(SetRetval(Wake(s, t), {t}, "err"), s)  BY <1>1, QueueFewer
<1>. QED  BY <1>2, QueueFewer

\* The calls on threads, but for a deletion.
LEMMA ThreadFewer ==
  ASSUME IpcInv, NEW t \in Thd, NEW p, NEW n,
         \/ Thd_Crt(t, p, n) \/ Thd_Set(t, p, n) \/ Thd_Delay(n)
         \/ Thd_Suspend(t) \/ Thd_Resume(t) \/ Thd_Cancel(t)
  PROVE  Fewer(k', k)
<1>1. /\ k \in Kernel /\ KInv(k) /\ Ipc(k, rcv) /\ Fewer(k, k)
      /\ Mem(k)
  BY SafeInner, FewerRefl, KernelMem DEF IpcInv, IInv
<1>2. CASE Thd_Crt(t, p, n)
  <2> DEFINE new == [k EXCEPT !.prio[t] = p, !.slice[t] = n, !.left[t] = n,
                              !.snd[t] = <<>>, !.state[t] = "RUNNING",
                              !.susp = @ \ {t}, !.full = @ \ {t}]
             u == [k EXCEPT !.state[t] = "RUNNING"]
  <2>1. k' = Leave(Run_Ins(new, t)) /\ k.state[t] = "FREE"
    BY <1>2 DEF Thd_Crt
  <2>2. k.snd[t] = <<>> /\ t \notin k.full
    BY <1>1, <2>1 DEF KInv, Owners, Ipc
  <2>3. [k.snd EXCEPT ![t] = <<>>] = k.snd  BY <1>1, <2>2 DEF Kernel
  <2>4. k.full \ {t} = k.full  BY <2>2
  <2>5. Mute(new, u)  BY <1>1, <2>3, <2>4 DEF Mute, Mem, Boot
  <2>6. Fewer(u, k)
    <3>1. "RUNNING" \notin Sending  BY DEF Sending
    <3>. QED  BY <1>1, <3>1, StateFewer
  <2> HIDE DEF new, u
  <2>7. Fewer(new, k)  BY <2>5, <2>6, MuteFewer
  <2>8. Fewer(Run_Ins(new, t), k)  BY <2>7, QueueFewer
  <2>. QED  BY <2>1, <2>8, QueueFewer
<1>3. CASE Thd_Set(t, p, n)
  <2> DEFINE del == Run_Del(k, t)
             lower == [del EXCEPT !.prio[t] = p]
             moved == IF k.state[t] = "RUNNING" THEN Run_Ins(lower, t)
                      ELSE [k EXCEPT !.prio[t] = p]
             set == IF p < PrioNum /\ p # k.prio[t] THEN moved ELSE k
             x == IF n < SliceMax THEN n ELSE set.slice[t]
             u == [set EXCEPT !.slice[t] = x]
  <2>1. k' = Leave(u)  BY <1>3 DEF Thd_Set
  <2>2. Fewer(del, k)  BY <1>1, QueueFewer
  <2> HIDE DEF del
  <2>3. Mute(lower, del)  BY <2>2 DEF Fewer, Mute, Mem, Boot
  <2>4. Fewer(lower, k)  BY <2>2, <2>3, MuteFewer
  <2> HIDE DEF lower
  <2>5. Mute([k EXCEPT !.prio[t] = p], k)  BY <1>1 DEF Mute, Mem, Boot
  <2>6. Fewer([k EXCEPT !.prio[t] = p], k)  BY <1>1, <2>5, MuteFewer
  <2>7. Fewer(moved, k)  BY <2>4, <2>6, QueueFewer
  <2> HIDE DEF moved
  <2>8. Fewer(set, k)  BY <1>1, <2>7
  <2> HIDE DEF set, x
  <2>9. Mute(u, set)  BY <2>8 DEF Fewer, Mute, Mem, Boot
  <2> HIDE DEF u
  <2>. QED  BY <2>1, <2>8, <2>9, MuteFewer, QueueFewer
<1>4. CASE Thd_Delay(n)
  <2> DEFINE u == Block(k, n, "DELAYED", "DELAYED")
  <2>1. k' = Leave(u)  BY <1>4 DEF Thd_Delay
  <2>2. {"DELAYED", "DELAYED"} \cap Sending = {}  BY DEF Sending
  <2>3. Fewer(u, k)  BY <1>1, <2>2, BlockFewer
  <2> HIDE DEF u
  <2>. QED  BY <2>1, <2>3, QueueFewer
<1>5. CASE Thd_Suspend(t)
  <2> DEFINE off == IF k.state[t] = "RUNNING" THEN Run_Del(k, t) ELSE k
             u == [off EXCEPT !.susp = @ \cup {t}]
  <2>1. k' = Leave(u)  BY <1>5 DEF Thd_Suspend
  <2>2. Fewer(off, k)  BY <1>1, QueueFewer
  <2> HIDE DEF off
  <2>3. Mute(u, off)  BY <2>2 DEF Fewer, Mute, Mem, Boot
  <2> HIDE DEF u
  <2>. QED  BY <2>1, <2>2, <2>3, MuteFewer, QueueFewer
<1>6. CASE Thd_Resume(t)
  <2> DEFINE on == [k EXCEPT !.susp = @ \ {t}]
             u == IF k.state[t] = "RUNNING" THEN Run_Ins(on, t) ELSE on
  <2>1. k' = Leave(u)  BY <1>6 DEF Thd_Resume
  <2>2. Mute(on, k)  BY <1>1 DEF Mute, Mem, Boot
  <2> HIDE DEF on
  <2>3. Fewer(on, k)  BY <1>1, <2>2, MuteFewer
  <2>4. Fewer(u, k)  BY <2>3, QueueFewer
  <2> HIDE DEF u
  <2>. QED  BY <2>1, <2>4, QueueFewer
<1>7. CASE Thd_Cancel(t)
  BY <1>1, <1>7, AbortFewer DEF Thd_Cancel
<1>. QED  BY <1>2, <1>3, <1>4, <1>5, <1>6, <1>7

\* Waking a list of threads, and then steps that concern no mail.
LEMMA ListFewer ==
  ASSUME NEW s \in Kernel, NEW ts \in Seq(Thd), NEW u,
         Mute(u, WakeAll(s, ts))
  PROVE  Fewer(Leave(u), s)
<1>1. Fewer(WakeAll(s, ts), s)  BY FewerRefl, WakeAllFewer
<1>2. Fewer(u, s)  BY <1>1, MuteFewer
<1>. QED  BY <1>2, QueueFewer

\* Taking a semaphore, or waiting for one.
LEMMA PendFewer ==
  ASSUME NEW z, NEW s \in Kernel, Mute(s, z), z \in Kernel, NEW x, NEW n
  PROVE  Fewer(Pend_Core(s, x, n), z)
<1> DEFINE a == [s EXCEPT !.num[x] = @ - 1]
           b == Block(s, n, "SEMBLK", "SEMDLY")
           u == [b EXCEPT !.wait[x] = Append(@, s.cur)]
<1>1. \/ Pend_Core(s, x, n) = Leave(a)
      \/ Pend_Core(s, x, n) = Leave(s)
      \/ Pend_Core(s, x, n) = Leave(u)
  BY DEF Pend_Core
<1>2. Fewer(s, s)  BY FewerRefl
<1>3. Fewer(a, s)
  <2>1. Mute(a, s)  BY <1>2 DEF Fewer, Mute, Mem, Boot
  <2>. QED  BY <1>2, <2>1, MuteFewer
<1>4. Fewer(b, s)
  <2>1. {"SEMBLK", "SEMDLY"} \cap Sending = {}  BY DEF Sending
  <2>. QED  BY <2>1, BlockFewer
<1> HIDE DEF a, b
<1>5. Fewer(u, s)
  <2>1. Mute(u, b)  BY <1>4 DEF Fewer, Mute, Mem, Boot
  <2>. QED  BY <1>4, <2>1, MuteFewer
<1> HIDE DEF u
<1>6. Fewer(Pend_Core(s, x, n), s)
  BY <1>1, <1>2, <1>3, <1>5, QueueFewer
<1>. QED  BY <1>6 DEF Fewer, Mute

\* The semaphore calls.
LEMMA SemFewer ==
  ASSUME IpcInv, SemNext
  PROVE  Fewer(k', k)
<1>1. k \in Kernel /\ KInv(k) /\ Fewer(k, k) /\ Mem(k)
  BY SafeInner, FewerRefl, KernelMem DEF IpcInv, IInv
<1>2. \A x \in Sem : k.wait[x] \in Seq(Thd)  BY <1>1 DEF Kernel
<1>3. ASSUME NEW ts \in Seq(Thd)  PROVE Mem(WakeAll(k, ts))
  BY <1>1, WakeAllFewer DEF Fewer
<1>4. ASSUME NEW x \in Sem, NEW n, Sem_Crt(x, n)  PROVE Fewer(k', k)
  <2> DEFINE u == [k EXCEPT !.num[x] = n, !.wait[x] = <<>>,
                            !.used = @ \cup {x}]
  <2>1. k' = Leave(u)  BY <1>4 DEF Sem_Crt
  <2>2. Mute(u, k)  BY <1>1 DEF Mute, Mem, Boot
  <2> HIDE DEF u
  <2>. QED  BY <1>1, <2>1, <2>2, MuteFewer, QueueFewer
<1>5. ASSUME NEW x \in Sem, Sem_Del(x)  PROVE Fewer(k', k)
  <2> DEFINE w == WakeAll(k, k.wait[x])
             s == SetRetval(w, ToSet(k.wait[x]), "err")
             u == [s EXCEPT !.used = @ \ {x}]
  <2>1. k' = Leave(u)  BY <1>5 DEF Sem_Del
  <2>2. Mem(w)  BY <1>2, <1>3
  <2> HIDE DEF w
  <2>3. Mute(s, w)  BY <2>2, QueueMute
  <2> HIDE DEF s
  <2>4. Mute(u, w)  BY <2>3 DEF Mute, Mem, Boot
  <2> HIDE DEF u
  <2>. QED  BY <1>1, <1>2, <2>1, <2>4, ListFewer DEF w
<1>6. ASSUME NEW x \in Sem, NEW n \in Posts,
             Sem_Post(x, n) \/ Sem_Post_ISR(x, n)
      PROVE  Fewer(k', k)
  <2>1. n \in Word /\ k' = Leave(Serve(k, x, n))
    BY <1>6, WordLemma DEF Sem_Post, Sem_Post_ISR
  <2> DEFINE sum == (k.num[x] + n) % W
  <2>2. PICK m \in 0..Len(k.wait[x]) :
           Serve(k, x, n) = [WakeAll(k, SubSeq(k.wait[x], 1, m))
                             EXCEPT !.num[x] = sum - m]
    BY <1>1, <2>1, ServePrefix
  <2> DEFINE ts == SubSeq(k.wait[x], 1, m)
             w == WakeAll(k, ts)
             u == [w EXCEPT !.num[x] = sum - m]
  <2>3. k' = Leave(u)  BY <2>1, <2>2
  <2>4. ts \in Seq(Thd)  BY <1>2
  <2>5. Mem(w)  BY <1>3, <2>4
  <2> HIDE DEF w, sum, ts
  <2>6. Mute(u, w)  BY <2>5 DEF Mute, Mem, Boot
  <2> HIDE DEF u
  <2>. QED  BY <1>1, <2>3, <2>4, <2>6, ListFewer DEF w
<1>7. ASSUME NEW x \in Sem, Sem_Bcst(x) \/ Sem_Bcst_ISR(x)
      PROVE  Fewer(k', k)
  <2> DEFINE w == WakeAll(k, k.wait[x])
  <2>1. k' = Leave(w)  BY <1>7 DEF Sem_Bcst, Sem_Bcst_ISR
  <2>2. Mute(w, w)  BY <1>2, <1>3 DEF Mute
  <2>. QED  BY <1>1, <1>2, <2>1, <2>2, ListFewer
<1>8. ASSUME NEW x \in Sem, NEW n, Sem_Pend(x, n)  PROVE Fewer(k', k)
  <2>1. Mute(k, k)  BY <1>1 DEF Mute
  <2>. QED  BY <1>1, <1>8, <2>1, PendFewer DEF Sem_Pend
<1>9. ASSUME NEW x \in Sem, NEW n, Sem_Pend_Unlock(x, n)
      PROVE  Fewer(k', k)
  <2> DEFINE s == [k EXCEPT !.lock = k.lock - 1]
  <2>1. k.lock > 0 /\ (k' = Pend_Core(s, x, n) \/ k' = Leave(s))
    BY <1>9 DEF Sem_Pend_Unlock
  <2>2. k.lock - 1 \in 0..LockMax
    BY <1>1, <2>1, CoreAssumption DEF Kernel
  <2>3. s \in Kernel  BY <1>1, <2>2 DEF Kernel
  <2>4. Mute(s, k)  BY <1>1 DEF Mute, Mem, Boot
  <2> HIDE DEF s
  <2>5. Fewer(Pend_Core(s, x, n), k)  BY <1>1, <2>3, <2>4, PendFewer
  <2>6. Fewer(Leave(s), k)  BY <1>1, <2>4, MuteFewer, QueueFewer
  <2>. QED  BY <2>1, <2>5, <2>6
<1>10. ASSUME NEW t \in Thd, Sem_Abort(t)  PROVE Fewer(k', k)
  BY <1>1, <1>10, AbortFewer DEF Sem_Abort
<1>. QED  BY <1>4, <1>5, <1>6, <1>7, <1>8, <1>9, <1>10 DEF SemNext

----------------------------------------------------------------------------
(* The queue of mails of a thread.                                         *)

\* The mails sent to t and not yet received, in the memory s.
Mails(s, t) ==
    (IF t \in s.full THEN <<s.mailbox[t]>> ELSE <<>>) \o
    [n \in DOMAIN s.snd[t] |-> s.mailbox[s.snd[t][n]]]

\* A first member before others.
LEMMA ConsLemma ==
  ASSUME NEW T, NEW x \in T, NEW w \in Seq(T)
  PROVE  LET q == <<x>> \o w
         IN  /\ q \in Seq(T) /\ Len(q) = Len(w) + 1 /\ q[1] = x
             /\ \A n \in 1..Len(w) : q[n + 1] = w[n]
OBVIOUS

\* What the queues of AbsMail are, before and after a step.
LEMMA BoxMails ==
  /\ Box  = [t \in Thd |-> Mails(k, t)]
  /\ Box' = [t \in Thd |-> Mails(k', t)]
BY DEF Box, Mails

\* The types the queues rest on; only a full mailbox has senders.
Posted(s) ==
    /\ s.mailbox \in [Thd -> Mail] /\ s.snd \in [Thd -> Seq(Thd)]
    /\ \A r \in Thd : s.snd[r] # <<>> => r \in s.full

\* The mails of a thread, one by one.
LEMMA MailsFacts ==
  ASSUME NEW s, Posted(s), NEW t \in Thd
  PROVE  LET q == Mails(s, t)
         IN  /\ q \in Seq(Mail)
             /\ t \notin s.full => q = <<>>
             /\ t \in s.full =>
                   /\ Len(q) = Len(s.snd[t]) + 1 /\ q[1] = s.mailbox[t]
                   /\ \A n \in 1..Len(s.snd[t]) :
                         q[n + 1] = s.mailbox[s.snd[t][n]]
<1> DEFINE l == s.snd[t]
           w == [n \in 1..Len(l) |-> s.mailbox[l[n]]]
<1>1. l \in Seq(Thd) /\ DOMAIN l = 1..Len(l) /\ Len(l) \in Nat
  BY DEF Posted
<1>2. s.mailbox \in [Thd -> Mail]  BY DEF Posted
<1>3. \A n \in 1..Len(l) : l[n] \in Thd  BY <1>1
<1>4. w \in Seq(Mail) /\ Len(w) = Len(l)
      /\ \A n \in 1..Len(l) : w[n] = s.mailbox[l[n]]
  BY <1>1, <1>2, <1>3
<1>5. Mails(s, t) = (IF t \in s.full THEN <<s.mailbox[t]>> ELSE <<>>) \o w
  BY <1>1 DEF Mails
<1>6. t \notin s.full => l = <<>>  BY DEF Posted
<1> HIDE DEF w
<1>7. CASE t \in s.full
  <2>1. s.mailbox[t] \in Mail  BY <1>2
  <2>2. Mails(s, t) = <<s.mailbox[t]>> \o w  BY <1>5, <1>7
  <2>3. LET q == <<s.mailbox[t]>> \o w
        IN  /\ q \in Seq(Mail)
            /\ Len(q) = Len(w) + 1 /\ q[1] = s.mailbox[t]
            /\ \A n \in 1..Len(w) : q[n + 1] = w[n]
    BY <1>4, <2>1, ConsLemma
  <2>. QED  BY <1>4, <1>7, <2>2, <2>3
<1>8. CASE t \notin s.full
  <2>1. w = <<>>  BY <1>4, <1>6, <1>8
  <2>2. Mails(s, t) = <<>>  BY <1>5, <1>8, <2>1
  <2>. QED  BY <1>8, <2>2
<1>. QED  BY <1>7, <1>8

\* A queue does not change if none of its parts does.
LEMMA SameMails ==
  ASSUME NEW s, NEW u, NEW t, t \in u.full <=> t \in s.full,
         u.mailbox[t] = s.mailbox[t], u.snd[t] = s.snd[t],
         \A n \in DOMAIN s.snd[t] :
            u.mailbox[s.snd[t][n]] = s.mailbox[s.snd[t][n]]
  PROVE  Mails(u, t) = Mails(s, t)
BY DEF Mails

\* Senders that leave withdraw their mails; the first mail has no sender.
LEMMA FewerMails ==
  ASSUME NEW s, NEW u, Fewer(u, s), Posted(s), NEW t \in Thd
  PROVE  /\ Posted(u)
         /\ Abs!Thinned(Mails(u, t), Mails(s, t))
<1>1. \A r \in Thd : s.snd[r] = <<>> => u.snd[r] = <<>>
  <2> SUFFICES ASSUME NEW r \in Thd, s.snd[r] = <<>>  PROVE u.snd[r] = <<>>
    OBVIOUS
  <2>1. u.snd[r] \in Seq(Thd) /\ Part(u.snd[r], s.snd[r])  BY DEF Fewer
  <2>2. PICK f : f \in [1..Len(u.snd[r]) -> 1..Len(s.snd[r])]
    BY <2>1 DEF Part
  <2>3. \A n \in 1..Len(u.snd[r]) : f[n] \in 1..0  BY <2>2
  <2>4. Len(u.snd[r]) = 0  BY <2>1, <2>3
  <2>. QED  BY <2>1, <2>4
<1>2. Posted(u)  BY <1>1 DEF Fewer, Posted
<1> DEFINE p == Mails(s, t)
           q == Mails(u, t)
           l == s.snd[t]
           r == u.snd[t]
<1>3. /\ p \in Seq(Mail)
      /\ t \notin s.full => p = <<>>
      /\ t \in s.full =>
            /\ Len(p) = Len(l) + 1 /\ p[1] = s.mailbox[t]
            /\ \A n \in 1..Len(l) : p[n + 1] = s.mailbox[l[n]]
  BY MailsFacts
<1>4. /\ q \in Seq(Mail)
      /\ t \notin u.full => q = <<>>
      /\ t \in u.full =>
            /\ Len(q) = Len(r) + 1 /\ q[1] = u.mailbox[t]
            /\ \A n \in 1..Len(r) : q[n + 1] = u.mailbox[r[n]]
  BY <1>2, MailsFacts
<1>5. u.mailbox = s.mailbox /\ u.full = s.full  BY DEF Fewer
<1>6. l \in Seq(Thd) /\ r \in Seq(Thd) /\ Part(r, l)  BY DEF Fewer
<1> HIDE DEF p, q, l, r
<1>7. CASE t \notin s.full
  <2>1. p = <<>> /\ q = <<>>  BY <1>3, <1>4, <1>5, <1>7
  <2>2. DOMAIN q = {} /\ DOMAIN p = {}  BY <2>1
  <2> DEFINE f == [n \in DOMAIN q |-> n]
  <2>3. f \in [DOMAIN q -> DOMAIN p]  BY <2>2
  <2>. QED  BY <1>2, <2>1, <2>2, <2>3 DEF Abs!Thinned, p, q
<1>8. CASE t \in s.full
  <2>1. PICK f \in [1..Len(r) -> 1..Len(l)] :
           /\ \A n \in 1..Len(r) : r[n] = l[f[n]]
           /\ \A m, n \in 1..Len(r) : m < n => f[m] < f[n]
    BY <1>6 DEF Part
  <2> DEFINE g == [n \in 1..(Len(r) + 1) |-> IF n = 1 THEN 1 ELSE f[n - 1] + 1]
  <2>2. /\ DOMAIN q = 1..(Len(r) + 1) /\ DOMAIN p = 1..(Len(l) + 1)
        /\ q # <<>> /\ Len(r) \in Nat /\ Len(l) \in Nat
    BY <1>3, <1>4, <1>5, <1>6, <1>8
  <2>3. \A n \in 1..(Len(r) + 1) : n # 1 =>
           n - 1 \in 1..Len(r) /\ f[n - 1] \in 1..Len(l)
    <3>1. \A n \in 1..(Len(r) + 1) : n # 1 => n - 1 \in 1..Len(r)
      BY <2>2
    <3>2. \A n \in 1..Len(r) : f[n] \in 1..Len(l)  OBVIOUS
    <3> HIDE DEF g
    <3>. QED  BY <3>1, <3>2
  <2>4. g \in [DOMAIN q -> DOMAIN p]  BY <2>2, <2>3
  <2>5. \A n \in 1..(Len(r) + 1) : q[n] = p[g[n]]
    <3> SUFFICES ASSUME NEW n \in 1..(Len(r) + 1)  PROVE q[n] = p[g[n]]
      OBVIOUS
    <3>1. CASE n = 1
      BY <1>3, <1>4, <1>5, <1>8, <2>2, <3>1
    <3>2. CASE n # 1
      <4> DEFINE m == n - 1
      <4>1. m \in 1..Len(r) /\ n = m + 1 /\ f[m] \in 1..Len(l)
        BY <2>2, <2>3, <3>2
      <4>2. g[n] = f[m] + 1  BY <3>2
      <4> HIDE DEF m
      <4>3. q[m + 1] = s.mailbox[r[m]] /\ p[f[m] + 1] = s.mailbox[l[f[m]]]
        BY <1>3, <1>4, <1>5, <1>8, <4>1
      <4>. QED  BY <2>1, <4>1, <4>2, <4>3
    <3>. QED  BY <3>1, <3>2
  <2>6. \A m, n \in 1..(Len(r) + 1) : m < n => g[m] < g[n]
    <3> SUFFICES ASSUME NEW m \in 1..(Len(r) + 1), NEW n \in 1..(Len(r) + 1),
                        m < n
                 PROVE  g[m] < g[n]
      OBVIOUS
    <3>1. n # 1 /\ g[n] = f[n - 1] + 1  BY <2>2
    <3>2. CASE m = 1
      <4>1. g[m] = 1 /\ f[n - 1] \in 1..Len(l)  BY <2>3, <3>1, <3>2
      <4>. QED  BY <2>2, <3>1, <4>1
    <3>3. CASE m # 1
      <4>1. g[m] = f[m - 1] + 1  BY <3>3
      <4>2. m - 1 \in 1..Len(r) /\ n - 1 \in 1..Len(r) /\ m - 1 < n - 1
        BY <2>2, <3>1, <3>3
      <4>3. /\ f[m - 1] < f[n - 1]
            /\ f[m - 1] \in 1..Len(l) /\ f[n - 1] \in 1..Len(l)
        BY <2>1, <4>2
      <4>. QED  BY <2>2, <3>1, <4>1, <4>3
    <3>. QED  BY <3>2, <3>3
  <2>7. g[1] = 1  BY <2>2
  <2> HIDE DEF g
  <2>8. Abs!Thinned(q, p)  BY <2>2, <2>4, <2>5, <2>6, <2>7 DEF Abs!Thinned
  <2>. QED  BY <1>2, <2>8 DEF p, q
<1>. QED  BY <1>7, <1>8

----------------------------------------------------------------------------
(* The roles, and the steps one by one.                                    *)

\* Only threads of S have mail, and none of them waits to send.
Roles(s, S) ==
    /\ s.full \subseteq S
    /\ \A t \in Thd : s.state[t] \in Sending => t \notin S

\* The memory between two steps.
RoleInv(S) == IpcInv /\ Roles(k, S)

\* The lists of senders, and what is known of who is on them.
LEMMA RoleFacts ==
  ASSUME NEW S, RoleInv(S)
  PROVE  /\ k \in Kernel /\ KInv(k) /\ Mem(k) /\ Ipc(k, rcv) /\ Safe(k)
         /\ Posted(k)
         /\ k.state \in [Thd -> ThdState]
         /\ \A r \in Thd : IsInjective(k.snd[r])
         /\ \A r \in Thd : \A n \in 1..Len(k.snd[r]) :
               /\ k.snd[r][n] \in Thd /\ k.snd[r][n] \in ToSet(k.snd[r])
               /\ k.state[k.snd[r][n]] \in Sending /\ k.snd[r][n] \notin S
         /\ \A q, r \in Thd : \A t : t \in ToSet(k.snd[q])
                                  /\ t \in ToSet(k.snd[r]) => q = r
<1>1. k \in Kernel /\ KInv(k) /\ Mem(k) /\ Ipc(k, rcv) /\ Safe(k)
  BY SafeInner, KernelMem DEF RoleInv, IpcInv, IInv
<1>2. /\ k.mailbox \in [Thd -> Mail] /\ k.snd \in [Thd -> Seq(Thd)]
      /\ k.state \in [Thd -> ThdState]
  BY <1>1 DEF Kernel
<1>3. Apart(k.snd, InState(k, Sending))  BY <1>1, ListedDef DEF KInv, Good
<1>4. \A r \in Thd : k.snd[r] # <<>> => r \in k.full
  <2>1. \A r \in Thd : k.snd[r] \in Seq(Thd)  BY <1>2
  <2>2. \A r \in Thd : ToSet(k.snd[r]) = {} <=> k.snd[r] = <<>>
    BY <2>1, EmptySet
  <2>. QED  BY <1>1, <2>2 DEF Ipc
<1>5. ASSUME NEW r \in Thd, NEW n \in 1..Len(k.snd[r])
      PROVE  /\ k.snd[r][n] \in Thd /\ k.snd[r][n] \in ToSet(k.snd[r])
             /\ k.state[k.snd[r][n]] \in Sending /\ k.snd[r][n] \notin S
  <2> DEFINE x == k.snd[r][n]
  <2>1. k.snd[r] \in Seq(Thd) /\ DOMAIN k.snd = Thd  BY <1>2
  <2>2. x \in Thd /\ x \in ToSet(k.snd[r])  BY <2>1, ToSetLemma
  <2> HIDE DEF x
  <2>3. x \in InState(k, Sending)  BY <1>3, <2>1, <2>2 DEF Apart
  <2>4. k.state[x] \in Sending /\ x \notin S
    BY <2>2, <2>3 DEF InState, RoleInv, Roles
  <2>. QED  BY <2>2, <2>4 DEF x
<1>6. DOMAIN k.snd = Thd  BY <1>2
<1>7. /\ \A r \in Thd : IsInjective(k.snd[r])
      /\ \A q, r \in Thd : \A t : t \in ToSet(k.snd[q])
                               /\ t \in ToSet(k.snd[r]) => q = r
  BY <1>3, <1>6 DEF Apart
<1>. QED  BY <1>1, <1>2, <1>4, <1>5, <1>7 DEF Posted

\* A step that takes senders off the lists withdraws their mails.
LEMMA WithdrawStep ==
  ASSUME NEW S, RoleInv(S), Fewer(k', k), got' = got
  PROVE  Abs!Withdraw /\ Roles(k', S)
<1>1. Posted(k)  BY RoleFacts
<1>2. \A t \in Thd : /\ Abs!Thinned(Mails(k', t), Mails(k, t))
                     /\ Posted(k')
  BY <1>1, FewerMails
<1>3. \A t \in Thd : Mails(k', t) \in Seq(Mail)  BY <1>2, MailsFacts
<1>4. Abs!Withdraw  BY <1>2, <1>3, BoxMails DEF Abs!Withdraw
<1>5. Roles(k', S)  BY DEF Fewer, RoleInv, Roles
<1>. QED  BY <1>4, <1>5

\* What waking a thread does to the mails.
LEMMA WakeMails ==
  ASSUME NEW s, Mem(s), NEW t
  PROVE  LET u == Wake(s, t)
         IN  /\ Mem(u) /\ u.mailbox = s.mailbox /\ u.full = s.full
             /\ u.state = [s.state EXCEPT ![t] = "RUNNING"]
             /\ u.snd = IF s.state[t] \in Sending
                        THEN [r \in Thd |-> RemoveFirst(s.snd[r], t)]
                        ELSE s.snd
<1> DEFINE v == [Unlink(s, t) EXCEPT !.state[t] = "RUNNING"]
<1>1. /\ Mem(v) /\ v.mailbox = s.mailbox /\ v.full = s.full
      /\ v.state = [s.state EXCEPT ![t] = "RUNNING"]
      /\ v.snd = IF s.state[t] \in Sending
                 THEN [r \in Thd |-> RemoveFirst(s.snd[r], t)]
                 ELSE s.snd
  BY DEF Unlink, Mem, Boot
<1> HIDE DEF v
<1>2. Mute(Run_Ins(v, t), v)  BY <1>1, QueueMute
<1>3. Wake(s, t) = Run_Ins(v, t)  BY DEF Wake, v
<1>. QED  BY <1>1, <1>2, <1>3 DEF Mute

\* Sending to an empty mailbox: the first mail of the queue.
LEMMA SendStep ==
  ASSUME NEW S \in SUBSET Thd, RoleInv(S), NEW t \in S, NEW d \in Mail,
         Thd_Snd(t, d) \/ Thd_Snd_ISR(t, d)
  PROVE  Abs!Send(t, d) /\ Roles(k', S)
<1> DEFINE w == IF k.state[t] \in {"RCVBLK", "RCVDLY"} THEN Wake(k, t) ELSE k
           u == [w EXCEPT !.mailbox[t] = d, !.full = @ \cup {t}]
<1>1. t \in Thd /\ t \notin k.full /\ got' = got /\ (k' = Leave(u) \/ k' = u)
  BY DEF Thd_Snd, Thd_Snd_ISR, Deliver
<1>2. /\ Mem(k) /\ Posted(k) /\ k.state \in [Thd -> ThdState]
      /\ \A r \in Thd : \A n \in 1..Len(k.snd[r]) : k.snd[r][n] \notin S
  BY RoleFacts
<1>3. /\ Mem(w) /\ w.mailbox = k.mailbox /\ w.full = k.full
      /\ w.snd = k.snd
      /\ \A x \in Thd : w.state[x] = k.state[x] \/ w.state[x] = "RUNNING"
  <2>1. k.state[t] \in {"RCVBLK", "RCVDLY"} => k.state[t] \notin Sending
    BY DEF Sending
  <2> DEFINE v == Wake(k, t)
  <2>2. /\ Mem(v) /\ v.mailbox = k.mailbox /\ v.full = k.full
        /\ v.state = [k.state EXCEPT ![t] = "RUNNING"]
        /\ v.snd = IF k.state[t] \in Sending
                   THEN [r \in Thd |-> RemoveFirst(k.snd[r], t)]
                   ELSE k.snd
    BY <1>2, WakeMails
  <2> HIDE DEF v
  <2>3. (w = v /\ k.state[t] \notin Sending) \/ w = k  BY <2>1 DEF v
  <2> HIDE DEF w
  <2>. QED  BY <1>2, <2>2, <2>3
<1> HIDE DEF w
<1>4. /\ Mem(u) /\ u.mailbox = [k.mailbox EXCEPT ![t] = d]
      /\ u.full = k.full \cup {t} /\ u.snd = k.snd /\ u.state = w.state
  BY <1>3 DEF Mem, Boot
<1> HIDE DEF u
<1>5. Mute(Leave(u), u)  BY <1>4, QueueMute
<1>6. /\ k'.mailbox = [k.mailbox EXCEPT ![t] = d]
      /\ k'.full = k.full \cup {t} /\ k'.snd = k.snd /\ k'.state = w.state
  BY <1>1, <1>4, <1>5 DEF Mute
<1>7. k.snd[t] = <<>>  BY <1>1, <1>2 DEF Posted
<1>8. Mails(k, t) = <<>>  BY <1>1, <1>2, MailsFacts
<1>9. k'.mailbox[t] = d /\ \A x \in Thd \ {t} : k'.mailbox[x] = k.mailbox[x]
  BY <1>1, <1>2, <1>6 DEF Posted
<1>10. Mails(k', t) = <<d>>
  <2>1. k'.mailbox \in [Thd -> Mail]  BY <1>1, <1>2, <1>6 DEF Posted
  <2>2. Posted(k')  BY <1>2, <1>6, <2>1 DEF Posted
  <2>3. t \in k'.full /\ Len(k'.snd[t]) = 0  BY <1>6, <1>7
  <2>4. /\ Mails(k', t) \in Seq(Mail)
        /\ Len(Mails(k', t)) = Len(k'.snd[t]) + 1
        /\ Mails(k', t)[1] = k'.mailbox[t]
    BY <1>1, <2>2, <2>3, MailsFacts
  <2>. QED  BY <1>9, <2>3, <2>4
<1>11. \A r \in Thd \ {t} : Mails(k', r) = Mails(k, r)
  <2> SUFFICES ASSUME NEW r \in Thd \ {t}  PROVE Mails(k', r) = Mails(k, r)
    OBVIOUS
  <2>1. k.snd[r] \in Seq(Thd)  BY <1>2 DEF Posted
  <2>2. \A n \in DOMAIN k.snd[r] : k.snd[r][n] \in Thd \ {t}
    BY <1>2, <2>1
  <2>3. \A n \in DOMAIN k.snd[r] :
           k'.mailbox[k.snd[r][n]] = k.mailbox[k.snd[r][n]]
    BY <1>9, <2>2
  <2>4. /\ r \in k'.full <=> r \in k.full
        /\ k'.mailbox[r] = k.mailbox[r] /\ k'.snd[r] = k.snd[r]
    BY <1>6, <1>9
  <2>. QED  BY <2>3, <2>4, SameMails
<1>12. Append(<<>>, d) = <<d>>  OBVIOUS
<1>13. Abs!Send(t, d)
  <2>1. \A r \in Thd : Mails(k', r) = IF r = t THEN Append(Mails(k, t), d)
                                              ELSE Mails(k, r)
    BY <1>8, <1>10, <1>11, <1>12
  <2>2. Box' = [Box EXCEPT ![t] = Append(Box[t], d)]
    BY <1>1, <2>1, BoxMails
  <2>. QED  BY <1>1, <2>2 DEF Abs!Send
<1>14. Roles(k', S)
  <2>1. "RUNNING" \notin Sending  BY DEF Sending
  <2>. QED  BY <1>3, <1>6, <2>1 DEF RoleInv, Roles
<1>. QED  BY <1>13, <1>14

\* Waiting to send to a full mailbox: the last mail of the queue.
LEMMA SendBlockStep ==
  ASSUME NEW S \in SUBSET Thd, RoleInv(S), NEW t \in S, NEW d \in Mail,
         NEW n, Thd_Snd_Block(t, d, n), k.cur \notin S
  PROVE  Abs!Send(t, d) /\ Roles(k', S)
<1> DEFINE c == k.cur
           v == IF n < SliceMax THEN "SNDDLY" ELSE "SNDBLK"
           b == Block(k, n, "SNDBLK", "SNDDLY")
           u == [b EXCEPT !.snd[t] = Append(@, c), !.mailbox[c] = d]
<1>1. User /\ t \in Thd /\ t \in k.full /\ got' = got /\ k' = Leave(u)
  BY DEF Thd_Snd_Block, MayBlock
<1>2. /\ k \in Kernel /\ Safe(k) /\ Posted(k) /\ k.state \in [Thd -> ThdState]
      /\ \A r \in Thd : \A m \in 1..Len(k.snd[r]) :
            k.snd[r][m] \in Thd /\ k.state[k.snd[r][m]] \in Sending
  BY RoleFacts
<1>3. c \in Thd /\ c # t  BY <1>2 DEF Kernel
<1>4. k.state[c] \notin Sending
  BY <1>1, <1>2, UserRuns, StateFacts
<1>5. /\ b.state = [k.state EXCEPT ![c] = v]
      /\ b.retval = [k.retval EXCEPT ![c] = "ok"]
      /\ b.snd = k.snd /\ b.wait = k.wait /\ SameRest(b, k)
  BY <1>2, BlockFields
<1>6. Mem(b)  BY <1>2, BlockMem
<1> HIDE DEF b, v
<1>7. /\ Mem(u) /\ u.mailbox = [k.mailbox EXCEPT ![c] = d]
      /\ u.full = k.full /\ u.state = b.state
      /\ u.snd = [k.snd EXCEPT ![t] = Append(k.snd[t], c)]
  BY <1>5, <1>6 DEF SameRest, Mem, Boot
<1> HIDE DEF u
<1>8. Mute(Leave(u), u)  BY <1>7, QueueMute
<1>9. /\ k'.mailbox = [k.mailbox EXCEPT ![c] = d]
      /\ k'.full = k.full /\ k'.state = [k.state EXCEPT ![c] = v]
      /\ k'.snd = [k.snd EXCEPT ![t] = Append(k.snd[t], c)]
  BY <1>1, <1>5, <1>7, <1>8 DEF Mute
<1> HIDE DEF c
<1>10. k'.mailbox[c] = d /\ \A x \in Thd \ {c} : k'.mailbox[x] = k.mailbox[x]
  BY <1>2, <1>3, <1>9 DEF Posted
<1>11. \A r \in Thd : k.snd[r] \in Seq(Thd) /\ DOMAIN k.snd[r] = 1..Len(k.snd[r])
  BY <1>2 DEF Posted
<1>12. \A r \in Thd : \A m \in 1..Len(k.snd[r]) :
          k'.mailbox[k.snd[r][m]] = k.mailbox[k.snd[r][m]]
  BY <1>2, <1>4, <1>10
<1>13. /\ k'.snd[t] = Append(k.snd[t], c)
       /\ \A r \in Thd \ {t} : k'.snd[r] = k.snd[r]
  BY <1>1, <1>2, <1>9 DEF Posted
<1>14. \A r \in Thd \ {t} : Mails(k', r) = Mails(k, r)
  <2> SUFFICES ASSUME NEW r \in Thd \ {t}  PROVE Mails(k', r) = Mails(k, r)
    OBVIOUS
  <2>1. CASE r \in k.full
    <3>1. r # c
      <4>1. k.full \subseteq S  BY DEF RoleInv, Roles
      <4>. QED  BY <2>1, <4>1 DEF c
    <3>2. k'.mailbox[r] = k.mailbox[r]  BY <1>10, <3>1
    <3>3. r \in k'.full <=> r \in k.full  BY <1>9
    <3>4. \A m \in DOMAIN k.snd[r] :
             k'.mailbox[k.snd[r][m]] = k.mailbox[k.snd[r][m]]
      BY <1>11, <1>12
    <3>. QED  BY <1>13, <3>2, <3>3, <3>4, SameMails
  <2>2. CASE r \notin k.full
    <3>1. k.snd[r] = <<>> /\ k'.snd[r] = <<>> /\ r \notin k'.full
      BY <1>2, <1>9, <1>13, <2>2 DEF Posted
    <3>. QED  BY <2>2, <3>1 DEF Mails
  <2>. QED  BY <2>1, <2>2
<1>15. Mails(k', t) = Append(Mails(k, t), d)
  <2> DEFINE p == Mails(k, t)
             q == Mails(k', t)
             l == k.snd[t]
  <2>1. /\ p \in Seq(Mail) /\ Len(p) = Len(l) + 1 /\ p[1] = k.mailbox[t]
        /\ \A m \in 1..Len(l) : p[m + 1] = k.mailbox[l[m]]
    BY <1>1, <1>2, MailsFacts
  <2>2. Posted(k')
    <3>1. k'.mailbox \in [Thd -> Mail]
      <4>1. k.mailbox \in [Thd -> Mail]  BY <1>2 DEF Posted
      <4>. QED  BY <1>9, <4>1
    <3>2. k'.snd \in [Thd -> Seq(Thd)]
      BY <1>2, <1>3, <1>9 DEF Posted
    <3>3. \A r \in Thd : k'.snd[r] # <<>> => r \in k'.full
      BY <1>1, <1>2, <1>9, <1>13 DEF Posted
    <3>. QED  BY <3>1, <3>2, <3>3 DEF Posted
  <2>3. /\ q \in Seq(Mail) /\ Len(q) = Len(k'.snd[t]) + 1
        /\ q[1] = k'.mailbox[t]
        /\ \A m \in 1..Len(k'.snd[t]) : q[m + 1] = k'.mailbox[k'.snd[t][m]]
    <3>1. t \in k'.full  BY <1>1, <1>9
    <3>. QED  BY <1>1, <2>2, <3>1, MailsFacts
  <2>4. /\ l \in Seq(Thd) /\ Len(k'.snd[t]) = Len(l) + 1
        /\ \A m \in 1..Len(l) : k'.snd[t][m] = l[m]
        /\ k'.snd[t][Len(l) + 1] = c
    BY <1>1, <1>3, <1>11, <1>13
  <2>5. k'.mailbox[t] = k.mailbox[t]  BY <1>1, <1>3, <1>10
  <2>6. \A m \in 1..Len(l) : k'.mailbox[l[m]] = k.mailbox[l[m]]
    BY <1>1, <1>12
  <2> HIDE DEF p, q, l
  <2> DEFINE a == Append(p, d)
  <2>7. /\ a \in Seq(Mail) /\ Len(a) = Len(p) + 1 /\ a[Len(p) + 1] = d
        /\ \A i \in 1..Len(p) : a[i] = p[i]
    BY <2>1
  <2> HIDE DEF a
  <2>8. ASSUME NEW i \in 1..Len(q)  PROVE q[i] = a[i]
    <3>1. CASE i = 1
      <4>1. 1 \in 1..Len(p)  BY <2>1, <2>4
      <4>. QED  BY <2>1, <2>3, <2>5, <2>7, <3>1, <4>1
    <3>2. CASE i \in 2..(Len(l) + 1)
      <4> DEFINE m == i - 1
      <4>1. m \in 1..Len(l) /\ i = m + 1  BY <2>4, <3>2
      <4> HIDE DEF m
      <4>2. m \in 1..Len(k'.snd[t]) /\ m + 1 \in 1..Len(p)
        BY <2>1, <2>4, <4>1
      <4>3. q[m + 1] = k'.mailbox[l[m]] /\ p[m + 1] = k.mailbox[l[m]]
        BY <2>1, <2>3, <2>4, <4>1, <4>2
      <4>. QED  BY <2>6, <2>7, <4>1, <4>2, <4>3
    <3>3. CASE i = Len(l) + 2
      <4>1. Len(l) + 1 \in 1..Len(k'.snd[t]) /\ i = (Len(l) + 1) + 1
            /\ i = Len(p) + 1
        BY <2>1, <2>4, <3>3
      <4>2. q[(Len(l) + 1) + 1] = k'.mailbox[c]  BY <2>3, <2>4, <4>1
      <4>. QED  BY <1>10, <2>7, <4>1, <4>2
    <3>. QED  BY <2>3, <2>4, <3>1, <3>2, <3>3
  <2>9. Len(q) = Len(a)  BY <2>1, <2>3, <2>4, <2>7
  <2>10. q = a  BY <2>3, <2>7, <2>8, <2>9, SeqEqual
  <2>. QED  BY <2>10 DEF a, p, q
<1>16. Abs!Send(t, d)
  <2>1. \A r \in Thd : Mails(k', r) = IF r = t THEN Append(Mails(k, t), d)
                                              ELSE Mails(k, r)
    BY <1>14, <1>15
  <2>2. Box' = [Box EXCEPT ![t] = Append(Box[t], d)]
    BY <1>1, <2>1, BoxMails
  <2>. QED  BY <1>1, <2>2 DEF Abs!Send
<1>17. Roles(k', S)
  <2>1. \A x \in Thd : x # c => k'.state[x] = k.state[x]
    BY <1>2, <1>9
  <2>. QED  BY <1>9, <2>1 DEF RoleInv, Roles, c
<1>. QED  BY <1>16, <1>17

\* Receiving: the first mail goes, and the first of the others takes its
\* place in the mailbox.
LEMMA ReceiveStep ==
  ASSUME NEW S \in SUBSET Thd, RoleInv(S), NEW c \in Thd, c \in k.full,
         k' = Leave(Thd_Unblock(k, c)), got' = <<c, k.mailbox[c]>>
  PROVE  Abs!Receive(c) /\ Roles(k', S)
<1> DEFINE l == k.snd[c]
           u == Thd_Unblock(k, c)
           p == Mails(k, c)
<1>1. /\ Mem(k) /\ Posted(k) /\ k.state \in [Thd -> ThdState]
      /\ \A r \in Thd : \A n \in 1..Len(k.snd[r]) :
            /\ k.snd[r][n] \in Thd /\ k.snd[r][n] \in ToSet(k.snd[r])
            /\ k.state[k.snd[r][n]] \in Sending /\ k.snd[r][n] \notin S
      /\ \A q, r \in Thd : \A t : t \in ToSet(k.snd[q])
                               /\ t \in ToSet(k.snd[r]) => q = r
  BY RoleFacts
<1>2. c \in S /\ k.full \subseteq S  BY DEF RoleInv, Roles
<1>3. /\ k.mailbox \in [Thd -> Mail] /\ k.snd \in [Thd -> Seq(Thd)]
      /\ l \in Seq(Thd)
  BY <1>1 DEF Posted
<1>4. /\ p \in Seq(Mail) /\ Len(p) = Len(l) + 1 /\ p[1] = k.mailbox[c]
      /\ \A n \in 1..Len(l) : p[n + 1] = k.mailbox[l[n]]
  BY <1>1, MailsFacts
<1>5. p # <<>> /\ Head(p) = k.mailbox[c]
  <2> HIDE DEF p
  <2>. QED  BY <1>3, <1>4
\* It is enough that the mails of c are what is left, and the others' the
\* same.
<1>6. ASSUME Mails(k', c) = Tail(p),
             \A r \in Thd \ {c} : Mails(k', r) = Mails(k, r)
      PROVE  Abs!Receive(c)
  <2>1. Box[c] = p  BY BoxMails
  <2>2. Box' = [Box EXCEPT ![c] = Tail(Box[c])]
    BY <1>6, <2>1, BoxMails
  <2>. QED  BY <1>5, <2>1, <2>2 DEF Abs!Receive
<1>7. CASE l = <<>>
  <2>1. u = [k EXCEPT !.full = @ \ {c}]  BY <1>7 DEF Thd_Unblock
  <2>2. /\ Mem(u) /\ u.mailbox = k.mailbox /\ u.full = k.full \ {c}
        /\ u.state = k.state /\ u.snd = k.snd
    BY <1>1, <2>1 DEF Mem, Boot
  <2> HIDE DEF u
  <2>3. Mute(Leave(u), u)  BY <2>2, QueueMute
  <2>4. /\ k'.mailbox = k.mailbox /\ k'.full = k.full \ {c}
        /\ k'.state = k.state /\ k'.snd = k.snd
    BY <2>2, <2>3 DEF Mute, u
  <2>5. Mails(k', c) = Tail(p)
    <3>1. Posted(k')  BY <1>1, <1>7, <2>4 DEF Posted
    <3>2. Mails(k', c) = <<>>  BY <2>4, <3>1, MailsFacts
    <3>3. Len(p) = 1  BY <1>4, <1>7
    <3> HIDE DEF p
    <3>4. p # <<>> /\ p \in Seq(Mail)  BY <1>4, <1>5
    <3> DEFINE z == Tail(p)
    <3>5. z \in Seq(Mail) /\ Len(z) = 0  BY <3>3, <3>4
    <3> HIDE DEF z
    <3>6. z = <<>>  BY <3>5
    <3>. QED  BY <3>2, <3>6 DEF z
  <2>6. \A r \in Thd \ {c} : Mails(k', r) = Mails(k, r)
    BY <2>4, SameMails
  <2>7. Roles(k', S)  BY <2>4 DEF RoleInv, Roles
  <2>. QED  BY <1>6, <2>5, <2>6, <2>7
<1>8. CASE l # <<>>
  <2> DEFINE t == Head(l)
             w == Wake(k, t)
  <2>1. 1 \in 1..Len(l) /\ t = l[1]  BY <1>3, <1>8
  <2>2. t \in Thd /\ t \in ToSet(l) /\ k.state[t] \in Sending /\ t \notin S
    BY <1>1, <2>1
  <2>3. u = [w EXCEPT !.mailbox[c] = k.mailbox[t]]
    BY <1>8 DEF Thd_Unblock
  <2>4. /\ Mem(w) /\ w.mailbox = k.mailbox /\ w.full = k.full
        /\ w.state = [k.state EXCEPT ![t] = "RUNNING"]
        /\ w.snd = [r \in Thd |-> RemoveFirst(k.snd[r], t)]
    BY <1>1, <2>2, WakeMails
  <2> HIDE DEF w, t
  <2>5. /\ Mem(u) /\ u.mailbox = [k.mailbox EXCEPT ![c] = k.mailbox[t]]
        /\ u.full = k.full /\ u.state = w.state /\ u.snd = w.snd
    BY <2>3, <2>4 DEF Mem, Boot
  <2> HIDE DEF u
  <2>6. Mute(Leave(u), u)  BY <2>5, QueueMute
  <2>7. /\ k'.mailbox = [k.mailbox EXCEPT ![c] = k.mailbox[t]]
        /\ k'.full = k.full
        /\ k'.state = [k.state EXCEPT ![t] = "RUNNING"]
        /\ k'.snd = [r \in Thd |-> RemoveFirst(k.snd[r], t)]
    BY <2>4, <2>5, <2>6 DEF Mute, u
  <2>8. /\ k'.mailbox[c] = k.mailbox[t]
        /\ \A x \in Thd \ {c} : k'.mailbox[x] = k.mailbox[x]
    BY <1>3, <2>7
  <2>9. k'.snd[c] = Tail(l)
    <3>1. RemoveFirst(l, Head(l)) = Tail(l)  BY <1>3, <1>8, RemoveHead
    <3>. QED  BY <2>7, <3>1 DEF t
  <2>10. \A r \in Thd \ {c} : k'.snd[r] = k.snd[r]
    <3> SUFFICES ASSUME NEW r \in Thd \ {c}  PROVE k'.snd[r] = k.snd[r]
      OBVIOUS
    <3>1. t \notin ToSet(k.snd[r])  BY <1>1, <2>2
    <3>2. k.snd[r] \in Seq(Thd)  BY <1>3
    <3>3. RemoveFirst(k.snd[r], t) = k.snd[r]  BY <3>1, <3>2, RemoveNone
    <3>. QED  BY <2>7, <3>3
  <2>11. \A r \in Thd : \A n \in 1..Len(k.snd[r]) :
            k'.mailbox[k.snd[r][n]] = k.mailbox[k.snd[r][n]]
    BY <1>1, <1>2, <2>8
  <2>12. \A r \in Thd \ {c} : Mails(k', r) = Mails(k, r)
    <3> SUFFICES ASSUME NEW r \in Thd \ {c}  PROVE Mails(k', r) = Mails(k, r)
      OBVIOUS
    <3>1. k.snd[r] \in Seq(Thd)  BY <1>3
    <3>2. \A n \in DOMAIN k.snd[r] :
             k'.mailbox[k.snd[r][n]] = k.mailbox[k.snd[r][n]]
      BY <2>11, <3>1
    <3>3. /\ r \in k'.full <=> r \in k.full
          /\ k'.mailbox[r] = k.mailbox[r] /\ k'.snd[r] = k.snd[r]
      BY <2>7, <2>8, <2>10
    <3>. QED  BY <3>2, <3>3, SameMails
  <2>13. Mails(k', c) = Tail(p)
    <3> DEFINE q == Mails(k', c)
    <3>1. Posted(k')
      <4>1. k'.mailbox \in [Thd -> Mail]  BY <1>3, <2>2, <2>7
      <4>2. \A r \in Thd : k'.snd[r] \in Seq(Thd)
        <5>1. Tail(l) \in Seq(Thd)  BY <1>3, <1>8
        <5> HIDE DEF l
        <5>2. k'.snd[c] \in Seq(Thd)  BY <2>9, <5>1
        <5>3. \A r \in Thd \ {c} : k'.snd[r] \in Seq(Thd)
          BY <1>3, <2>10
        <5>. QED  BY <5>2, <5>3
      <4>3. k'.snd \in [Thd -> Seq(Thd)]  BY <2>7, <4>2
      <4>4. \A r \in Thd : k'.snd[r] # <<>> => r \in k'.full
        BY <1>1, <2>7, <2>10 DEF Posted
      <4>. QED  BY <4>1, <4>3, <4>4 DEF Posted
    <3>2. c \in k'.full  BY <2>7
    <3>3. /\ q \in Seq(Mail) /\ Len(q) = Len(k'.snd[c]) + 1
          /\ q[1] = k'.mailbox[c]
          /\ \A n \in 1..Len(k'.snd[c]) : q[n + 1] = k'.mailbox[k'.snd[c][n]]
      BY <3>1, <3>2, MailsFacts
    <3>4. /\ Len(k'.snd[c]) = Len(l) - 1 /\ Len(l) \in Nat \ {0}
          /\ \A n \in 1..(Len(l) - 1) : k'.snd[c][n] = l[n + 1]
      BY <1>3, <1>8, <2>9
    <3>5. \A n \in 1..Len(l) : k'.mailbox[l[n]] = k.mailbox[l[n]]
      BY <2>11
    <3> HIDE DEF p, q, l
    <3>6. /\ Tail(p) \in Seq(Mail) /\ Len(Tail(p)) = Len(l)
          /\ \A i \in 1..Len(l) : Tail(p)[i] = p[i + 1]
      BY <1>4, <3>4
    <3>7. ASSUME NEW i \in 1..Len(q)  PROVE q[i] = Tail(p)[i]
      <4>1. i \in 1..Len(l)  BY <3>3, <3>4
      <4>2. Tail(p)[i] = k.mailbox[l[i]]  BY <1>4, <3>6, <4>1
      <4>3. CASE i = 1
        BY <2>1, <2>8, <3>3, <4>2, <4>3
      <4>4. CASE i # 1
        <5> DEFINE n == i - 1
        <5>1. n \in 1..(Len(l) - 1) /\ i = n + 1  BY <3>4, <4>1, <4>4
        <5> HIDE DEF n
        <5>2. q[n + 1] = k'.mailbox[l[n + 1]]  BY <3>3, <3>4, <5>1
        <5>. QED  BY <3>5, <4>1, <4>2, <5>1, <5>2
      <4>. QED  BY <4>3, <4>4
    <3>8. Len(q) = Len(Tail(p))  BY <3>3, <3>4, <3>6
    <3>9. q = Tail(p)  BY <3>3, <3>6, <3>7, <3>8, SeqEqual
    <3>. QED  BY <3>9 DEF q
  <2>14. Roles(k', S)
    <3>1. "RUNNING" \notin Sending  BY DEF Sending
    <3>2. \A x \in Thd : k'.state[x] = k.state[x] \/ k'.state[x] = "RUNNING"
      BY <1>1, <2>7
    <3>. QED  BY <2>7, <3>1, <3>2 DEF RoleInv, Roles
  <2>. QED  BY <1>6, <2>12, <2>13, <2>14
<1>. QED  BY <1>7, <1>8

\* Deleting a thread: its mails are gone, and the mail it waited to send.
LEMMA DeleteStep ==
  ASSUME NEW S, RoleInv(S), NEW t \in Thd, Thd_Del(t)
  PROVE  Abs!Delete(t) /\ Roles(k', S)
<1> DEFINE T == ToSet(k.snd[t])
           w == WakeAll(k, k.snd[t])
           s == SetRetval(w, T, "err")
           off == IF s.state[t] = "RUNNING" THEN Run_Del(s, t)
                                            ELSE Unlink(s, t)
           gone == [off EXCEPT !.retval[t] = "err", !.state[t] = "FREE",
                               !.susp = @ \ {t}, !.full = @ \ {t}]
<1>1. /\ k \in Kernel /\ KInv(k) /\ Mem(k) /\ Posted(k)
      /\ IsInjective(k.snd[t])
      /\ \A n \in 1..Len(k.snd[t]) : k.state[k.snd[t][n]] \in Sending
  BY RoleFacts
<1>2. k' = [gone EXCEPT !.panic = 1] \/ k' = Leave(gone)
  BY DEF Thd_Del
<1>3. k.snd[t] \in Seq(Thd) /\ \A x \in T : k.state[x] \in Blocked
  <2>1. k.snd[t] \in Seq(Thd)  BY <1>1 DEF Posted
  <2>2. \A x \in T : \E n \in 1..Len(k.snd[t]) : k.snd[t][n] = x
    BY <2>1, ToSetLemma
  <2>. QED  BY <1>1, <2>1, <2>2, StateFacts
<1>4. KInv(w) /\ Woken(w, k, T)  BY <1>1, <1>3, WakeEach
<1>5. Fewer(w, k)  BY <1>1, <1>3, FewerRefl, WakeAllFewer
<1> HIDE DEF w
<1>6. w.snd[t] = <<>> /\ Fewer(w, w)
  <2>1. w \in Kernel /\ ToSet(w.snd[t]) = {}
    BY <1>4 DEF KInv, Good, Woken, Shrunk
  <2>2. w.snd[t] \in Seq(Thd)  BY <2>1 DEF Kernel
  <2>. QED  BY <2>1, <2>2, EmptySet, FewerRefl
<1>7. Fewer(s, k) /\ Fewer(s, w)  BY <1>5, <1>6, QueueFewer
<1> HIDE DEF s
<1>8. Fewer(off, k) /\ Fewer(off, w)
  <2>1. k.snd \in [Thd -> Seq(Thd)] /\ w.snd \in [Thd -> Seq(Thd)]
    BY <1>5 DEF Fewer
  <2>. QED  BY <1>7, <2>1, QueueFewer, UnlinkFewer
<1> HIDE DEF off
<1>9. off.snd[t] = <<>>
  <2>1. off.snd[t] \in Seq(Thd) /\ Part(off.snd[t], <<>>)
    BY <1>6, <1>8 DEF Fewer
  <2>2. PICK f : f \in [1..Len(off.snd[t]) -> 1..Len(<<>>)]
    BY <2>1 DEF Part
  <2>3. \A n \in 1..Len(off.snd[t]) : f[n] \in 1..0  BY <2>2
  <2>4. Len(off.snd[t]) = 0  BY <2>1, <2>3
  <2>. QED  BY <2>1, <2>4
<1>10. /\ Mem(gone) /\ gone.mailbox = off.mailbox /\ gone.snd = off.snd
       /\ gone.full = off.full \ {t}
       /\ gone.state = [off.state EXCEPT ![t] = "FREE"]
  BY <1>8 DEF Fewer, Mem, Boot
<1> HIDE DEF gone
<1>11. Mute(k', gone)
  <2>1. Mute([gone EXCEPT !.panic = 1], gone)
    BY <1>10 DEF Mute, Mem, Boot
  <2>. QED  BY <1>2, <1>10, <2>1, QueueMute
<1>12. /\ k'.mailbox = off.mailbox /\ k'.snd = off.snd
       /\ k'.full = off.full \ {t}
       /\ k'.state = [off.state EXCEPT ![t] = "FREE"]
  BY <1>10, <1>11 DEF Mute
<1>13. /\ Posted(off)
       /\ \A r \in Thd : Abs!Thinned(Mails(off, r), Mails(k, r))
  BY <1>1, <1>8, FewerMails
<1>14. \A r \in Thd \ {t} : Mails(k', r) = Mails(off, r)
  BY <1>12, SameMails
<1>15. Posted(k')  BY <1>9, <1>12, <1>13 DEF Posted
<1>16. \A r \in Thd : Mails(k', r) \in Seq(Mail)  BY <1>15, MailsFacts
<1>17. Mails(k', t) = <<>>  BY <1>12, <1>15, MailsFacts
<1>18. Abs!Delete(t)
  <2>1. Box' \in [Thd -> Seq(Mail)]  BY <1>16, BoxMails
  <2>2. Box'[t] = <<>>  BY <1>17, BoxMails
  <2>3. \A r \in Thd \ {t} : Abs!Thinned(Box'[r], Box[r])
    BY <1>13, <1>14, BoxMails
  <2>4. got' = got  BY DEF Thd_Del
  <2>. QED  BY <2>1, <2>2, <2>3, <2>4 DEF Abs!Delete
<1>19. Roles(k', S)
  <2>1. /\ off.full = k.full
        /\ \A x \in Thd : off.state[x] \in Sending => k.state[x] \in Sending
        /\ DOMAIN off.state = Thd
    BY <1>8 DEF Fewer
  <2>2. \A x \in Thd : k'.state[x] = off.state[x] \/ k'.state[x] = "FREE"
    BY <1>12, <2>1
  <2>3. "FREE" \notin Sending  BY DEF Sending
  <2>. QED  BY <1>12, <2>1, <2>2, <2>3 DEF RoleInv, Roles
<1>. QED  BY <1>18, <1>19

----------------------------------------------------------------------------
(* The other mailbox calls, and the steps that give up at an assertion.    *)

\* Beginning to wait for mail.
LEMMA WaitFewer ==
  ASSUME IpcInv, NEW n, Thd_Rcv_Block(n)
  PROVE  Fewer(k', k)
<1>1. k \in Kernel /\ Mem(k) /\ Fewer(k, k)
  BY SafeInner, FewerRefl, KernelMem DEF IpcInv, IInv
<1> DEFINE u == Block(k, n, "RCVBLK", "RCVDLY")
<1>2. k' = [k EXCEPT !.panic = 1] \/ k' = Leave(u)
  BY DEF Thd_Rcv_Block
<1>3. Mute([k EXCEPT !.panic = 1], k)  BY <1>1 DEF Mute, Mem, Boot
<1>4. {"RCVBLK", "RCVDLY"} \cap Sending = {}  BY DEF Sending
<1>5. Fewer(u, k)  BY <1>1, <1>4, BlockFewer
<1> HIDE DEF u
<1>. QED  BY <1>1, <1>2, <1>3, <1>5, MuteFewer, QueueFewer

\* The end of the wait: a mail is received, or nothing happens.
LEMMA DoneStep ==
  ASSUME NEW S \in SUBSET Thd, RoleInv(S), NEW c \in Thd, Thd_Rcv_Done(c)
  PROVE  (Abs!Receive(c) \/ Abs!Withdraw) /\ Roles(k', S)
<1>1. Mem(k) /\ Fewer(k, k)
  BY RoleFacts, FewerRefl
<1>2. CASE c \in k.full /\ ((c \in k.full) <=> (k.retval[c] = "ok"))
  <2>1. k' = Leave(Thd_Unblock(k, c)) /\ got' = <<c, k.mailbox[c]>>
    BY <1>2 DEF Thd_Rcv_Done
  <2>. QED  BY <1>2, <2>1, ReceiveStep
<1>3. CASE ~(c \in k.full /\ ((c \in k.full) <=> (k.retval[c] = "ok")))
  <2>1. (k' = [k EXCEPT !.panic = 1] \/ k' = k) /\ got' = got
    BY <1>3 DEF Thd_Rcv_Done
  <2>2. Mute([k EXCEPT !.panic = 1], k)  BY <1>1 DEF Mute, Mem, Boot
  <2>3. Fewer(k', k)  BY <1>1, <2>1, <2>2, MuteFewer
  <2>. QED  BY <2>1, <2>3, WithdrawStep
<1>. QED  BY <1>2, <1>3

----------------------------------------------------------------------------
(* The refinement.                                                         *)

\* The threads of S serve the others: mail is sent to threads of S only, and
\* none of them waits to send.
ServedMail(S) ==
    \/ \E t \in S, d \in Mail :
          \/ Thd_Snd(t, d)
          \/ Thd_Snd_ISR(t, d)
          \/ k.cur \notin S /\ \E n \in Waits : Thd_Snd_Block(t, d, n)
    \/ \E c \in Thd : Thd_Rcv(c) \/ Thd_Rcv_Done(c)
    \/ \E n \in Waits : Thd_Rcv_Block(n)

\* All other calls are as in Next.
ServedNext(S) == CoreNext \/ ThreadNext \/ ServedMail(S) \/ SemNext
ServedSpec(S) == Init /\ [][ServedNext(S)]_vars

\* It is a restriction of the kernel's next-state relation.
LEMMA ServedIsNext ==
  ASSUME NEW S \in SUBSET Thd, ServedNext(S)
  PROVE  Next
BY DEF ServedNext, ServedMail, Next, MailNext

\* All mailboxes are empty when the kernel starts.
LEMMA InitStep ==
  ASSUME NEW S \in SUBSET Thd, Init
  PROVE  Abs!Init /\ RoleInv(S)
<1>1. IpcInv  BY InitSafe, InitIpc DEF IpcInv
<1>2. k.full = {} /\ \A t \in Thd : k.state[t] \in {"RUNNING", "FREE"}
  BY DEF Init, Boot
<1>3. \A t \in Thd : k.state[t] \notin Sending  BY <1>2 DEF Sending
<1>4. RoleInv(S)  BY <1>1, <1>2, <1>3 DEF RoleInv, Roles
<1>5. Posted(k)  BY <1>4, RoleFacts
<1>6. \A t \in Thd : Mails(k, t) = <<>>  BY <1>2, <1>5, MailsFacts
<1>7. Box = [t \in Thd |-> <<>>]  BY <1>6, BoxMails
<1>. QED  BY <1>4, <1>7 DEF Abs!Init, Init

\* No step of the scheduler, of a thread call but for deletions, or of a
\* semaphore call receives mail.
LEMMA NotGot ==
  ASSUME NEW t, NEW p, NEW n,
         \/ CoreNext \/ SemNext
         \/ Thd_Crt(t, p, n) \/ Thd_Set(t, p, n) \/ Thd_Delay(n)
         \/ Thd_Suspend(t) \/ Thd_Resume(t) \/ Thd_Cancel(t)
  PROVE  got' = got
<1>1. CoreNext => got' = got
  BY DEF CoreNext, Sched_Lock, Sched_Unlock, Yield, Switch, Tick, Halt, vars
<1>2. SemNext => got' = got
  BY DEF SemNext, Sem_Crt, Sem_Del, Sem_Post, Sem_Post_ISR, Sem_Bcst,
         Sem_Bcst_ISR, Sem_Pend, Sem_Pend_Unlock, Sem_Abort
<1>3. CASE \/ Thd_Crt(t, p, n) \/ Thd_Set(t, p, n) \/ Thd_Delay(n)
           \/ Thd_Suspend(t) \/ Thd_Resume(t) \/ Thd_Cancel(t)
  BY <1>3 DEF Thd_Crt, Thd_Set, Thd_Delay, Thd_Suspend, Thd_Resume, Thd_Cancel
<1>. QED  BY <1>1, <1>2, <1>3

\* Every call is a step of the queues.
LEMMA ServedStep ==
  ASSUME NEW S \in SUBSET Thd, RoleInv(S), ServedNext(S)
  PROVE  Abs!Next /\ Roles(k', S)
<1>1. IpcInv  BY DEF RoleInv
<1>2. CASE CoreNext \/ SemNext
  <2>1. Fewer(k', k) /\ got' = got
    BY <1>1, <1>2, CoreFewer, SemFewer, NotGot DEF IpcInv
  <2>. QED  BY <2>1, WithdrawStep DEF Abs!Next
<1>3. ASSUME NEW t \in Thd, NEW p, NEW n,
             \/ Thd_Crt(t, p, n) \/ Thd_Set(t, p, n) \/ Thd_Delay(n)
             \/ Thd_Suspend(t) \/ Thd_Resume(t) \/ Thd_Cancel(t)
      PROVE  Abs!Next /\ Roles(k', S)
  <2>1. Fewer(k', k)  BY <1>1, <1>3, ThreadFewer
  <2>2. got' = got  BY <1>3, NotGot
  <2>. QED  BY <2>1, <2>2, WithdrawStep DEF Abs!Next
<1>4. ASSUME NEW t \in Thd, Thd_Del(t)  PROVE Abs!Next /\ Roles(k', S)
  BY <1>4, DeleteStep DEF Abs!Next
<1>5. CASE ThreadNext
  <2>1. Idle \in Thd  BY CoreAssumption
  <2>. QED  BY <1>3, <1>4, <1>5, <2>1 DEF ThreadNext
<1>6. ASSUME NEW t \in S, NEW d \in Mail,
             \/ Thd_Snd(t, d) \/ Thd_Snd_ISR(t, d)
             \/ k.cur \notin S /\ \E n \in Waits : Thd_Snd_Block(t, d, n)
      PROVE  Abs!Next /\ Roles(k', S)
  <2>1. Abs!Send(t, d) /\ Roles(k', S)
    BY <1>6, SendStep, SendBlockStep
  <2>. QED  BY <2>1 DEF Abs!Next
<1>7. ASSUME NEW c \in Thd, Thd_Rcv(c)  PROVE Abs!Next /\ Roles(k', S)
  <2>1. Abs!Receive(c) /\ Roles(k', S)
    BY <1>7, ReceiveStep DEF Thd_Rcv
  <2>. QED  BY <2>1 DEF Abs!Next
<1>8. ASSUME NEW c \in Thd, Thd_Rcv_Done(c)  PROVE Abs!Next /\ Roles(k', S)
  BY <1>8, DoneStep DEF Abs!Next
<1>9. ASSUME NEW n, Thd_Rcv_Block(n)  PROVE Abs!Next /\ Roles(k', S)
  <2>1. Fewer(k', k) /\ got' = got  BY <1>1, <1>9, WaitFewer DEF Thd_Rcv_Block
  <2>. QED  BY <2>1, WithdrawStep DEF Abs!Next
<1>10. CASE ServedMail(S)
  BY <1>6, <1>7, <1>8, <1>9, <1>10 DEF ServedMail
<1>. QED  BY <1>2, <1>5, <1>10 DEF ServedNext

\* If the threads of S serve the others, the mailboxes are queues of mails:
\* no mail is lost, changed, doubled or overtaken by another one, unless its
\* sender gives up or a thread is deleted.
THEOREM MailRefines ==
  ASSUME NEW S \in SUBSET Thd
  PROVE  ServedSpec(S) => MailImplements
<1>1. Init => Abs!Init /\ RoleInv(S)  BY InitStep
<1>2. RoleInv(S) /\ [ServedNext(S)]_vars =>
         [Abs!Next]_<<Box, got>> /\ RoleInv(S)'
  <2>1. CASE UNCHANGED vars
    BY <2>1 DEF vars, Box, RoleInv, IpcInv, IInv, Roles
  <2>2. ASSUME RoleInv(S), ServedNext(S)
        PROVE  Abs!Next /\ RoleInv(S)'
    <3>1. Next  BY <2>2, ServedIsNext
    <3>2. IInv'
      BY <2>2, <3>1, CoreSafe, ThreadSafe, MailSafe, SemSafe
      DEF Next, RoleInv, IpcInv
    <3>3. Ipc(k', rcv')
      BY <2>2, <3>1, CoreIpc, ThreadIpc, MailIpc, SemIpc DEF Next, RoleInv
    <3>4. Abs!Next /\ Roles(k', S)  BY <2>2, ServedStep
    <3>. QED  BY <3>2, <3>3, <3>4 DEF RoleInv, IpcInv
  <2>. QED  BY <2>1, <2>2
<1>. QED  BY <1>1, <1>2, PTL DEF ServedSpec, MailImplements, Abs!Spec
=============================================================================
