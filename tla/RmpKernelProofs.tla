-------------------------- MODULE RmpKernelProofs --------------------------
(***************************************************************************)
(* The invariants of the kernel.  IInv: every step of every call,          *)
(* interrupt and context switch keeps the lists exact and the switch       *)
(* requested.  IpcInv, which rests on it, says what the wait lists mean:   *)
(* nobody waits to send to an empty mailbox, on a semaphore that could be  *)
(* taken, or for mail that is there.                                       *)
(***************************************************************************)
EXTENDS RmpCoreProofs, FiniteSetTheorems

----------------------------------------------------------------------------
(* The lists and the switch.                                               *)

\* The inductive invariant.
IInv == Safe(k) /\ rcv \in SUBSET Thd /\ got \in {<<>>} \cup Thd \X Mail

\* The parameters that bound the calls are words.
LEMMA WordLemma ==
  /\ Slices \subseteq Word /\ Waits \subseteq Word /\ Ticks \subseteq Word
  /\ Posts \subseteq Word
BY CoreAssumption, SemAssumption

\* The sets of threads by state, when one thread changes its state.
LEMMA StateSets ==
  ASSUME NEW s \in Kernel, NEW u, NEW t \in Thd, NEW v,
         u.state = [s.state EXCEPT ![t] = v], u.susp \ {t} = s.susp \ {t}
  PROVE  /\ Ready(u) = IF v = "RUNNING" /\ t \notin u.susp
                       THEN Ready(s) \cup {t} ELSE Ready(s) \ {t}
         /\ InState(u, Timed) = IF v \in Timed THEN InState(s, Timed) \cup {t}
                                               ELSE InState(s, Timed) \ {t}
         /\ InState(u, Sending) =
               IF v \in Sending THEN InState(s, Sending) \cup {t}
                                ELSE InState(s, Sending) \ {t}
         /\ InState(u, Pending) =
               IF v \in Pending THEN InState(s, Pending) \cup {t}
                                ELSE InState(s, Pending) \ {t}
<1>1. DOMAIN s.state = Thd  BY DEF Kernel
<1>2. \A x \in Thd : u.state[x] = IF x = t THEN v ELSE s.state[x]  BY <1>1
<1>3. \A x : x # t => (x \in u.susp <=> x \in s.susp)  OBVIOUS
<1>4. \A X : InState(u, X) = IF v \in X THEN InState(s, X) \cup {t}
                                        ELSE InState(s, X) \ {t}
  BY <1>2 DEF InState
<1>5. Ready(u) = IF v = "RUNNING" /\ t \notin u.susp
                 THEN Ready(s) \cup {t} ELSE Ready(s) \ {t}
  BY <1>2, <1>3 DEF Ready
<1>. QED  BY <1>4, <1>5

\* The priority of a thread that is on no run queue plays no part.
LEMMA PrioGood ==
  ASSUME NEW s, NEW u \in Kernel, NEW R, NEW D, NEW S, NEW P,
         Good(s, R, D, S, P), NEW t, t \notin R, NEW p,
         u.prio = [s.prio EXCEPT ![t] = p],
         u.run = s.run, u.bitmap = s.bitmap, u.cur = s.cur, u.pend = s.pend,
         u.delay = s.delay, u.snd = s.snd, u.wait = s.wait
  PROVE  Good(u, R, D, S, P)
<1>1. /\ \A x \in R : u.prio[x] = s.prio[x]
      /\ R \subseteq Thd
  BY DEF Good, Kernel
<1>2. Queued(u, R)
  <2>1. \A x \in Prio : {y \in R : u.prio[y] = x} = {y \in R : s.prio[y] = x}
    BY <1>1
  <2>2. Queued(s, R)  BY DEF Good
  <2>. QED  BY <2>1, <2>2 DEF Queued
<1>3. Highest(u, R)  BY <1>1 DEF Good, Highest
<1>. QED  BY <1>2, <1>3 DEF Good

----------------------------------------------------------------------------
(* The scheduler.                                                          *)

\* After the start of the kernel only the initial thread is on a list.
LEMMA InitSafe == Init => IInv
<1> SUFFICES ASSUME Init  PROVE IInv
  OBVIOUS
<1> USE CoreAssumption
<1>1. k = Boot /\ rcv = {} /\ got = <<>>  BY DEF Init
<1>2. BootMail \in Mail  BY DEF BootMail
<1>3. 0 \in Prio /\ 0 \in Word /\ 0 \in 0..LockMax /\ 1 \in 0..LockMax
  BY DEF Prio, Word
<1>4. k \in Kernel
  BY <1>1, <1>2, <1>3 DEF Boot, Kernel, ThdState, Blocked, Sending, Pending
<1>5. /\ k.state = [t \in Thd |-> IF t = Idle THEN "RUNNING" ELSE "FREE"]
      /\ k.susp = {} /\ k.prio = [t \in Thd |-> 0]
      /\ k.snd = [t \in Thd |-> <<>>] /\ k.wait = [x \in Sem |-> <<>>]
      /\ k.run = [p \in Prio |-> IF p = 0 THEN <<Idle>> ELSE <<>>]
      /\ k.bitmap = {0} /\ k.delay = <<>> /\ k.cur = Idle
      /\ k.lock = 1 /\ k.pend = 0 /\ k.soft = 0 /\ k.panic = 0
  BY <1>1 DEF Boot
<1>6. /\ Ready(k) = {Idle}
      /\ InState(k, Timed) = {} /\ InState(k, Sending) = {}
      /\ InState(k, Pending) = {}
  BY <1>5 DEF Ready, InState, Timed, Sending, Pending
<1>7. ToSet(<<>>) = {} /\ ToSet(<<Idle>>) = {Idle}  BY DEF ToSet
<1>8. IsInjective(<<>>) /\ IsInjective(<<Idle>>)  BY DEF IsInjective
<1>9. Queued(k, {Idle})
  <2> SUFFICES ASSUME NEW p \in Prio
               PROVE  /\ IsInjective(k.run[p])
                      /\ ToSet(k.run[p]) = {t \in {Idle} : k.prio[t] = p}
                      /\ p \in k.bitmap <=> k.run[p] # <<>>
    BY DEF Queued
  <2>1. CASE p = 0  BY <2>1, <1>5, <1>7, <1>8
  <2>2. CASE p # 0  BY <2>2, <1>5, <1>7, <1>8
  <2>. QED  BY <2>1, <2>2
<1>10. Highest(k, {Idle})
  <2>1. Head(k.run[k.prio[k.cur]]) = Idle  BY <1>3, <1>5
  <2>. QED  BY <1>3, <1>5, <2>1 DEF Highest
<1>11. Listed(k.snd, {}) /\ Listed(k.wait, {})
  BY <1>5, <1>7, <1>8 DEF Listed
<1>12. KInv(k)
  <2>1. Owners(k)  BY <1>5 DEF Owners
  <2>. QED  BY <1>4, <1>5, <1>6, <1>7, <1>8, <1>9, <1>10, <1>11, <2>1
           DEF KInv, Good
<1>. QED  BY <1>1, <1>5, <1>12 DEF IInv, Safe

\* RMP_Sched_Lock, RMP_Sched_Unlock, RMP_Yield, the context switch handler,
\* the timer interrupt and the halted system.
LEMMA CoreSafe == IInv /\ CoreNext => IInv'
<1> SUFFICES ASSUME IInv, CoreNext  PROVE IInv'
  OBVIOUS
<1>1. Safe(k) /\ Inner(k) /\ k \in Kernel /\ KInv(k)
  BY SafeInner DEF IInv
<1>2. SUFFICES ASSUME UNCHANGED <<rcv, got>>  PROVE Safe(k')
  BY <1>1 DEF IInv, CoreNext, Sched_Lock, Sched_Unlock, Yield, Switch, Tick,
              Halt, vars
<1>3. k.lock \in 0..LockMax /\ LockMax \in Nat
  BY <1>1, CoreAssumption DEF Kernel
<1>4. CASE Sched_Lock
  <2> DEFINE u == [k EXCEPT !.lock = k.lock + 1]
  <2>1. k' = u /\ k.soft = 0 /\ k.lock < LockMax  BY <1>4 DEF Sched_Lock, User
  <2>2. /\ u \in Kernel /\ SameLists(u, k) /\ u.pend = k.pend
        /\ u.state = k.state /\ u.susp = k.susp /\ u.used = k.used
        /\ u.lock = k.lock + 1 /\ u.soft = k.soft /\ u.panic = k.panic
    <3>1. k.lock + 1 \in 0..LockMax  BY <1>3, <2>1
    <3>. QED  BY <1>1, <3>1 DEF Kernel, SameLists
  <2> HIDE DEF u
  <2>3. KInv(u)  BY <1>1, <2>2, KInvSame
  <2>4. u.lock # 0  BY <1>3, <2>2
  <2>. QED  BY <1>1, <2>1, <2>2, <2>3, <2>4 DEF Safe, SameLists
<1>5. CASE Sched_Unlock
  <2> DEFINE u == [k EXCEPT !.lock = k.lock - 1]
  <2>1. k' = Leave(u) /\ k.soft = 0 /\ k.lock > 0
    BY <1>5 DEF Sched_Unlock, User
  <2>2. /\ u \in Kernel /\ SameLists(u, k) /\ u.pend = k.pend
        /\ u.state = k.state /\ u.susp = k.susp /\ u.used = k.used
        /\ u.lock = k.lock - 1 /\ u.soft = k.soft /\ u.panic = k.panic
    <3>1. k.lock - 1 \in 0..LockMax  BY <1>3, <2>1
    <3>. QED  BY <1>1, <3>1 DEF Kernel, SameLists
  <2> HIDE DEF u
  <2>3. KInv(u)  BY <1>1, <2>2, KInvSame
  <2>4. Inner(u)  BY <1>1, <2>1, <2>2, <2>3 DEF Inner, SameLists
  <2>. QED  BY <2>1, <2>4, LeaveSafe
<1>6. CASE Yield
  <2> DEFINE a == [k EXCEPT !.soft = 1]
             b == [k EXCEPT !.pend = 1]
  <2>1. CASE k.lock = 0
    <3>1. k' = a  BY <1>6, <2>1 DEF Yield
    <3>2. /\ a \in Kernel /\ SameLists(a, k) /\ a.pend = k.pend
          /\ a.state = k.state /\ a.susp = k.susp /\ a.used = k.used
          /\ a.lock = k.lock /\ a.soft = 1
      BY <1>1 DEF Kernel, SameLists
    <3> HIDE DEF a
    <3>3. KInv(a)  BY <1>1, <3>2, KInvSame
    <3>. QED  BY <2>1, <3>1, <3>2, <3>3 DEF Safe
  <2>2. CASE k.lock # 0
    <3>1. k' = b /\ k.soft = 0  BY <1>6, <2>2 DEF Yield, User
    <3>2. /\ b \in Kernel /\ SameLists(b, k) /\ b.pend = 1
          /\ b.state = k.state /\ b.susp = k.susp /\ b.used = k.used
          /\ b.lock = k.lock /\ b.soft = k.soft /\ b.panic = k.panic
      BY <1>1 DEF Kernel, SameLists
    <3> HIDE DEF b
    <3>3. KInv(b)  BY <1>1, <3>2, KInvSame
    <3>. QED  BY <1>1, <2>2, <3>1, <3>2, <3>3 DEF Safe, SameLists
  <2>. QED  BY <2>1, <2>2
<1>7. CASE Switch
  <2>1. k' = Run_High(k) /\ k.lock = 0  BY <1>7 DEF Switch, Interrupt
  <2>. QED  BY <1>1, <2>1, RunHigh
<1>8. ASSUME NEW n \in Ticks, Tick(n)  PROVE Safe(k')
  <2>1. k' = Leave(Tim_Handler(k, n)) /\ n \in Word
    BY <1>8, WordLemma DEF Tick
  <2>2. Inner(Tim_Handler(k, n))  BY <1>1, <2>1, TimHandler
  <2>. QED  BY <2>1, <2>2, LeaveSafe
<1>9. CASE Halt
  <2>1. k' = k  BY <1>9 DEF Halt, vars
  <2>. QED  BY <1>1, <2>1
<1>. QED  BY <1>4, <1>5, <1>6, <1>7, <1>8, <1>9 DEF CoreNext

----------------------------------------------------------------------------
(* Threads.                                                                *)

\* A thread on no list enters the run queues as it is created.
LEMMA ThdCrt ==
  ASSUME Safe(k), NEW t \in Thd, NEW p \in Prio, NEW n \in Slices,
         Thd_Crt(t, p, n)
  PROVE  Safe(k')
<1> DEFINE f == [k.snd EXCEPT ![t] = <<>>]
           new == [k EXCEPT !.prio[t] = p, !.slice[t] = n, !.left[t] = n,
                            !.snd[t] = <<>>, !.state[t] = "RUNNING",
                            !.susp = @ \ {t}, !.full = @ \ {t}]
           u == Run_Ins(new, t)
           R == Ready(k)
           D == InState(k, Timed)
           S == InState(k, Sending)
           P == InState(k, Pending)
<1>1. Inner(k) /\ k \in Kernel /\ KInv(k) /\ Good(k, R, D, S, P) /\ Owners(k)
  BY SafeInner DEF KInv
<1>2. k.state[t] = "FREE" /\ k' = Leave(u)  BY DEF Thd_Crt
<1>3. k.snd[t] = <<>>  BY <1>1, <1>2 DEF Owners
<1>4. [k.snd EXCEPT ![t] = <<>>] = k.snd  BY <1>1, <1>3 DEF Kernel
<1>5. /\ new \in Kernel
      /\ new.prio = [k.prio EXCEPT ![t] = p]
      /\ new.state = [k.state EXCEPT ![t] = "RUNNING"]
      /\ new.susp = k.susp \ {t}
  <2>1. n \in Word  BY WordLemma
  <2>2. <<>> \in Seq(Thd) /\ "RUNNING" \in ThdState  BY DEF ThdState
  <2>3. new \in Kernel
    <3> DEFINE v == [k EXCEPT !.prio[t] = p, !.slice[t] = n, !.left[t] = n]
    <3>1. v \in Kernel  BY <1>1, <2>1 DEF Kernel
    <3>2. new = [v EXCEPT !.snd[t] = <<>>, !.state[t] = "RUNNING",
                          !.susp = @ \ {t}, !.full = @ \ {t}]
      BY <1>1 DEF Kernel
    <3> HIDE DEF v, new
    <3>. QED  BY <3>1, <3>2, <2>2 DEF Kernel
  <2>4. /\ new.prio = [k.prio EXCEPT ![t] = p]
        /\ new.state = [k.state EXCEPT ![t] = "RUNNING"]
        /\ new.susp = k.susp \ {t}
    BY <1>1 DEF Kernel
  <2>. QED  BY <2>3, <2>4
<1>6. /\ new.run = k.run /\ new.bitmap = k.bitmap /\ new.cur = k.cur
      /\ new.pend = k.pend /\ new.delay = k.delay /\ new.wait = k.wait
      /\ new.lock = k.lock /\ new.soft = k.soft /\ new.panic = k.panic
      /\ new.used = k.used
      /\ new.snd = k.snd
  BY <1>1, <1>4 DEF Kernel
<1> HIDE DEF new
<1>7. t \notin R /\ t \notin D /\ t \notin S /\ t \notin P
  BY <1>2 DEF Ready, InState, Timed, Sending, Pending
<1>8. Good(new, R, D, S, P)  BY <1>1, <1>5, <1>6, <1>7, PrioGood
<1>9. t \notin new.susp  BY <1>5
<1>10. Good(u, R \cup {t}, D, S, P)  BY <1>7, <1>8, <1>9, RunIns
<1>11. /\ SameRest(u, new) /\ u.state = new.state
       /\ u.snd = new.snd /\ u.wait = new.wait
  BY <1>5, <1>9, RunInsFields
<1> HIDE DEF u
<1>12. u.susp \ {t} = k.susp \ {t} /\ t \notin u.susp
  BY <1>5, <1>11 DEF SameRest
<1>13. /\ Ready(u) = R \cup {t} /\ InState(u, Timed) = D
       /\ InState(u, Sending) = S /\ InState(u, Pending) = P
  <2>1. "RUNNING" \notin Timed \cup Sending \cup Pending
    BY DEF Timed, Sending, Pending
  <2>2. D \ {t} = D /\ S \ {t} = S /\ P \ {t} = P  BY <1>7
  <2>3. u.state = [k.state EXCEPT ![t] = "RUNNING"]  BY <1>5, <1>11
  <2>4. /\ Ready(u) = R \cup {t} /\ InState(u, Timed) = D \ {t}
        /\ InState(u, Sending) = S \ {t} /\ InState(u, Pending) = P \ {t}
    BY <2>1, <2>3, <1>1, <1>12, StateSets
  <2>. QED  BY <2>2, <2>4
<1>14. u.snd = k.snd /\ u.wait = k.wait /\ u.used = k.used
  BY <1>6, <1>11 DEF SameRest
<1>15. Owners(u)
  BY <1>1, <1>3, <1>5, <1>11, <1>14 DEF Owners, Kernel
<1>16. KInv(u)  BY <1>1, <1>10, <1>13, <1>15 DEF KInv
<1>17. /\ u.lock = k.lock /\ u.soft = k.soft /\ u.panic = k.panic
       /\ u.cur = k.cur
  BY <1>6, <1>11 DEF SameRest
<1>18. u.state[k.cur] = "RUNNING" \/ u.state[k.cur] = k.state[k.cur]
  BY <1>1, <1>5, <1>11 DEF Kernel
<1>19. Inner(u)  BY <1>1, <1>16, <1>17, <1>18 DEF Inner
<1>. QED  BY <1>2, <1>19, LeaveSafe

\* A deleted thread leaves every list, and the threads that waited to send
\* to it are ready again.
LEMMA ThdDel ==
  ASSUME Safe(k), NEW t \in Thd, Thd_Del(t)
  PROVE  Safe(k')
<1> DEFINE w == WakeAll(k, k.snd[t])
           s == SetRetval(w, ToSet(k.snd[t]), "err")
           off == IF s.state[t] = "RUNNING" THEN Run_Del(s, t)
                                            ELSE Unlink(s, t)
           gone == [off EXCEPT !.retval[t] = "err", !.state[t] = "FREE",
                               !.susp = @ \ {t}, !.full = @ \ {t}]
           R == Ready(s)
           D == InState(s, Timed)
           S == InState(s, Sending)
           P == InState(s, Pending)
<1>1. Inner(k) /\ k \in Kernel /\ KInv(k) /\ (k.lock > 0 => k.soft = 0)
  BY SafeInner
<1>2. t # Idle /\ k.state[t] # "FREE" /\ k.soft = 0
  BY DEF Thd_Del, User
<1>3. k' = IF t = k.cur /\ k.lock > 0 THEN [gone EXCEPT !.panic = 1]
                                      ELSE Leave(gone)
  BY DEF Thd_Del
<1>4. /\ k.snd[t] \in Seq(Thd) /\ IsInjective(k.snd[t])
      /\ \A x \in ToSet(k.snd[t]) : k.state[x] \in Blocked
  <2>1. DOMAIN k.snd = Thd /\ k.snd[t] \in Seq(Thd)  BY <1>1 DEF Kernel
  <2>2. Apart(k.snd, InState(k, Sending))
    BY <1>1, ListedDef DEF KInv, Good
  <2>3. IsInjective(k.snd[t])  BY <2>1, <2>2 DEF Apart
  <2>4. \A x \in ToSet(k.snd[t]) : x \in InState(k, Sending)
    BY <2>1, <2>2 DEF Apart
  <2>. QED  BY <2>1, <2>3, <2>4 DEF InState, Blocked
<1>5. KInv(w) /\ Woken(w, k, ToSet(k.snd[t]))  BY <1>1, <1>4, WakeEach
<1> HIDE DEF w
<1>6. Inner(w) /\ w \in Kernel  BY <1>1, <1>5, WokenInner DEF KInv, Good
<1>7. Inner(s) /\ KInv(s)  BY <1>6, RetvalInner DEF Inner
<1>8. /\ SameRest(s, w) /\ s.state = w.state
      /\ s.snd = w.snd /\ s.wait = w.wait
  BY <1>6, RetvalFields
<1> HIDE DEF s
<1>9. /\ s.state[t] # "FREE"
      /\ s.lock = k.lock /\ s.soft = k.soft /\ s.panic = k.panic
      /\ s.cur = k.cur
  BY <1>2, <1>5, <1>8 DEF Woken, SameRest
<1>10. s \in Kernel /\ Good(s, R, D, S, P) /\ Owners(s) /\ Idle \in R
  BY <1>7 DEF KInv, Good
<1>11. s.snd[t] = <<>>
  <2>1. ToSet(s.snd[t]) = {}  BY <1>5, <1>8 DEF Woken, Shrunk
  <2>2. s.snd[t] \in Seq(Thd)  BY <1>10 DEF Kernel
  <2>. QED  BY <2>1, <2>2, EmptySet
<1>12. s.state[t] \in ThdState  BY <1>10 DEF Kernel
<1>13. /\ Good(off, R \ {t}, D \ {t}, S \ {t}, P \ {t})
       /\ SameRest(off, s) /\ off.state = s.state
       /\ \A r \in Thd : ToSet(off.snd[r]) \subseteq ToSet(s.snd[r])
       /\ \A x \in Sem : ToSet(off.wait[x]) \subseteq ToSet(s.wait[x])
  <2>1. CASE s.state[t] = "RUNNING"
    <3>1. off = Run_Del(s, t)  BY <2>1
    <3>2. t \in R <=> t \notin s.susp  BY <2>1 DEF Ready
    <3>3. D \ {t} = D /\ S \ {t} = S /\ P \ {t} = P
      BY <2>1 DEF InState, Timed, Sending, Pending
    <3> HIDE DEF R, D, S, P
    <3>4. /\ Good(off, R \ {t}, D, S, P)
          /\ SameRest(off, s) /\ off.state = s.state
          /\ off.snd = s.snd /\ off.wait = s.wait
      BY <3>1, <3>2, <1>10, RunDelAny
    <3>. QED  BY <3>3, <3>4
  <2>2. CASE s.state[t] # "RUNNING"
    <3>1. off = Unlink(s, t)  BY <2>2
    <3>2. R \ {t} = R  BY <2>2 DEF Ready
    <3>3. /\ t \in D <=> s.state[t] \in Timed
          /\ t \in S <=> s.state[t] \in Sending
          /\ t \in P <=> s.state[t] \in Pending
      BY DEF InState
    <3> HIDE DEF R, D, S, P, off
    <3>4. Good(off, R, D \ {t}, S \ {t}, P \ {t}) /\ Shrunk(off, s, {t})
      <4>1. Good(s, R, D, S, P)  BY <1>10
      <4>. QED  BY <4>1, <3>1, <3>3, Unlinked
    <3>5. SameRest(off, s) /\ off.state = s.state
      BY <3>1, <1>10, UnlinkRest
    <3>. QED  BY <3>2, <3>4, <3>5 DEF Shrunk
  <2>. QED  BY <2>1, <2>2
<1> HIDE DEF off
<1>14. /\ gone \in Kernel /\ SameLists(gone, off) /\ gone.pend = off.pend
       /\ gone.state = [s.state EXCEPT ![t] = "FREE"]
       /\ gone.susp = s.susp \ {t} /\ gone.used = s.used
       /\ gone.lock = k.lock /\ gone.soft = k.soft /\ gone.panic = k.panic
       /\ gone.cur = k.cur
  <2>1. off \in Kernel /\ "FREE" \in ThdState  BY <1>13 DEF Good, ThdState
  <2>. QED  BY <2>1, <1>9, <1>13 DEF Kernel, SameLists, SameRest
<1> HIDE DEF gone
<1>15. /\ Ready(gone) = R \ {t} /\ InState(gone, Timed) = D \ {t}
       /\ InState(gone, Sending) = S \ {t}
       /\ InState(gone, Pending) = P \ {t}
  <2>1. "FREE" \notin Timed \cup Sending \cup Pending
    BY DEF Timed, Sending, Pending
  <2>2. gone.susp \ {t} = s.susp \ {t}  BY <1>14
  <2>. QED  BY <2>1, <2>2, <1>10, <1>14, StateSets
<1>16. Good(gone, R \ {t}, D \ {t}, S \ {t}, P \ {t})
  BY <1>13, <1>14, GoodSame
<1>17. Owners(gone)
  <2>1. \A r \in Thd : s.snd[r] # <<>> => gone.state[r] # "FREE"
    BY <1>10, <1>11, <1>14 DEF Owners, Kernel
  <2>2. \A x \in Sem : s.wait[x] # <<>> => x \in gone.used
    BY <1>10, <1>14 DEF Owners
  <2>3. /\ \A r \in Thd : ToSet(gone.snd[r]) \subseteq ToSet(s.snd[r])
        /\ \A x \in Sem : ToSet(gone.wait[x]) \subseteq ToSet(s.wait[x])
    BY <1>13, <1>14 DEF SameLists
  <2>. QED  BY <2>1, <2>2, <2>3, <1>10, <1>14, OwnersShrink
<1>18. KInv(gone)
  <2>1. Idle \in R \ {t}  BY <1>2, <1>10
  <2> HIDE DEF R, D, S, P
  <2>. QED  BY <2>1, <1>15, <1>16, <1>17 DEF KInv
<1>19. CASE t = k.cur /\ k.lock > 0
  <2> DEFINE u == [gone EXCEPT !.panic = 1]
  <2>1. k' = u  BY <1>3, <1>19
  <2>2. /\ u \in Kernel /\ SameLists(u, gone) /\ u.pend = gone.pend
        /\ u.state = gone.state /\ u.susp = gone.susp /\ u.used = gone.used
        /\ u.lock = k.lock /\ u.soft = k.soft /\ u.panic = 1
    BY <1>14 DEF Kernel, SameLists
  <2> HIDE DEF u
  <2>3. KInv(u)  BY <1>18, <2>2, KInvSame
  <2>4. k.lock # 0
    <3>1. k.lock \in Nat  BY <1>1, CoreAssumption DEF Kernel
    <3>. QED  BY <3>1, <1>19
  <2>. QED  BY <1>2, <2>1, <2>2, <2>3, <2>4 DEF Safe
<1>20. CASE ~(t = k.cur /\ k.lock > 0)
  <2>1. k' = Leave(gone)  BY <1>3, <1>20
  <2>2. k.panic = 0 /\ k.lock > 0 => gone.state[k.cur] = "RUNNING"
    <3>1. k.cur \in Thd /\ s.state \in [Thd -> ThdState]
      BY <1>1, <1>10 DEF Kernel
    <3>. QED  BY <3>1, <1>7, <1>9, <1>14, <1>20 DEF Inner
  <2>3. Inner(gone)  BY <2>2, <1>2, <1>14, <1>18 DEF Inner
  <2>. QED  BY <2>1, <2>3, LeaveSafe
<1>. QED  BY <1>19, <1>20

\* A ready thread moves between queues; any other only gets its priority.
LEMMA ThdSet ==
  ASSUME Safe(k), NEW t \in Thd, NEW p \in 0..PrioNum, NEW n \in Slices,
         Thd_Set(t, p, n)
  PROVE  Safe(k')
<1> DEFINE off == Run_Del(k, t)
           mid == [off EXCEPT !.prio[t] = p]
           moved == IF k.state[t] = "RUNNING" THEN Run_Ins(mid, t)
                                              ELSE [k EXCEPT !.prio[t] = p]
           set == IF p < PrioNum /\ p # k.prio[t] THEN moved ELSE k
           u == [set EXCEPT !.slice[t] = IF n < SliceMax THEN n ELSE @]
           R == Ready(k)
           D == InState(k, Timed)
           S == InState(k, Sending)
           P == InState(k, Pending)
           Like(s) == /\ s.state = k.state /\ s.susp = k.susp
                      /\ s.used = k.used /\ s.cur = k.cur
                      /\ s.lock = k.lock /\ s.soft = k.soft
                      /\ s.panic = k.panic
                      /\ s.snd = k.snd /\ s.wait = k.wait
<1>1. Inner(k) /\ k \in Kernel /\ KInv(k) /\ Good(k, R, D, S, P) /\ Owners(k)
  BY SafeInner DEF KInv
<1>2. k' = Leave(u)  BY DEF Thd_Set
<1>3. ASSUME p < PrioNum, k.state[t] = "RUNNING"
      PROVE  Good(moved, R, D, S, P) /\ Like(moved)
  <2>1. p \in Prio  BY <1>3, CoreAssumption DEF Prio
  <2>2. t \in R <=> t \notin k.susp  BY <1>3 DEF Ready
  <2> HIDE DEF R, D, S, P
  <2>3. /\ Good(off, R \ {t}, D, S, P) /\ SameRest(off, k)
        /\ off.state = k.state /\ off.snd = k.snd /\ off.wait = k.wait
    BY <1>1, <2>2, RunDelAny
  <2> HIDE DEF off
  <2>4. off \in Kernel  BY <2>3 DEF Good
  <2>5. /\ mid \in Kernel /\ mid.prio = [off.prio EXCEPT ![t] = p]
        /\ mid.run = off.run /\ mid.bitmap = off.bitmap
        /\ mid.cur = off.cur /\ mid.pend = off.pend
        /\ mid.delay = off.delay /\ mid.snd = off.snd
        /\ mid.wait = off.wait
    BY <2>1, <2>4 DEF Kernel
  <2>6. /\ mid.state = off.state /\ mid.susp = off.susp
        /\ mid.used = off.used /\ mid.lock = off.lock
        /\ mid.soft = off.soft /\ mid.panic = off.panic
    BY <2>4 DEF Kernel
  <2>7. moved = Run_Ins(mid, t)  BY <1>3
  <2> HIDE DEF mid, moved
  <2>8. Good(mid, R \ {t}, D, S, P)  BY <2>3, <2>5, PrioGood
  <2>9. mid.susp = k.susp /\ Like(mid)
    BY <2>3, <2>5, <2>6 DEF SameRest
  <2>10. /\ Good(moved, IF t \in mid.susp THEN R \ {t} ELSE (R \ {t}) \cup {t},
                 D, S, P)
         /\ SameRest(moved, mid) /\ moved.state = mid.state
         /\ moved.snd = mid.snd /\ moved.wait = mid.wait
    BY <2>7, <2>8, RunInsAny
  <2>11. (IF t \in mid.susp THEN R \ {t} ELSE (R \ {t}) \cup {t}) = R
    BY <2>2, <2>9
  <2>. QED  BY <2>9, <2>10, <2>11 DEF SameRest
<1>4. ASSUME p < PrioNum, k.state[t] # "RUNNING"
      PROVE  Good(moved, R, D, S, P) /\ Like(moved)
  <2>1. p \in Prio  BY <1>4, CoreAssumption DEF Prio
  <2>2. moved = [k EXCEPT !.prio[t] = p] /\ t \notin R
    BY <1>4 DEF Ready
  <2> HIDE DEF moved, R, D, S, P
  <2>3. /\ moved \in Kernel /\ moved.prio = [k.prio EXCEPT ![t] = p]
        /\ moved.run = k.run /\ moved.bitmap = k.bitmap
        /\ moved.pend = k.pend /\ moved.delay = k.delay
        /\ Like(moved)
    BY <1>1, <2>1, <2>2 DEF Kernel
  <2>4. Good(moved, R, D, S, P)
    <3>1. Good(k, R, D, S, P) /\ t \notin R  BY <1>1, <2>2
    <3>. QED  BY <2>3, <3>1, PrioGood
  <2>. QED  BY <2>3, <2>4
<1> HIDE DEF moved
<1>5. Good(set, R, D, S, P) /\ Like(set)
  BY <1>1, <1>3, <1>4
<1> HIDE DEF set
<1>6. /\ u \in Kernel /\ SameLists(u, set) /\ u.pend = set.pend /\ Like(u)
  <2>1. n \in Word /\ set \in Kernel  BY <1>5, WordLemma DEF Good
  <2>2. (IF n < SliceMax THEN n ELSE set.slice[t]) \in Word
    BY <2>1 DEF Kernel
  <2> DEFINE v == IF n < SliceMax THEN n ELSE set.slice[t]
  <2>3. u = [set EXCEPT !.slice[t] = v]  BY <2>1 DEF Kernel
  <2> HIDE DEF v, u
  <2>4. v \in Word  BY <2>2 DEF v
  <2>5. u \in Kernel /\ SameLists(u, set) /\ u.pend = set.pend
    BY <2>1, <2>3, <2>4 DEF Kernel, SameLists
  <2>6. Like(u)  BY <1>5, <2>1, <2>3 DEF Kernel
  <2>. QED  BY <2>5, <2>6
<1> HIDE DEF u
<1>7. Good(u, R, D, S, P)  BY <1>5, <1>6, GoodSame
<1>8. /\ Ready(u) = R /\ InState(u, Timed) = D
      /\ InState(u, Sending) = S /\ InState(u, Pending) = P
  BY <1>6 DEF Ready, InState
<1>9. Owners(u)  BY <1>1, <1>6 DEF Owners
<1>10. KInv(u)  BY <1>1, <1>7, <1>8, <1>9 DEF KInv
<1>11. Inner(u)  BY <1>1, <1>6, <1>10 DEF Inner
<1>. QED  BY <1>2, <1>11, LeaveSafe

\* A suspended thread stays on the lists it waits on, and leaves the run
\* queues.
LEMMA ThdSuspend ==
  ASSUME Safe(k), NEW t \in Thd, Thd_Suspend(t)
  PROVE  Safe(k')
<1> DEFINE off == IF k.state[t] = "RUNNING" THEN Run_Del(k, t) ELSE k
           u == [off EXCEPT !.susp = @ \cup {t}]
           R == Ready(k)
           D == InState(k, Timed)
           S == InState(k, Sending)
           P == InState(k, Pending)
<1>1. Inner(k) /\ k \in Kernel /\ KInv(k) /\ Good(k, R, D, S, P) /\ Owners(k)
  BY SafeInner DEF KInv
<1>2. k' = Leave(u) /\ t # Idle /\ t \notin k.susp  BY DEF Thd_Suspend
<1>3. /\ Good(off, R \ {t}, D, S, P) /\ SameRest(off, k)
      /\ off.state = k.state /\ off.snd = k.snd /\ off.wait = k.wait
  <2>1. CASE k.state[t] = "RUNNING"
    <3>1. off = Run_Del(k, t) /\ (t \in R <=> t \notin k.susp)
      BY <2>1 DEF Ready
    <3> HIDE DEF R, D, S, P
    <3>. QED  BY <3>1, <1>1, RunDelAny
  <2>2. CASE k.state[t] # "RUNNING"
    <3>1. off = k /\ R \ {t} = R  BY <2>2 DEF Ready
    <3> HIDE DEF R, D, S, P
    <3>. QED  BY <3>1, <1>1 DEF SameRest
  <2>. QED  BY <2>1, <2>2
<1> HIDE DEF off
<1>4. /\ u \in Kernel /\ SameLists(u, off) /\ u.pend = off.pend
      /\ u.state = k.state /\ u.susp = k.susp \cup {t} /\ u.used = k.used
      /\ u.cur = k.cur /\ u.lock = k.lock /\ u.soft = k.soft
      /\ u.panic = k.panic /\ u.snd = k.snd /\ u.wait = k.wait
  <2>1. off \in Kernel  BY <1>3 DEF Good
  <2>. QED  BY <2>1, <1>3 DEF Kernel, SameLists, SameRest
<1> HIDE DEF u
<1>5. Good(u, R \ {t}, D, S, P)  BY <1>3, <1>4, GoodSame
<1>6. /\ Ready(u) = R \ {t} /\ InState(u, Timed) = D
      /\ InState(u, Sending) = S /\ InState(u, Pending) = P
  BY <1>4 DEF Ready, InState
<1>7. Owners(u)  BY <1>1, <1>4 DEF Owners
<1>8. Idle \in R \ {t}  BY <1>1, <1>2 DEF KInv
<1>9. KInv(u)  BY <1>5, <1>6, <1>7, <1>8 DEF KInv
<1>10. Inner(u)  BY <1>1, <1>4, <1>9 DEF Inner
<1>. QED  BY <1>2, <1>10, LeaveSafe

\* A resumed thread enters the run queues only if it waits for nothing.
LEMMA ThdResume ==
  ASSUME Safe(k), NEW t \in Thd, Thd_Resume(t)
  PROVE  Safe(k')
<1> DEFINE on == [k EXCEPT !.susp = @ \ {t}]
           u == IF k.state[t] = "RUNNING" THEN Run_Ins(on, t) ELSE on
           R == Ready(k)
           D == InState(k, Timed)
           S == InState(k, Sending)
           P == InState(k, Pending)
           E == IF k.state[t] = "RUNNING" THEN R \cup {t} ELSE R
<1>1. Inner(k) /\ k \in Kernel /\ KInv(k) /\ Good(k, R, D, S, P) /\ Owners(k)
  BY SafeInner DEF KInv
<1>2. k' = Leave(u) /\ t \in k.susp  BY DEF Thd_Resume
<1>3. /\ on \in Kernel /\ SameLists(on, k) /\ on.pend = k.pend
      /\ on.state = k.state /\ on.susp = k.susp \ {t} /\ on.used = k.used
      /\ on.cur = k.cur /\ on.lock = k.lock /\ on.soft = k.soft
      /\ on.panic = k.panic /\ on.snd = k.snd /\ on.wait = k.wait
  BY <1>1 DEF Kernel, SameLists
<1> HIDE DEF on
<1>4. Good(on, R, D, S, P) /\ t \notin R
  BY <1>1, <1>2, <1>3, GoodSame DEF Ready
<1>5. /\ Good(u, E, D, S, P) /\ SameRest(u, on)
      /\ u.state = on.state /\ u.snd = on.snd /\ u.wait = on.wait
  <2> HIDE DEF R, D, S, P
  <2>1. CASE k.state[t] = "RUNNING"
    <3>1. u = Run_Ins(on, t) /\ E = R \cup {t} /\ t \notin on.susp
      BY <2>1, <1>3
    <3>. QED  BY <3>1, <1>4, RunInsAny
  <2>2. CASE k.state[t] # "RUNNING"
    <3>1. u = on /\ E = R  BY <2>2
    <3>. QED  BY <3>1, <1>4 DEF SameRest
  <2>. QED  BY <2>1, <2>2
<1> HIDE DEF u
<1>6. /\ u.state = k.state /\ u.susp = k.susp \ {t} /\ u.used = k.used
      /\ u.cur = k.cur /\ u.lock = k.lock /\ u.soft = k.soft
      /\ u.panic = k.panic /\ u.snd = k.snd /\ u.wait = k.wait
  BY <1>3, <1>5 DEF SameRest
<1>7. /\ Ready(u) = E /\ InState(u, Timed) = D
      /\ InState(u, Sending) = S /\ InState(u, Pending) = P
  BY <1>6 DEF Ready, InState
<1>8. Owners(u)  BY <1>1, <1>6 DEF Owners
<1>9. Idle \in E  BY <1>1 DEF KInv
<1>10. KInv(u)  BY <1>5, <1>7, <1>8, <1>9 DEF KInv
<1>11. Inner(u)  BY <1>1, <1>6, <1>10 DEF Inner
<1>. QED  BY <1>2, <1>11, LeaveSafe

\* RMP_Thd_Cancel and RMP_Sem_Abort wake one blocked thread.
LEMMA WakeInner ==
  ASSUME NEW s, Inner(s), NEW t \in Thd, s.state[t] \in Blocked
  PROVE  Inner(Wake(s, t))
<1>1. KInv(Wake(s, t)) /\ Woken(Wake(s, t), s, {t})
  BY WakeOne DEF Inner
<1>. QED  BY <1>1, WokenInner

\* The critical section of both: wake, set the return value, leave.
LEMMA AbortSafe ==
  ASSUME Safe(k), NEW t \in Thd, k.state[t] \in Blocked,
         k' = Leave(SetRetval(Wake(k, t), {t}, "err"))
  PROVE  Safe(k')
<1>1. Inner(k)  BY SafeInner
<1>2. Inner(Wake(k, t))  BY <1>1, WakeInner
<1>3. Inner(SetRetval(Wake(k, t), {t}, "err"))  BY <1>2, RetvalInner
<1>. QED  BY <1>3, LeaveSafe

----------------------------------------------------------------------------
\* u is s with the current thread blocked in state v, and all lists as they
\* should be, but for the wait list that the caller puts the thread on.
Blocking(u, s, v) ==
    LET S == InState(s, Sending)
        P == InState(s, Pending)
    IN  /\ Good(u, Ready(u), InState(u, Timed), S, P)
        /\ Idle \in Ready(u) /\ Owners(u)
        /\ s.cur \notin S /\ s.cur \notin P
        /\ InState(u, Sending) = IF v \in Sending THEN S \cup {s.cur} ELSE S
        /\ InState(u, Pending) = IF v \in Pending THEN P \cup {s.cur} ELSE P
        /\ SameRest(u, s) /\ u.snd = s.snd /\ u.wait = s.wait
        /\ u.state = [s.state EXCEPT ![s.cur] = v]

\* The blocking half of a call.
LEMMA BlockSets ==
  ASSUME NEW s, KInv(s), s.state[s.cur] = "RUNNING", s.cur # Idle,
         NEW n \in Word, NEW forever \in Blocked, NEW timed \in Blocked,
         n < SliceMax => timed \in Timed,
         ~(n < SliceMax) => forever \notin Timed
  PROVE  Blocking(Block(s, n, forever, timed), s,
                  IF n < SliceMax THEN timed ELSE forever)
<1> DEFINE t == s.cur
           u == Block(s, n, forever, timed)
           v == IF n < SliceMax THEN timed ELSE forever
           R == Ready(s)
           D == InState(s, Timed)
           S == InState(s, Sending)
           P == InState(s, Pending)
           E == IF n < SliceMax THEN D \cup {t} ELSE D
<1>1. s \in Kernel /\ Good(s, R, D, S, P) /\ Idle \in R /\ Owners(s)
  BY DEF KInv, Good
<1>2. t \in Thd  BY <1>1 DEF Kernel
<1>3. /\ t \notin D /\ t \notin S /\ t \notin P
      /\ t \in R <=> t \notin s.susp
  BY <1>2 DEF Ready, InState, Timed, Sending, Pending
<1>4. forever \in ThdState /\ timed \in ThdState  BY DEF ThdState
<1>5. /\ Good(u, R \ {t}, E, S, P)
      /\ SameRest(u, s)
      /\ u.state = [s.state EXCEPT ![t] = v]
      /\ u.snd = s.snd /\ u.wait = s.wait
  <2> HIDE DEF R, D, S, P
  <2>1. Good(s, R, D, S, P)  BY <1>1
  <2>2. s.cur \notin D /\ (s.cur \in R <=> s.cur \notin s.susp)  BY <1>3
  <2>3. Good(u, R \ {t}, E, S, P)  BY <2>1, <2>2, <1>4, BlockCur
  <2>4. Parked(u, s, v)  BY <2>1, <2>2, <1>4, BlockCur
  <2>. QED  BY <2>3, <2>4 DEF Parked
<1> HIDE DEF u
<1>6. v \in Blocked /\ v # "RUNNING" /\ v # "FREE"
      /\ (v \in Timed <=> n < SliceMax)
  BY DEF Blocked, Sending, Pending
<1> HIDE DEF v
<1>7. u.susp \ {t} = s.susp \ {t}  BY <1>5 DEF SameRest
<1>8. /\ Ready(u) = R \ {t}
      /\ InState(u, Timed) = IF v \in Timed THEN D \cup {t} ELSE D \ {t}
      /\ InState(u, Sending) = IF v \in Sending THEN S \cup {t} ELSE S \ {t}
      /\ InState(u, Pending) = IF v \in Pending THEN P \cup {t} ELSE P \ {t}
  BY <1>1, <1>2, <1>5, <1>6, <1>7, StateSets
<1>9. D \ {t} = D /\ S \ {t} = S /\ P \ {t} = P  BY <1>3
<1>10. InState(u, Timed) = E  BY <1>6, <1>8, <1>9
<1>11. Idle \in Ready(u)  BY <1>1, <1>8
<1>12. Owners(u)
  <2>1. u.used = s.used  BY <1>5 DEF SameRest
  <2>2. s.state \in [Thd -> ThdState]  BY <1>1 DEF Kernel
  <2>. QED  BY <2>1, <2>2, <1>1, <1>5, <1>6 DEF Owners
<1>13. Good(u, Ready(u), InState(u, Timed), S, P)  BY <1>5, <1>8, <1>10
<1>14. Blocking(u, s, v)
  BY <1>3, <1>5, <1>8, <1>9, <1>11, <1>12, <1>13 DEF Blocking
<1>. QED  BY <1>14 DEF u, v

\* RMP_Thd_Delay and the wait of RMP_Thd_Rcv: no wait list.
LEMMA BlockAlone ==
  ASSUME NEW s, KInv(s), s.state[s.cur] = "RUNNING", s.cur # Idle,
         s.lock = 0,
         NEW n \in Word, NEW forever \in Blocked, NEW timed \in Blocked,
         n < SliceMax => timed \in Timed,
         ~(n < SliceMax) => forever \notin Timed,
         {forever, timed} \cap (Sending \cup Pending) = {}
  PROVE  Inner(Block(s, n, forever, timed))
<1> DEFINE u == Block(s, n, forever, timed)
           v == IF n < SliceMax THEN timed ELSE forever
           S == InState(s, Sending)
           P == InState(s, Pending)
<1>1. /\ Good(u, Ready(u), InState(u, Timed), S, P)
      /\ Idle \in Ready(u) /\ Owners(u)
      /\ InState(u, Sending) = IF v \in Sending THEN S \cup {s.cur} ELSE S
      /\ InState(u, Pending) = IF v \in Pending THEN P \cup {s.cur} ELSE P
      /\ SameRest(u, s)
  <2>1. Blocking(u, s, v)  BY BlockSets
  <2> HIDE DEF u, v
  <2>. QED  BY <2>1 DEF Blocking
<1>2. v \notin Sending /\ v \notin Pending  OBVIOUS
<1> HIDE DEF u, v
<1>3. KInv(u)  BY <1>1, <1>2 DEF KInv
<1>4. u.lock = 0  BY <1>1 DEF SameRest
<1>. QED  BY <1>3, <1>4 DEF Inner, u

\* The state of the current thread when it calls the kernel.
LEMMA UserRuns ==
  ASSUME Safe(k), User
  PROVE  k.state[k.cur] = "RUNNING"
BY DEF Safe, User

\* RMP_Thd_Delay blocks the current thread alone.
LEMMA ThdDelay ==
  ASSUME Safe(k), NEW n \in Waits, Thd_Delay(n)
  PROVE  Safe(k')
<1>1. /\ k.lock = 0 /\ k.cur # Idle /\ User /\ n < SliceMax
      /\ k' = Leave(Block(k, n, "DELAYED", "DELAYED"))
  BY DEF Thd_Delay, MayBlock
<1>2. KInv(k) /\ k.state[k.cur] = "RUNNING" /\ n \in Word
  BY <1>1, SafeInner, UserRuns, WordLemma
<1>3. "DELAYED" \in Blocked /\ "DELAYED" \in Timed
      /\ "DELAYED" \notin Sending \cup Pending
  BY DEF Blocked, Timed, Sending, Pending
<1>4. Inner(Block(k, n, "DELAYED", "DELAYED"))
  BY <1>1, <1>2, <1>3, BlockAlone
<1>. QED  BY <1>1, <1>4, LeaveSafe

\* Every thread call keeps the invariant.
LEMMA ThreadSafe == IInv /\ ThreadNext => IInv'
<1> SUFFICES ASSUME IInv, ThreadNext  PROVE IInv'
  OBVIOUS
<1>1. Safe(k) /\ rcv \subseteq Thd /\ got \in {<<>>} \cup Thd \X Mail
  BY DEF IInv
<1>2. SUFFICES Safe(k')
  <2> DEFINE A == rcv' \subseteq rcv /\ UNCHANGED got
  <2>1. ASSUME NEW t \in Thd, NEW n
        PROVE  /\ \A p : Thd_Crt(t, p, n) => A
               /\ \A p : Thd_Set(t, p, n) => A
               /\ Thd_Delay(n) => A
    BY DEF Thd_Crt, Thd_Set, Thd_Delay
  <2>2. ASSUME NEW t \in Thd
        PROVE  /\ Thd_Del(t) => A
               /\ Thd_Suspend(t) => A
               /\ Thd_Resume(t) => A
               /\ Thd_Cancel(t) => A
    BY DEF Thd_Del, Thd_Suspend, Thd_Resume, Thd_Cancel
  <2> HIDE DEF A
  <2>3. A  BY <2>1, <2>2, CoreAssumption DEF ThreadNext
  <2>4. rcv' \subseteq Thd /\ UNCHANGED got  BY <1>1, <2>3 DEF A
  <2>. QED  BY <1>1, <2>4 DEF IInv
<1>3. ASSUME NEW t \in Thd, NEW p \in Prio, NEW n \in Slices, Thd_Crt(t, p, n)
      PROVE  Safe(k')
  BY <1>1, <1>3, ThdCrt
<1>4. ASSUME NEW t \in Thd, NEW p \in 0..PrioNum, NEW n \in Slices,
             Thd_Set(t, p, n)
      PROVE  Safe(k')
  BY <1>1, <1>4, ThdSet
<1>5. ASSUME NEW n \in Waits, Thd_Delay(n)  PROVE Safe(k')
  BY <1>1, <1>5, ThdDelay
<1>6. ASSUME NEW t \in Thd, Thd_Del(t)  PROVE Safe(k')
  BY <1>1, <1>6, ThdDel
<1>7. ASSUME NEW t \in Thd, Thd_Suspend(t)  PROVE Safe(k')
  BY <1>1, <1>7, ThdSuspend
<1>8. ASSUME NEW t \in Thd, Thd_Resume(t)  PROVE Safe(k')
  BY <1>1, <1>8, ThdResume
<1>9. ASSUME NEW t \in Thd, Thd_Cancel(t)  PROVE Safe(k')
  <2>1. k.state[t] \in Blocked
    BY <1>9 DEF Thd_Cancel, Blocked
  <2>2. k' = Leave(SetRetval(Wake(k, t), {t}, "err"))
    BY <1>9 DEF Thd_Cancel
  <2>. QED  BY <1>1, <2>1, <2>2, AbortSafe
<1>. QED  BY <1>3, <1>4, <1>5, <1>6, <1>7, <1>8, <1>9 DEF ThreadNext

----------------------------------------------------------------------------
(* Mailboxes.                                                              *)

\* Mail put in, or flags set, change no list.
LEMMA MailFields ==
  ASSUME NEW s, Inner(s), NEW t \in Thd, NEW d \in Mail,
         NEW F \in SUBSET Thd
  PROVE  Inner([s EXCEPT !.mailbox[t] = d, !.full = F])
<1> DEFINE u == [s EXCEPT !.mailbox[t] = d, !.full = F]
<1>1. s \in Kernel /\ KInv(s)  BY DEF Inner, KInv, Good
<1>2. /\ u \in Kernel /\ SameLists(u, s) /\ u.pend = s.pend
      /\ u.state = s.state /\ u.susp = s.susp /\ u.used = s.used
      /\ u.cur = s.cur /\ u.lock = s.lock /\ u.soft = s.soft
      /\ u.panic = s.panic
  BY <1>1 DEF Kernel, SameLists
<1> HIDE DEF u
<1>3. KInv(u)  BY <1>1, <1>2, KInvSame
<1>4. Inner(u)  BY <1>2, <1>3 DEF Inner
<1>. QED  BY <1>4 DEF u

\* Delivering mail wakes the receiver if it waits.
LEMMA DeliverInner ==
  ASSUME NEW s, Inner(s), NEW t \in Thd, NEW d \in Mail
  PROVE  Inner(Deliver(s, t, d))
<1> DEFINE w == IF s.state[t] \in {"RCVBLK", "RCVDLY"} THEN Wake(s, t) ELSE s
<1>1. Inner(w)  BY WakeInner DEF Blocked
<1> HIDE DEF w
<1>2. w.full \cup {t} \in SUBSET Thd  BY <1>1 DEF Inner, KInv, Good, Kernel
<1>3. Inner([w EXCEPT !.mailbox[t] = d, !.full = w.full \cup {t}])
  BY <1>1, <1>2, MailFields
<1>. QED  BY <1>3 DEF Deliver, w

\* Taking mail out wakes the first sender, if any.
LEMMA UnblockInner ==
  ASSUME NEW s, Inner(s), NEW c \in Thd
  PROVE  Inner(Thd_Unblock(s, c))
<1>1. s \in Kernel /\ KInv(s)  BY DEF Inner, KInv, Good
<1>2. s.mailbox[c] \in Mail /\ s.snd[c] \in Seq(Thd)  BY <1>1 DEF Kernel
<1>3. CASE s.snd[c] = <<>>
  <2> DEFINE u == [s EXCEPT !.full = s.full \ {c}]
  <2>1. Thd_Unblock(s, c) = u  BY <1>3 DEF Thd_Unblock
  <2>2. /\ u \in Kernel /\ SameLists(u, s) /\ u.pend = s.pend
        /\ u.state = s.state /\ u.susp = s.susp /\ u.used = s.used
        /\ u.cur = s.cur /\ u.lock = s.lock /\ u.soft = s.soft
        /\ u.panic = s.panic
    BY <1>1 DEF Kernel, SameLists
  <2> HIDE DEF u
  <2>3. KInv(u)  BY <1>1, <2>2, KInvSame
  <2>. QED  BY <2>1, <2>2, <2>3 DEF Inner
<1>4. CASE s.snd[c] # <<>>
  <2> DEFINE t == Head(s.snd[c])
             w == Wake(s, t)
             d == s.mailbox[t]
             u == [w EXCEPT !.mailbox[c] = d]
  <2>1. Thd_Unblock(s, c) = u  BY <1>4 DEF Thd_Unblock
  <2>2. t \in Thd /\ s.state[t] \in Blocked
    <3>1. 1 \in 1..Len(s.snd[c]) /\ t = s.snd[c][1]  BY <1>2, <1>4
    <3>2. t \in ToSet(s.snd[c]) /\ t \in Thd  BY <1>2, <3>1, ToSetLemma
    <3>3. Apart(s.snd, InState(s, Sending)) /\ DOMAIN s.snd = Thd
      BY <1>1, ListedDef DEF KInv, Good, Kernel
    <3>4. t \in InState(s, Sending)  BY <3>2, <3>3 DEF Apart
    <3>. QED  BY <3>2, <3>4 DEF InState, Blocked
  <2>3. d \in Mail  BY <1>1, <2>2 DEF Kernel
  <2> HIDE DEF t, d
  <2>4. Inner(w)  BY <2>2, WakeInner
  <2> HIDE DEF w
  <2>5. w \in Kernel /\ w.full \in SUBSET Thd
    BY <2>4 DEF Inner, KInv, Good, Kernel
  <2>6. Inner([w EXCEPT !.mailbox[c] = d, !.full = w.full])
    BY <2>3, <2>4, <2>5, MailFields
  <2>7. [w EXCEPT !.mailbox[c] = d, !.full = w.full] = u
    BY <2>5 DEF Kernel
  <2>. QED  BY <2>1, <2>6, <2>7
<1>. QED  BY <1>3, <1>4

\* A failed assertion halts the system as it is.
LEMMA PanicSafe ==
  ASSUME Safe(k)
  PROVE  Safe([k EXCEPT !.panic = 1])
<1> DEFINE u == [k EXCEPT !.panic = 1]
<1>1. k \in Kernel /\ KInv(k)  BY SafeInner
<1>2. /\ u \in Kernel /\ SameLists(u, k) /\ u.pend = k.pend
      /\ u.state = k.state /\ u.susp = k.susp /\ u.used = k.used
      /\ u.lock = k.lock /\ u.soft = k.soft /\ u.panic = 1
  BY <1>1 DEF Kernel, SameLists
<1> HIDE DEF u
<1>3. KInv(u)  BY <1>1, <1>2, KInvSame
<1>4. Safe(u)  BY <1>2, <1>3 DEF Safe
<1>. QED  BY <1>4 DEF u

\* A blocked sender enters the receiver's sender list.
LEMMA SndBlock ==
  ASSUME Safe(k), NEW t \in Thd, NEW d \in Mail, NEW n \in Waits,
         Thd_Snd_Block(t, d, n)
  PROVE  Safe(k')
<1> DEFINE c == k.cur
           s == Block(k, n, "SNDBLK", "SNDDLY")
           v == IF n < SliceMax THEN "SNDDLY" ELSE "SNDBLK"
           f == [s.snd EXCEPT ![t] = Append(@, c)]
           u == [s EXCEPT !.snd = f, !.mailbox[c] = d]
           S == InState(k, Sending)
           P == InState(k, Pending)
<1>1. /\ k.lock = 0 /\ c # Idle /\ User /\ k.state[t] # "FREE" /\ t # c
      /\ k' = Leave([s EXCEPT !.snd[t] = Append(@, c), !.mailbox[c] = d])
  BY DEF Thd_Snd_Block, MayBlock
<1>2. /\ KInv(k) /\ k.state[c] = "RUNNING" /\ n \in Word /\ k \in Kernel
      /\ c \in Thd
  <2>1. KInv(k) /\ k \in Kernel  BY SafeInner
  <2>. QED  BY <1>1, <2>1, UserRuns, WordLemma DEF Kernel
<1>3. /\ "SNDBLK" \in Blocked /\ "SNDDLY" \in Blocked
      /\ "SNDDLY" \in Timed /\ "SNDBLK" \notin Timed
      /\ v \in Sending /\ v \notin Pending /\ v # "FREE"
  BY DEF Blocked, Timed, Sending, Pending
<1>4. /\ Good(s, Ready(s), InState(s, Timed), S, P)
      /\ Idle \in Ready(s) /\ Owners(s)
      /\ c \notin S
      /\ InState(s, Sending) = IF v \in Sending THEN S \cup {c} ELSE S
      /\ InState(s, Pending) = IF v \in Pending THEN P \cup {c} ELSE P
      /\ SameRest(s, k)
      /\ s.state = [k.state EXCEPT ![c] = v]
  <2>1. Blocking(s, k, v)  BY <1>1, <1>2, <1>3, BlockSets
  <2> HIDE DEF s, v
  <2>. QED  BY <2>1 DEF Blocking
<1> HIDE DEF s, v
<1>5. s \in Kernel /\ s.snd \in [Thd -> Seq(Thd)] /\ DOMAIN s.snd = Thd
  BY <1>4 DEF Good, Kernel
<1>6. f \in [Thd -> Seq(Thd)] /\ DOMAIN f = Thd  BY <1>2, <1>5
<1>7. Listed(f, S \cup {c})
  <2>1. Listed(s.snd, S)  BY <1>4 DEF Good
  <2>2. /\ s.snd[t] \in Seq(Thd) /\ f[t] = Append(s.snd[t], c)
        /\ \A x \in DOMAIN s.snd : x # t => f[x] = s.snd[x]
    BY <1>5
  <2>3. /\ DOMAIN f = DOMAIN s.snd /\ t \in DOMAIN s.snd
        /\ c \in Thd /\ c \notin S
    BY <1>2, <1>4, <1>5, <1>6
  <2> HIDE DEF f, c, S
  <2>. QED  BY <2>1, <2>2, <2>3, ListedAppend
<1>8. [s EXCEPT !.snd[t] = Append(@, c), !.mailbox[c] = d] = u
  BY <1>5 DEF Kernel
<1>9. \A r \in Thd : f[r] # <<>> => r = t \/ s.snd[r] # <<>>  BY <1>5
<1> HIDE DEF f
<1>10. /\ u \in Kernel /\ u.snd = f
       /\ u.wait = s.wait /\ u.state = s.state /\ u.susp = s.susp
       /\ u.used = s.used /\ u.run = s.run /\ u.bitmap = s.bitmap
       /\ u.prio = s.prio /\ u.cur = s.cur /\ u.delay = s.delay
       /\ u.pend = s.pend /\ u.lock = s.lock /\ u.soft = s.soft
  BY <1>2, <1>5, <1>6 DEF Kernel
<1> HIDE DEF u
<1>11. /\ Ready(u) = Ready(s) /\ InState(u, Timed) = InState(s, Timed)
       /\ InState(u, Sending) = S \cup {c} /\ InState(u, Pending) = P
  BY <1>3, <1>4, <1>10 DEF Ready, InState
<1>12. Good(u, Ready(u), InState(u, Timed), S \cup {c}, P)
  BY <1>4, <1>7, <1>10, <1>11 DEF Good, Queued, Highest
<1>13. Owners(u)
  <2>1. s.state[t] # "FREE"
    BY <1>1, <1>2, <1>3, <1>4 DEF Kernel
  <2>. QED  BY <2>1, <1>4, <1>9, <1>10 DEF Owners
<1>14. KInv(u)  BY <1>4, <1>11, <1>12, <1>13 DEF KInv
<1>15. u.lock = 0  BY <1>1, <1>4, <1>10 DEF SameRest
<1>16. Inner(u)  BY <1>14, <1>15 DEF Inner
<1>. QED  BY <1>1, <1>8, <1>16, LeaveSafe

\* Every mailbox call, also from an interrupt, keeps the invariant.
LEMMA MailSafe == IInv /\ MailNext => IInv'
<1> SUFFICES ASSUME IInv, MailNext  PROVE IInv'
  OBVIOUS
<1>1. /\ Safe(k) /\ rcv \subseteq Thd /\ Inner(k) /\ k \in Kernel /\ KInv(k)
      /\ got \in {<<>>} \cup Thd \X Mail
  BY SafeInner DEF IInv
<1>2. k.cur \in Thd /\ \A c \in Thd : k.mailbox[c] \in Mail
  BY <1>1 DEF Kernel
<1>3. ASSUME NEW t \in Thd, NEW d \in Mail, Thd_Snd(t, d)  PROVE IInv'
  <2>1. k' = Leave(Deliver(k, t, d)) /\ UNCHANGED <<rcv, got>>
    BY <1>3 DEF Thd_Snd
  <2>2. Safe(k')  BY <1>1, <2>1, DeliverInner, LeaveSafe
  <2>. QED  BY <1>1, <2>1, <2>2 DEF IInv
<1>4. ASSUME NEW t \in Thd, NEW d \in Mail, Thd_Snd_ISR(t, d)  PROVE IInv'
  <2>1. Safe(k')
    <3>1. CASE k.state[t] \in {"RCVBLK", "RCVDLY"}
      <4>1. k' = Leave(Deliver(k, t, d))  BY <1>4, <3>1 DEF Thd_Snd_ISR
      <4>. QED  BY <1>1, <4>1, DeliverInner, LeaveSafe
    <3>2. CASE k.state[t] \notin {"RCVBLK", "RCVDLY"}
      <4> DEFINE u == [k EXCEPT !.mailbox[t] = d, !.full = k.full \cup {t}]
      <4>1. k' = u  BY <1>4, <3>2 DEF Thd_Snd_ISR, Deliver
      <4>2. k.full \cup {t} \in SUBSET Thd  BY <1>1 DEF Kernel
      <4>3. Inner(u)  BY <1>1, <4>2, MailFields
      <4>4. /\ u.pend = k.pend /\ u.soft = k.soft
            /\ u.lock = k.lock /\ u.panic = k.panic
            /\ u.state = k.state /\ u.cur = k.cur
        BY <1>1 DEF Kernel
      <4> HIDE DEF u
      <4>. QED  BY <1>1, <4>1, <4>3, <4>4 DEF Safe, Inner
    <3>. QED  BY <3>1, <3>2
  <2>2. UNCHANGED <<rcv, got>>  BY <1>4 DEF Thd_Snd_ISR
  <2>. QED  BY <1>1, <2>1, <2>2 DEF IInv
<1>5. ASSUME NEW t \in Thd, NEW d \in Mail, NEW n \in Waits,
             Thd_Snd_Block(t, d, n)
      PROVE  IInv'
  <2>1. Safe(k')  BY <1>1, <1>5, SndBlock
  <2>2. UNCHANGED <<rcv, got>>  BY <1>5 DEF Thd_Snd_Block
  <2>. QED  BY <1>1, <2>1, <2>2 DEF IInv
<1>6. ASSUME NEW c \in Thd, Thd_Rcv(c)  PROVE IInv'
  <2>1. /\ k' = Leave(Thd_Unblock(k, c)) /\ UNCHANGED rcv
        /\ got' = <<c, k.mailbox[c]>>
    BY <1>6 DEF Thd_Rcv
  <2>2. Safe(k')  BY <1>1, <2>1, UnblockInner, LeaveSafe
  <2>3. got' \in Thd \X Mail  BY <1>2, <2>1
  <2>. QED  BY <1>1, <2>1, <2>2, <2>3 DEF IInv
<1>7. ASSUME NEW c \in Thd, Thd_Rcv_Done(c)  PROVE IInv'
  <2>1. Safe(k')
    <3>1. \/ k' = [k EXCEPT !.panic = 1]
          \/ k' = Leave(Thd_Unblock(k, c))
          \/ k' = k
      BY <1>7 DEF Thd_Rcv_Done
    <3>2. Safe([k EXCEPT !.panic = 1])  BY <1>1, PanicSafe
    <3>3. Safe(Leave(Thd_Unblock(k, c)))  BY <1>1, UnblockInner, LeaveSafe
    <3>. QED  BY <1>1, <3>1, <3>2, <3>3
  <2>2. rcv' \in SUBSET Thd  BY <1>1, <1>7 DEF Thd_Rcv_Done
  <2>3. got' = got \/ got' = <<c, k.mailbox[c]>>
    BY <1>7 DEF Thd_Rcv_Done
  <2>. QED  BY <1>1, <1>2, <2>1, <2>2, <2>3 DEF IInv
<1>8. ASSUME NEW n \in Waits, Thd_Rcv_Block(n)  PROVE IInv'
  <2>1. Safe(k')
    <3>1. CASE k.snd[k.cur] # <<>>
      <4>1. k' = [k EXCEPT !.panic = 1]  BY <1>8, <3>1 DEF Thd_Rcv_Block
      <4>. QED  BY <1>1, <4>1, PanicSafe
    <3>2. CASE k.snd[k.cur] = <<>>
      <4>1. /\ k' = Leave(Block(k, n, "RCVBLK", "RCVDLY"))
            /\ User /\ k.lock = 0 /\ k.cur # Idle
        BY <1>8, <3>2 DEF Thd_Rcv_Block, MayBlock
      <4>2. k.state[k.cur] = "RUNNING" /\ n \in Word
        BY <1>1, <4>1, UserRuns, WordLemma
      <4>3. /\ "RCVBLK" \in Blocked /\ "RCVDLY" \in Blocked
            /\ "RCVDLY" \in Timed /\ "RCVBLK" \notin Timed
            /\ {"RCVBLK", "RCVDLY"} \cap (Sending \cup Pending) = {}
        BY DEF Blocked, Timed, Sending, Pending
      <4>4. Inner(Block(k, n, "RCVBLK", "RCVDLY"))
        BY <1>1, <4>1, <4>2, <4>3, BlockAlone
      <4>. QED  BY <4>1, <4>4, LeaveSafe
    <3>. QED  BY <3>1, <3>2
  <2>2. rcv' \in SUBSET Thd /\ UNCHANGED got
    BY <1>1, <1>2, <1>8 DEF Thd_Rcv_Block
  <2>. QED  BY <1>1, <2>1, <2>2 DEF IInv
<1>. QED  BY <1>3, <1>4, <1>5, <1>6, <1>7, <1>8 DEF MailNext

----------------------------------------------------------------------------
(* Semaphores.                                                             *)

\* The threads on a semaphore's list are distinct and blocked.
LEMMA WaitersBlocked ==
  ASSUME NEW s, KInv(s), NEW x \in Sem
  PROVE  /\ s.wait[x] \in Seq(Thd) /\ IsInjective(s.wait[x])
         /\ \A t \in ToSet(s.wait[x]) : s.state[t] \in Blocked
<1>1. s.wait[x] \in Seq(Thd) /\ DOMAIN s.wait = Sem
  BY DEF KInv, Good, Kernel
<1>2. Apart(s.wait, InState(s, Pending))  BY ListedDef DEF KInv, Good
<1>3. IsInjective(s.wait[x])  BY <1>1, <1>2 DEF Apart
<1>4. \A t \in ToSet(s.wait[x]) : t \in InState(s, Pending)
  BY <1>1, <1>2 DEF Apart
<1>. QED  BY <1>1, <1>3, <1>4 DEF InState, Blocked

\* Waking a prefix of a semaphore's list.
LEMMA WakePrefix ==
  ASSUME NEW s, Inner(s), NEW x \in Sem, NEW m \in 0..Len(s.wait[x])
  PROVE  LET u == WakeAll(s, SubSeq(s.wait[x], 1, m))
         IN  Inner(u) /\ SameRest(u, s)
<1> DEFINE ts == SubSeq(s.wait[x], 1, m)
           u == WakeAll(s, ts)
<1>1. KInv(s)  BY DEF Inner
<1>2. /\ s.wait[x] \in Seq(Thd) /\ IsInjective(s.wait[x])
      /\ \A t \in ToSet(s.wait[x]) : s.state[t] \in Blocked
  BY <1>1, WaitersBlocked
<1>3. /\ ts \in Seq(Thd) /\ IsInjective(ts)
      /\ ToSet(ts) \subseteq ToSet(s.wait[x])
  BY <1>2, PrefixLemma
<1> HIDE DEF ts
<1>4. KInv(u) /\ Woken(u, s, ToSet(ts))  BY <1>1, <1>2, <1>3, WakeEach
<1> HIDE DEF u
<1>5. Inner(u) /\ SameRest(u, s)  BY <1>4, WokenInner DEF Woken
<1>. QED  BY <1>5 DEF u, ts

\* Waking all of it leaves it empty.
LEMMA WakeList ==
  ASSUME NEW s, Inner(s), NEW x \in Sem
  PROVE  LET u == WakeAll(s, s.wait[x])
         IN  Inner(u) /\ SameRest(u, s) /\ u.wait[x] = <<>>
<1> DEFINE ts == s.wait[x]
           u == WakeAll(s, ts)
<1>1. KInv(s)  BY DEF Inner
<1>2. /\ ts \in Seq(Thd) /\ IsInjective(ts)
      /\ \A t \in ToSet(ts) : s.state[t] \in Blocked
  BY <1>1, WaitersBlocked
<1>3. KInv(u) /\ Woken(u, s, ToSet(ts))  BY <1>1, <1>2, WakeEach
<1> HIDE DEF u
<1>4. Inner(u) /\ SameRest(u, s)  BY <1>3, WokenInner DEF Woken
<1>5. ToSet(u.wait[x]) = {} /\ u.wait[x] \in Seq(Thd)
  BY <1>3 DEF Woken, Shrunk, KInv, Good, Kernel
<1>6. u.wait[x] = <<>>  BY <1>5, EmptySet
<1>. QED  BY <1>4, <1>6 DEF u

\* A semaphore's count changes no list.
LEMMA NumInner ==
  ASSUME NEW s, Inner(s), NEW x \in Sem, NEW n \in Word
  PROVE  Inner([s EXCEPT !.num[x] = n])
<1> DEFINE u == [s EXCEPT !.num[x] = n]
<1>1. s \in Kernel /\ KInv(s)  BY DEF Inner, KInv, Good
<1>2. /\ u \in Kernel /\ SameLists(u, s) /\ u.pend = s.pend
      /\ u.state = s.state /\ u.susp = s.susp /\ u.used = s.used
      /\ u.cur = s.cur /\ u.lock = s.lock /\ u.soft = s.soft
      /\ u.panic = s.panic
  BY <1>1 DEF Kernel, SameLists
<1> HIDE DEF u
<1>3. KInv(u)  BY <1>1, <1>2, KInvSame
<1>4. Inner(u)  BY <1>2, <1>3 DEF Inner
<1>. QED  BY <1>4 DEF u

\* A semaphore in use, or one that nobody waits on, may be marked.
LEMMA UsedInner ==
  ASSUME NEW s, Inner(s), NEW V \in SUBSET Sem,
         \A x \in Sem : s.wait[x] # <<>> => x \in V
  PROVE  Inner([s EXCEPT !.used = V])
<1> DEFINE u == [s EXCEPT !.used = V]
<1>1. s \in Kernel /\ KInv(s)  BY DEF Inner, KInv, Good
<1>2. /\ u \in Kernel /\ SameLists(u, s) /\ u.pend = s.pend
      /\ u.state = s.state /\ u.susp = s.susp /\ u.used = V
      /\ u.cur = s.cur /\ u.lock = s.lock /\ u.soft = s.soft
      /\ u.panic = s.panic
  BY <1>1 DEF Kernel, SameLists
<1> HIDE DEF u
<1>3. /\ Ready(u) = Ready(s)
      /\ InState(u, Timed) = InState(s, Timed)
      /\ InState(u, Sending) = InState(s, Sending)
      /\ InState(u, Pending) = InState(s, Pending)
  BY <1>2 DEF Ready, InState
<1>4. Good(u, Ready(u), InState(u, Timed), InState(u, Sending),
           InState(u, Pending))
  BY <1>1, <1>2, <1>3, GoodSame DEF KInv
<1>5. Owners(u)  BY <1>1, <1>2 DEF KInv, Owners, SameLists
<1>6. KInv(u)  BY <1>1, <1>3, <1>4, <1>5 DEF KInv
<1>7. Inner(u)  BY <1>2, <1>6 DEF Inner
<1>. QED  BY <1>7 DEF u

\* RMP_Sem_Crt finds the list of a free semaphore empty.
LEMMA SemCrt ==
  ASSUME Safe(k), NEW x \in Sem, NEW n \in Posts, Sem_Crt(x, n)
  PROVE  Safe(k')
<1> DEFINE a == [k EXCEPT !.num[x] = n]
           b == [a EXCEPT !.used = k.used \cup {x}]
<1>1. Inner(k) /\ k \in Kernel /\ Owners(k)  BY SafeInner DEF KInv
<1>2. /\ x \notin k.used
      /\ k' = Leave([k EXCEPT !.num[x] = n, !.wait[x] = <<>>,
                              !.used = @ \cup {x}])
  BY DEF Sem_Crt
<1>3. k.wait[x] = <<>>  BY <1>1, <1>2 DEF Owners
<1>4. n \in Word  BY WordLemma
<1>5. Inner(a)  BY <1>1, <1>4, NumInner
<1>6. a.wait = k.wait /\ a.used = k.used  BY <1>1 DEF Kernel
<1>7. [k EXCEPT !.num[x] = n, !.wait[x] = <<>>, !.used = @ \cup {x}] = b
  <2>1. [k.wait EXCEPT ![x] = <<>>] = k.wait  BY <1>1, <1>3 DEF Kernel
  <2>. QED  BY <1>1, <2>1 DEF Kernel
<1> HIDE DEF a
<1>8. k.used \cup {x} \in SUBSET Sem  BY <1>1 DEF Kernel
<1>9. \A y \in Sem : a.wait[y] # <<>> => y \in k.used \cup {x}
  BY <1>1, <1>6 DEF Owners
<1>10. Inner(b)  BY <1>5, <1>8, <1>9, UsedInner
<1>. QED  BY <1>2, <1>7, <1>10, LeaveSafe

\* RMP_Sem_Del wakes all who wait before it frees the semaphore.
LEMMA SemDel ==
  ASSUME Safe(k), NEW x \in Sem, Sem_Del(x)
  PROVE  Safe(k')
<1> DEFINE w == WakeAll(k, k.wait[x])
           s == SetRetval(w, ToSet(k.wait[x]), "err")
           u == [s EXCEPT !.used = s.used \ {x}]
<1>1. Inner(k)  BY SafeInner
<1>2. k' = Leave(u)  BY DEF Sem_Del
<1>3. Inner(w) /\ w.wait[x] = <<>> /\ w \in Kernel
  BY <1>1, WakeList DEF Inner, KInv, Good
<1> HIDE DEF w
<1>4. Inner(s) /\ s.wait = w.wait  BY <1>3, RetvalInner, RetvalFields
<1> HIDE DEF s
<1>5. s \in Kernel /\ Owners(s)  BY <1>4 DEF Inner, KInv, Good
<1>6. s.used \ {x} \in SUBSET Sem  BY <1>5 DEF Kernel
<1>7. \A y \in Sem : s.wait[y] # <<>> => y \in s.used \ {x}
  BY <1>3, <1>4, <1>5 DEF Owners
<1>8. Inner(u)  BY <1>4, <1>6, <1>7, UsedInner
<1>. QED  BY <1>2, <1>8, LeaveSafe

\* Serving waiting threads.
LEMMA ServeInner ==
  ASSUME NEW s, Inner(s), NEW x \in Sem, NEW n \in Word
  PROVE  Inner(Serve(s, x, n))
<1> DEFINE sum == (s.num[x] + n) % W
           len == Len(s.wait[x])
           served == IF len < sum THEN len ELSE sum
           w == WakeAll(s, SubSeq(s.wait[x], 1, served))
<1>1. s \in Kernel  BY DEF Inner, KInv, Good
<1>2. sum \in Word
  <2>1. s.num[x] \in Word  BY <1>1 DEF Kernel
  <2>2. s.num[x] + n \in Int  BY <2>1, CoreAssumption DEF Word
  <2>. QED  BY <2>2, WordMod
<1>3. len \in Nat  BY <1>1 DEF Kernel
<1>4. Serve(s, x, n) = [w EXCEPT !.num[x] = sum - served]  BY DEF Serve
<1> HIDE DEF sum, len
<1>5. served \in 0..len /\ sum - served \in Word
  BY <1>2, <1>3, CoreAssumption DEF Word
<1> HIDE DEF served
<1>6. Inner(w)  BY <1>5, WakePrefix DEF len
<1> HIDE DEF w
<1>. QED  BY <1>4, <1>5, <1>6, NumInner

\* _RMP_Sem_Pend_Core takes one, or blocks the current thread.
LEMMA PendCore ==
  ASSUME NEW s, Inner(s), s.state[s.cur] = "RUNNING",
         NEW x \in Sem, x \in s.used, NEW n \in Word,
         s.num[x] = 0 /\ n # 0 => s.lock = 0 /\ s.cur # Idle
  PROVE  Safe(Pend_Core(s, x, n))
<1> DEFINE c == s.cur
           b == Block(s, n, "SEMBLK", "SEMDLY")
           v == IF n < SliceMax THEN "SEMDLY" ELSE "SEMBLK"
           f == [b.wait EXCEPT ![x] = Append(@, c)]
           u == [b EXCEPT !.wait = f]
           S == InState(s, Sending)
           P == InState(s, Pending)
<1>1. s \in Kernel /\ KInv(s) /\ c \in Thd
  BY DEF Inner, KInv, Good, Kernel
<1>2. CASE s.num[x] # 0
  <2>1. Pend_Core(s, x, n) = Leave([s EXCEPT !.num[x] = s.num[x] - 1])
    BY <1>2 DEF Pend_Core
  <2>2. s.num[x] - 1 \in Word
    <3>1. s.num[x] \in Word  BY <1>1 DEF Kernel
    <3>. QED  BY <3>1, <1>2, CoreAssumption DEF Word
  <2>. QED  BY <2>1, <2>2, NumInner, LeaveSafe
<1>3. CASE s.num[x] = 0 /\ n = 0
  <2>1. Pend_Core(s, x, n) = Leave(s)  BY <1>3 DEF Pend_Core
  <2>. QED  BY <2>1, LeaveSafe
<1>4. CASE s.num[x] = 0 /\ n # 0
  <2>1. Pend_Core(s, x, n) = Leave([b EXCEPT !.wait[x] = Append(@, s.cur)])
    BY <1>4 DEF Pend_Core
  <2>2. /\ "SEMBLK" \in Blocked /\ "SEMDLY" \in Blocked
        /\ "SEMDLY" \in Timed /\ "SEMBLK" \notin Timed
        /\ v \in Pending /\ v \notin Sending /\ v # "FREE"
    BY DEF Blocked, Timed, Sending, Pending
  <2>3. /\ Good(b, Ready(b), InState(b, Timed), S, P)
        /\ Idle \in Ready(b) /\ Owners(b)
        /\ c \notin P
        /\ InState(b, Sending) = IF v \in Sending THEN S \cup {c} ELSE S
        /\ InState(b, Pending) = IF v \in Pending THEN P \cup {c} ELSE P
        /\ SameRest(b, s)
    <3>1. Blocking(b, s, v)  BY <1>1, <1>4, <2>2, BlockSets
    <3> HIDE DEF b, v
    <3>. QED  BY <3>1 DEF Blocking
  <2> HIDE DEF b, v
  <2>4. b \in Kernel /\ b.wait \in [Sem -> Seq(Thd)] /\ DOMAIN b.wait = Sem
    BY <2>3 DEF Good, Kernel
  <2>5. f \in [Sem -> Seq(Thd)] /\ DOMAIN f = Sem  BY <1>1, <2>4
  <2>6. Listed(f, P \cup {c})
    <3>1. Listed(b.wait, P)  BY <2>3 DEF Good
    <3>2. /\ b.wait[x] \in Seq(Thd) /\ f[x] = Append(b.wait[x], c)
          /\ \A y \in DOMAIN b.wait : y # x => f[y] = b.wait[y]
      BY <2>4
    <3> HIDE DEF f
    <3>. QED  BY <3>1, <3>2, <1>1, <2>3, <2>4, <2>5, ListedAppend
  <2>7. [b EXCEPT !.wait[x] = Append(@, s.cur)] = u  BY <2>4 DEF Kernel
  <2>8. \A y \in Sem : f[y] # <<>> => y = x \/ b.wait[y] # <<>>  BY <2>4
  <2> HIDE DEF f
  <2>9. /\ u \in Kernel /\ u.wait = f
        /\ u.snd = b.snd /\ u.state = b.state /\ u.susp = b.susp
        /\ u.used = b.used /\ u.run = b.run /\ u.bitmap = b.bitmap
        /\ u.prio = b.prio /\ u.cur = b.cur /\ u.delay = b.delay
        /\ u.pend = b.pend /\ u.lock = b.lock /\ u.soft = b.soft
    BY <2>4, <2>5 DEF Kernel
  <2> HIDE DEF u
  <2>10. /\ Ready(u) = Ready(b) /\ InState(u, Timed) = InState(b, Timed)
         /\ InState(u, Sending) = S /\ InState(u, Pending) = P \cup {c}
    BY <2>2, <2>3, <2>9 DEF Ready, InState
  <2>11. Good(u, Ready(u), InState(u, Timed), S, P \cup {c})
    BY <2>3, <2>6, <2>9, <2>10 DEF Good, Queued, Highest
  <2>12. Owners(u)
    <3>1. b.used = s.used  BY <2>3 DEF SameRest
    <3>. QED  BY <3>1, <2>3, <2>8, <2>9 DEF Owners
  <2>13. KInv(u)  BY <2>3, <2>10, <2>11, <2>12 DEF KInv
  <2>14. u.lock = 0  BY <1>4, <2>3, <2>9 DEF SameRest
  <2>15. Inner(u)  BY <2>13, <2>14 DEF Inner
  <2>. QED  BY <2>1, <2>7, <2>15, LeaveSafe
<1>. QED  BY <1>2, <1>3, <1>4

\* RMP_Sem_Pend_Unlock releases the caller's lock first.
LEMMA PendUnlock ==
  ASSUME Safe(k), NEW x \in Sem, NEW n \in Waits, Sem_Pend_Unlock(x, n)
  PROVE  Safe(k')
<1> DEFINE s == [k EXCEPT !.lock = k.lock - 1]
<1>1. /\ User /\ k.lock > 0 /\ (k.cur = Idle => k.num[x] # 0 \/ n = 0)
      /\ k' = IF s.lock = 0 /\ x \in k.used THEN Pend_Core(s, x, n)
                                            ELSE Leave(s)
  BY DEF Sem_Pend_Unlock
<1>2. /\ Inner(k) /\ k \in Kernel /\ KInv(k) /\ k.state[k.cur] = "RUNNING"
      /\ n \in Word /\ k.soft = 0
  BY <1>1, SafeInner, UserRuns, WordLemma DEF User
<1>3. k.lock - 1 \in 0..LockMax
  BY <1>1, <1>2, CoreAssumption DEF Kernel
<1>4. /\ s \in Kernel /\ SameLists(s, k) /\ s.pend = k.pend
      /\ s.state = k.state /\ s.susp = k.susp /\ s.used = k.used
      /\ s.cur = k.cur /\ s.soft = k.soft /\ s.num = k.num
  <2>1. k \in Kernel  BY <1>2
  <2>2. s \in Kernel  BY <2>1, <1>3 DEF Kernel
  <2>3. /\ SameLists(s, k) /\ s.pend = k.pend
        /\ s.state = k.state /\ s.susp = k.susp /\ s.used = k.used
        /\ s.cur = k.cur /\ s.soft = k.soft /\ s.num = k.num
    BY <2>1 DEF Kernel, SameLists
  <2>. QED  BY <2>2, <2>3
<1> HIDE DEF s
<1>5. KInv(s)  BY <1>2, <1>4, KInvSame
<1>6. Inner(s)  BY <1>2, <1>4, <1>5 DEF Inner
<1>7. CASE s.lock = 0 /\ x \in k.used
  <2>1. k' = Pend_Core(s, x, n)  BY <1>1, <1>7
  <2>2. s.num[x] = 0 /\ n # 0 => s.lock = 0 /\ s.cur # Idle
    BY <1>1, <1>4, <1>7
  <2>3. x \in s.used /\ s.state[s.cur] = "RUNNING"  BY <1>2, <1>4, <1>7
  <2>. QED  BY <2>1, <2>2, <2>3, <1>2, <1>6, PendCore
<1>8. CASE ~(s.lock = 0 /\ x \in k.used)
  <2>1. k' = Leave(s)  BY <1>1, <1>8
  <2>. QED  BY <2>1, <1>6, LeaveSafe
<1>. QED  BY <1>7, <1>8

\* Every semaphore call, also from an interrupt, keeps the invariant.
LEMMA SemSafe == IInv /\ SemNext => IInv'
<1> SUFFICES ASSUME IInv, SemNext  PROVE IInv'
  OBVIOUS
<1>1. Safe(k) /\ Inner(k)  BY SafeInner DEF IInv
<1>2. SUFFICES Safe(k')
  <2> DEFINE A == UNCHANGED <<rcv, got>>
  <2>1. ASSUME NEW x, NEW n
        PROVE  /\ Sem_Crt(x, n) => A
               /\ Sem_Post(x, n) => A
               /\ Sem_Post_ISR(x, n) => A
               /\ Sem_Pend(x, n) => A
               /\ Sem_Pend_Unlock(x, n) => A
    BY DEF Sem_Crt, Sem_Post, Sem_Post_ISR, Sem_Pend, Sem_Pend_Unlock
  <2>2. ASSUME NEW x
        PROVE  /\ Sem_Del(x) => A
               /\ Sem_Bcst(x) => A
               /\ Sem_Bcst_ISR(x) => A
               /\ Sem_Abort(x) => A
    BY DEF Sem_Del, Sem_Bcst, Sem_Bcst_ISR, Sem_Abort
  <2> HIDE DEF A
  <2>3. A  BY <2>1, <2>2 DEF SemNext
  <2>4. UNCHANGED <<rcv, got>>  BY <2>3 DEF A
  <2>. QED  BY <2>4 DEF IInv
<1>3. ASSUME NEW x \in Sem, NEW n \in Posts, Sem_Crt(x, n)  PROVE Safe(k')
  BY <1>1, <1>3, SemCrt
<1>4. ASSUME NEW x \in Sem, NEW n \in Posts,
             Sem_Post(x, n) \/ Sem_Post_ISR(x, n)
      PROVE  Safe(k')
  <2>1. k' = Leave(Serve(k, x, n)) /\ n \in Word
    BY <1>4, WordLemma DEF Sem_Post, Sem_Post_ISR
  <2>. QED  BY <1>1, <2>1, ServeInner, LeaveSafe
<1>5. ASSUME NEW x \in Sem, Sem_Del(x)  PROVE Safe(k')
  BY <1>1, <1>5, SemDel
<1>6. ASSUME NEW x \in Sem, Sem_Bcst(x) \/ Sem_Bcst_ISR(x)  PROVE Safe(k')
  <2>1. k' = Leave(WakeAll(k, k.wait[x]))
    BY <1>6 DEF Sem_Bcst, Sem_Bcst_ISR
  <2>2. Inner(WakeAll(k, k.wait[x]))  BY <1>1, WakeList
  <2>. QED  BY <2>1, <2>2, LeaveSafe
<1>7. ASSUME NEW x \in Sem, NEW n \in Waits, Sem_Pend(x, n)  PROVE Safe(k')
  <2>1. /\ User /\ x \in k.used /\ k' = Pend_Core(k, x, n)
        /\ k.num[x] = 0 /\ n # 0 => k.lock = 0 /\ k.cur # Idle
    BY <1>7 DEF Sem_Pend, MayBlock
  <2>2. k.state[k.cur] = "RUNNING" /\ n \in Word
    BY <1>1, <2>1, UserRuns, WordLemma
  <2>. QED  BY <1>1, <2>1, <2>2, PendCore
<1>8. ASSUME NEW x \in Sem, NEW n \in Waits, Sem_Pend_Unlock(x, n)
      PROVE  Safe(k')
  BY <1>1, <1>8, PendUnlock
<1>9. ASSUME NEW t \in Thd, Sem_Abort(t)  PROVE Safe(k')
  <2>1. k.state[t] \in Blocked  BY <1>9 DEF Sem_Abort, Blocked
  <2>2. k' = Leave(SetRetval(Wake(k, t), {t}, "err"))
    BY <1>9 DEF Sem_Abort
  <2>. QED  BY <1>1, <2>1, <2>2, AbortSafe
<1>. QED  BY <1>3, <1>4, <1>5, <1>6, <1>7, <1>8, <1>9 DEF SemNext

----------------------------------------------------------------------------
(* The theorems, for any number of threads, semaphores and priorities, any *)
(* word size, and any nesting of the lock.                                 *)

\* Every reachable state satisfies the inductive invariant.
THEOREM Invariance == Spec => []IInv
<1>1. Init => IInv  BY InitSafe
<1>2. IInv /\ [Next]_vars => IInv'
  <2>1. IInv /\ UNCHANGED vars => IInv'  BY DEF IInv, vars
  <2>. QED  BY <2>1, CoreSafe, ThreadSafe, MailSafe, SemSafe DEF Next
<1>. QED  BY <1>1, <1>2, PTL DEF Spec

\* Every field of the kernel's memory keeps its type.
THEOREM TypeCorrect == Spec => []TypeOK
<1>1. IInv => TypeOK  BY DEF IInv, Safe, KInv, Good, TypeOK
<1>. QED  BY <1>1, Invariance, PTL

\* The run queues and the bitmap always show exactly the ready threads.
THEOREM RunQueuesCorrect == Spec => []RunQueuesExact
<1>1. IInv => RunQueuesExact  BY DEF IInv, Safe, KInv, Good, RunQueuesExact
<1>. QED  BY <1>1, Invariance, PTL

\* No woken or deleted thread leaves a timer behind, and none loses its own.
THEOREM DelayCorrect == Spec => []DelayExact
<1>1. IInv => DelayExact  BY DEF IInv, Safe, KInv, Good, DelayExact
<1>. QED  BY <1>1, Invariance, PTL

\* A thread is on one wait list exactly when its state says so.
THEOREM WaitersCorrect == Spec => []WaitersExact
<1>1. IInv => WaitersExact  BY DEF IInv, Safe, KInv, Good, WaitersExact
<1>. QED  BY <1>1, Invariance, PTL

\* There is always a thread to run.
THEOREM AlwaysReady == Spec => []IdleReady
<1>1. IInv => IdleReady  BY DEF IInv, Safe, KInv, IdleReady
<1>. QED  BY <1>1, Invariance, PTL

\* Without a pended switch the highest ready thread runs.
THEOREM HighestCorrect == Spec => []HighestRuns
<1>1. IInv => HighestRuns  BY DEF IInv, Safe, KInv, Good, HighestRuns
<1>. QED  BY <1>1, Invariance, PTL

\* No pended switch is carried back to unlocked thread code.
THEOREM PendCorrect == Spec => []PendRequested
<1>1. IInv => PendRequested  BY DEF IInv, Safe, PendRequested
<1>. QED  BY <1>1, Invariance, PTL

\* No deleted or blocked thread runs.
THEOREM CurCorrect == Spec => []CurRuns
<1>1. IInv => CurRuns  BY DEF IInv, Safe, CurRuns
<1>. QED  BY <1>1, Invariance, PTL

----------------------------------------------------------------------------
(* The wait lists, the flags and the counts: IInv says which threads are   *)
(* on which list, IpcInv relates the lists to the flags and counts.        *)

Receiving == {"RCVBLK", "RCVDLY"}

\* The lists, flags and counts agree; q are the threads in RMP_Thd_Rcv.
Ipc(s, q) ==
    /\ \A r \in Thd : ToSet(s.snd[r]) # {} => r \in s.full
    /\ \A x \in Sem : ToSet(s.wait[x]) # {} => s.num[x] = 0
    /\ \A t \in Thd : s.state[t] \in Receiving => t \notin s.full /\ t \in q
    /\ \A t \in Thd : s.state[t] = "FREE" =>
          t \notin s.full /\ t \notin s.susp /\ t \notin q
    /\ \A t \in Thd : t \in q => s.state[t] \in {"RUNNING"} \cup Receiving
    /\ \A t \in Thd : s.state[t] \in Blocked => s.retval[t] = "ok"
    /\ s.cur \in q => s.lock = 0
    /\ \A x \in Sem : s.num[x] = 0 \/ s.num[x] < SemMax

\* The inductive invariant, with the one it rests on.
IpcInv == IInv /\ Ipc(k, rcv)

\* u and s agree on all that Ipc looks at.
SameIpc(u, s) ==
    /\ u.state = s.state /\ u.susp = s.susp /\ u.full = s.full
    /\ u.snd = s.snd /\ u.wait = s.wait /\ u.num = s.num /\ u.used = s.used
    /\ u.retval = s.retval /\ u.cur = s.cur /\ u.lock = s.lock
    /\ u.panic = s.panic

\* u is s after the threads of T were woken, or some other steps of the same
\* kind: nobody blocks, no list grows, no flag and no count changes.
Eased(u, s, T) ==
    /\ u.state = [t \in Thd |-> IF t \in T THEN "RUNNING" ELSE s.state[t]]
    /\ \A t \in Thd \ T : u.retval[t] = s.retval[t]
    /\ \A r \in Thd : ToSet(u.snd[r]) \subseteq ToSet(s.snd[r])
    /\ \A x \in Sem : ToSet(u.wait[x]) \subseteq ToSet(s.wait[x])
    /\ u.susp = s.susp /\ u.full = s.full /\ u.used = s.used
    /\ u.num = s.num /\ u.cur = s.cur /\ u.lock = s.lock
    /\ u.panic = s.panic

\* The states are apart from each other.
LEMMA StateFacts ==
  /\ "RUNNING" \notin Blocked /\ "FREE" \notin Blocked
  /\ "RUNNING" \notin Receiving /\ "FREE" \notin Receiving
  /\ Receiving \subseteq Blocked /\ Sending \subseteq Blocked
  /\ Pending \subseteq Blocked /\ Timed \subseteq Blocked
  /\ Receiving \cap Sending = {} /\ Receiving \cap Pending = {}
  /\ Sending \cap Pending = {}
  /\ ThdState = {"FREE", "RUNNING"} \cup Blocked
BY DEF Blocked, Receiving, Sending, Pending, Timed, ThdState

\* Waking blocked threads keeps Ipc.
LEMMA EasedIpc ==
  ASSUME NEW s, NEW u, NEW q, NEW T, Ipc(s, q), Eased(u, s, T),
         \A t \in T : t \in Thd /\ s.state[t] \in Blocked
  PROVE  Ipc(u, q)
<1>1. \A t \in Thd : \/ u.state[t] = s.state[t] /\ t \notin T
                     \/ u.state[t] = "RUNNING" /\ s.state[t] \in Blocked
  BY DEF Eased
<1>2. /\ \A t \in Thd : u.state[t] # "RUNNING" =>
             u.state[t] = s.state[t] /\ u.retval[t] = s.retval[t]
      /\ \A r \in Thd : ToSet(u.snd[r]) # {} => ToSet(s.snd[r]) # {}
      /\ \A x \in Sem : ToSet(u.wait[x]) # {} => ToSet(s.wait[x]) # {}
  BY <1>1 DEF Eased
<1>3. /\ u.susp = s.susp /\ u.full = s.full
      /\ u.num = s.num /\ u.cur = s.cur /\ u.lock = s.lock
  BY DEF Eased
<1>4. \A t \in Thd : t \in q => u.state[t] \in {"RUNNING"} \cup Receiving
  BY <1>1, <1>2 DEF Ipc
<1>. QED  BY <1>1, <1>2, <1>3, <1>4, StateFacts DEF Ipc

\* A step that changes nothing that Ipc looks at keeps it.
LEMMA SameIpcKeeps ==
  ASSUME NEW s, NEW u, NEW q, Ipc(s, q), SameIpc(u, s)
  PROVE  Ipc(u, q)
BY DEF Ipc, SameIpc

\* A record with the fields of the kernel's memory.
Mem(s) == DOMAIN s = DOMAIN Boot

\* Every memory of the right type is such a record.
LEMMA KernelMem == \A s \in Kernel : Mem(s)
BY DEF Mem, Boot, Kernel

\* Leave only requests the switch.
LEMMA LeaveSame ==
  ASSUME NEW s, Mem(s)
  PROVE  SameIpc(Leave(s), s)
BY DEF Leave, SameIpc, Mem, Boot

\* So Leave keeps Ipc.
LEMMA LeaveIpc ==
  ASSUME NEW s, Mem(s), NEW q, Ipc(s, q)
  PROVE  Ipc(Leave(s), q)
BY LeaveSame, SameIpcKeeps

\* The run queues are of no concern here.
LEMMA RunSame ==
  ASSUME NEW s, Mem(s), NEW t
  PROVE  /\ SameIpc(Run_Ins(s, t), s) /\ Mem(Run_Ins(s, t))
         /\ SameIpc(Run_Del(s, t), s) /\ Mem(Run_Del(s, t))
BY DEF Run_Ins, Run_Del, SameIpc, Mem, Boot

\* SetRetval writes the return values of the threads of T, and nothing else.
LEMMA SetRetvalFields ==
  ASSUME NEW s \in Kernel, NEW T, NEW r \in {"ok", "err"}
  PROVE  LET u == SetRetval(s, T, r)
         IN  /\ \A t \in Thd : u.retval[t] = IF t \in T THEN r ELSE s.retval[t]
             /\ u.state = s.state /\ SameRest(u, s)
             /\ u.snd = s.snd /\ u.wait = s.wait
BY DEF SetRetval, Kernel, SameRest

\* Waking the threads of T eases the memory, whatever they are told.
LEMMA WokenEased ==
  ASSUME NEW s, NEW u, NEW T, Woken(u, s, T)
  PROVE  Eased(u, s, T)
<1>1. \A r \in Thd : ToSet(u.snd[r]) \subseteq ToSet(s.snd[r])
  BY DEF Woken, Shrunk
<1>2. \A x \in Sem : ToSet(u.wait[x]) \subseteq ToSet(s.wait[x])
  BY DEF Woken, Shrunk
<1>3. /\ u.state = [t \in Thd |-> IF t \in T THEN "RUNNING" ELSE s.state[t]]
      /\ u.retval = s.retval /\ SameRest(u, s)
  BY DEF Woken
<1>. QED  BY <1>1, <1>2, <1>3 DEF Eased, SameRest

\* Waking the threads of T and telling some of them that their call failed.
LEMMA WokenRetval ==
  ASSUME NEW s, NEW w \in Kernel, NEW T, Woken(w, s, T), NEW V, V \subseteq T
  PROVE  Eased(SetRetval(w, V, "err"), s, T)
<1> DEFINE u == SetRetval(w, V, "err")
<1>1. Eased(w, s, T)  BY WokenEased
<1>2. /\ \A t \in Thd : u.retval[t] = IF t \in V THEN "err" ELSE w.retval[t]
      /\ u.state = w.state /\ SameRest(u, w)
      /\ u.snd = w.snd /\ u.wait = w.wait
  BY SetRetvalFields
<1> HIDE DEF u
<1>3. \A t \in Thd \ T : u.retval[t] = w.retval[t]  BY <1>2
<1>4. Eased(u, s, T)  BY <1>1, <1>2, <1>3 DEF Eased, SameRest
<1>. QED  BY <1>4 DEF u

\* Blocking the current thread for v: what the memory looks like then.
LEMMA BlockFields ==
  ASSUME NEW s \in Kernel, NEW n, NEW forever, NEW timed
  PROVE  LET u == Block(s, n, forever, timed)
             v == IF n < SliceMax THEN timed ELSE forever
         IN  /\ u.state = [s.state EXCEPT ![s.cur] = v]
             /\ u.retval = [s.retval EXCEPT ![s.cur] = "ok"]
             /\ u.snd = s.snd /\ u.wait = s.wait /\ SameRest(u, s)
<1> DEFINE a == [s EXCEPT !.retval[s.cur] = "ok"]
           off == Run_Del(a, s.cur)
           x == IF n < SliceMax THEN Dly_Ins(off, s.cur, n) ELSE off
           v == IF n < SliceMax THEN timed ELSE forever
           u == [x EXCEPT !.state[s.cur] = v]
           Like(z) == /\ z.state = s.state
                      /\ z.retval = [s.retval EXCEPT ![s.cur] = "ok"]
                      /\ z.snd = s.snd /\ z.wait = s.wait /\ SameRest(z, s)
                      /\ DOMAIN z = DOMAIN s
<1>1. Like(a)  BY DEF SameRest, Kernel
<1>2. Like(off)  BY DEF SameRest, Run_Del, Kernel
<1>3. Like(x)  BY DEF SameRest, Dly_Ins, Run_Del, Kernel
<1>4. Block(s, n, forever, timed) = u  BY DEF Block
<1> HIDE DEF a, off, x, v
<1>5. /\ u.state = [s.state EXCEPT ![s.cur] = v]
      /\ u.retval = [s.retval EXCEPT ![s.cur] = "ok"]
      /\ u.snd = s.snd /\ u.wait = s.wait /\ SameRest(u, s)
  BY <1>3 DEF SameRest, Kernel
<1>. QED  BY <1>4, <1>5 DEF v

\* Blocking keeps the fields of the memory.
LEMMA BlockMem ==
  ASSUME NEW s \in Kernel, NEW n, NEW forever, NEW timed
  PROVE  Mem(Block(s, n, forever, timed))
BY DEF Block, Run_Del, Dly_Ins, Mem, Boot, Kernel

----------------------------------------------------------------------------
(* The scheduler.                                                          *)

\* A thread in RMP_Thd_Rcv does not run user code, and the lock is free when
\* it is switched to.
LEMMA SchedIpc ==
  ASSUME NEW s, NEW u, NEW q, Ipc(s, q), u.cur \in q => u.lock = 0,
         u.state = s.state, u.susp = s.susp, u.full = s.full,
         u.snd = s.snd, u.wait = s.wait, u.num = s.num, u.retval = s.retval
  PROVE  Ipc(u, q)
BY DEF Ipc

\* The timer interrupt wakes threads that wait with a timeout.
LEMMA TimHandlerEased ==
  ASSUME NEW s, KInv(s), NEW n \in Word
  PROVE  LET u == Tim_Handler(s, n)
         IN  /\ u \in Kernel
             /\ \E T \in SUBSET Thd :
                   /\ Eased(u, s, T) /\ \A t \in T : s.state[t] \in Timed
                   /\ \A t \in T : s.state[t] # "DELAYED" => u.retval[t] = "err"
<1> DEFINE e == Elapsed(s, n)
           ts == Expired(e)
           w == WakeAll(e, ts)
           V == {t \in ToSet(ts) : e.state[t] # "DELAYED"}
           u == Tim_Handler(s, n)
<1>1. /\ u = Tim_Proc(e) /\ KInv(e) /\ SameLists(e, s)
      /\ e.state = s.state /\ e.susp = s.susp /\ e.used = s.used
      /\ e.lock = s.lock /\ e.full = s.full /\ e.num = s.num
      /\ e.retval = s.retval /\ e.panic = s.panic
  BY ElapsedFields
<1> HIDE DEF e
<1>2. /\ \A x \in ToSet(ts) : x \in Thd /\ e.state[x] \in Timed
      /\ KInv(w) /\ Woken(w, e, ToSet(ts))
  BY <1>1, WakeExpired
<1>3. u = SetRetval(w, V, "err")  BY <1>1 DEF Tim_Proc
<1> HIDE DEF ts, w, u
<1>4. w \in Kernel  BY <1>2 DEF KInv, Good
<1>5. Eased(SetRetval(w, V, "err"), e, ToSet(ts))  BY <1>2, <1>4, WokenRetval
<1>6. SetRetval(w, V, "err") \in Kernel  BY <1>4, RetvalFields
<1>7. Eased(u, s, ToSet(ts))
  BY <1>1, <1>3, <1>5 DEF Eased, SameLists
<1>8. ToSet(ts) \in SUBSET Thd /\ \A t \in ToSet(ts) : s.state[t] \in Timed
  BY <1>1, <1>2
<1>9. \A t \in ToSet(ts) : s.state[t] # "DELAYED" => u.retval[t] = "err"
  <2> HIDE DEF V
  <2>1. \A t \in Thd : u.retval[t] = IF t \in V THEN "err" ELSE w.retval[t]
    BY <1>3, <1>4, SetRetvalFields
  <2>. QED  BY <2>1, <1>1, <1>8 DEF V
<1>. QED  BY <1>3, <1>6, <1>7, <1>8, <1>9 DEF u

\* The scheduler and the timer keep the agreement.
LEMMA CoreIpc == IpcInv /\ CoreNext => Ipc(k', rcv')
<1> SUFFICES ASSUME IpcInv, CoreNext  PROVE Ipc(k', rcv')
  OBVIOUS
<1>1. Safe(k) /\ KInv(k) /\ k \in Kernel /\ Ipc(k, rcv)
  BY SafeInner DEF IpcInv, IInv
<1>2. rcv' = rcv
  BY DEF CoreNext, Sched_Lock, Sched_Unlock, Yield, Switch, Tick, Halt, vars
<1>3. ASSUME NEW l \in Int, k' = [k EXCEPT !.lock = l], User
      PROVE  Ipc(k', rcv)
  <2>1. /\ k'.state = k.state /\ k'.susp = k.susp /\ k'.full = k.full
        /\ k'.snd = k.snd /\ k'.wait = k.wait /\ k'.num = k.num
        /\ k'.retval = k.retval /\ k'.cur = k.cur
    BY <1>1, <1>3 DEF Kernel
  <2>2. k.cur \notin rcv  BY <1>3 DEF User
  <2>. QED  BY <1>1, <2>1, <2>2, SchedIpc
<1>4. CASE Sched_Lock
  <2>1. k' = [k EXCEPT !.lock = k.lock + 1] /\ User  BY <1>4 DEF Sched_Lock
  <2>2. k.lock + 1 \in Int  BY <1>1, CoreAssumption DEF Kernel
  <2>. QED  BY <1>2, <1>3, <2>1, <2>2
<1>5. CASE Sched_Unlock
  <2> DEFINE u == [k EXCEPT !.lock = k.lock - 1]
  <2>1. k' = Leave(u) /\ User /\ k.lock > 0  BY <1>5 DEF Sched_Unlock
  <2>2. k.lock - 1 \in 0..LockMax  BY <2>1, <1>1, CoreAssumption DEF Kernel
  <2>3. u \in Kernel  BY <1>1, <2>2 DEF Kernel
  <2>4. /\ u.state = k.state /\ u.susp = k.susp /\ u.full = k.full
        /\ u.snd = k.snd /\ u.wait = k.wait /\ u.num = k.num
        /\ u.retval = k.retval /\ u.cur = k.cur
    BY <1>1 DEF Kernel
  <2> HIDE DEF u
  <2>5. k.cur \notin rcv  BY <2>1 DEF User
  <2>6. Ipc(u, rcv)  BY <1>1, <2>4, <2>5, SchedIpc
  <2>. QED  BY <1>2, <2>1, <2>3, <2>6, KernelMem, LeaveIpc
<1>6. CASE Yield
  <2>1. SameIpc(k', k)  BY <1>1, <1>6 DEF Yield, SameIpc, Kernel
  <2>. QED  BY <1>1, <1>2, <2>1, SameIpcKeeps
<1>7. CASE Switch
  <2>1. k' = Run_High(k) /\ k.lock = 0  BY <1>7 DEF Switch, Interrupt
  <2>2. /\ k'.state = k.state /\ k'.susp = k.susp /\ k'.full = k.full
        /\ k'.snd = k.snd /\ k'.wait = k.wait /\ k'.num = k.num
        /\ k'.retval = k.retval /\ k'.lock = k.lock
    BY <1>1, <2>1 DEF Run_High, Kernel
  <2>. QED  BY <1>1, <1>2, <2>1, <2>2, SchedIpc
<1>8. ASSUME NEW n \in Ticks, Tick(n)  PROVE Ipc(k', rcv')
  <2> DEFINE u == Tim_Handler(k, n)
  <2>1. k' = Leave(u) /\ n \in Word  BY <1>8, WordLemma DEF Tick
  <2>2. u \in Kernel /\ \E T \in SUBSET Thd :
           Eased(u, k, T) /\ \A t \in T : k.state[t] \in Timed
    BY <1>1, <2>1, TimHandlerEased
  <2> HIDE DEF u
  <2>3. PICK T \in SUBSET Thd :
           Eased(u, k, T) /\ \A t \in T : k.state[t] \in Timed
    BY <2>2
  <2>4. Ipc(u, rcv)  BY <1>1, <2>3, StateFacts, EasedIpc
  <2>. QED  BY <1>2, <2>1, <2>2, <2>4, KernelMem, LeaveIpc
<1>9. CASE Halt
  BY <1>1, <1>9 DEF Halt, vars
<1>. QED  BY <1>4, <1>5, <1>6, <1>7, <1>8, <1>9 DEF CoreNext

----------------------------------------------------------------------------
(* Threads.                                                                *)

\* A new thread has no flags and waits for nothing.
LEMMA ThdCrtIpc ==
  ASSUME IpcInv, NEW t \in Thd, NEW p, NEW n, Thd_Crt(t, p, n)
  PROVE  Ipc(k', rcv')
<1> DEFINE new == [k EXCEPT !.prio[t] = p, !.slice[t] = n, !.left[t] = n,
                            !.snd[t] = <<>>, !.state[t] = "RUNNING",
                            !.susp = @ \ {t}, !.full = @ \ {t}]
           u == Run_Ins(new, t)
<1>1. /\ k \in Kernel /\ Owners(k) /\ Ipc(k, rcv)
  BY SafeInner DEF IpcInv, IInv, KInv
<1>2. k.state[t] = "FREE" /\ k' = Leave(u) /\ rcv' = rcv \ {t} /\ User
  BY DEF Thd_Crt
<1>3. k.snd[t] = <<>>  BY <1>1, <1>2 DEF Owners
<1>4. [k.snd EXCEPT ![t] = <<>>] = k.snd  BY <1>1, <1>3 DEF Kernel
<1>5. /\ new.state = [k.state EXCEPT ![t] = "RUNNING"]
      /\ new.susp = k.susp \ {t} /\ new.full = k.full \ {t}
      /\ new.snd = k.snd /\ new.wait = k.wait /\ new.num = k.num
      /\ new.retval = k.retval /\ new.cur = k.cur /\ new.lock = k.lock
      /\ Mem(new)
  BY <1>1, <1>4 DEF Kernel, Mem, Boot
<1> HIDE DEF new
<1>6. k.state \in [Thd -> ThdState]  BY <1>1 DEF Kernel
<1>7. \A x \in Thd : IF x = t THEN new.state[x] = "RUNNING"
                              ELSE new.state[x] = k.state[x]
  BY <1>5, <1>6
<1>8. t \notin k.full /\ t \notin rcv  BY <1>1, <1>2 DEF Ipc
<1>9. k.cur \notin rcv  BY <1>2 DEF User
<1>10. Ipc(new, rcv \ {t})
  BY <1>1, <1>5, <1>7, <1>8, <1>9, StateFacts DEF Ipc
<1>11. Ipc(u, rcv \ {t}) /\ Mem(u)  BY <1>5, <1>10, RunSame, SameIpcKeeps
<1> HIDE DEF u
<1>. QED  BY <1>2, <1>11, LeaveIpc

\* Changing a priority or a timeslice.
LEMMA ThdSetIpc ==
  ASSUME IpcInv, NEW t \in Thd, NEW p, NEW n, Thd_Set(t, p, n)
  PROVE  Ipc(k', rcv')
<1> DEFINE off == Run_Del(k, t)
           mid == [off EXCEPT !.prio[t] = p]
           moved == IF k.state[t] = "RUNNING" THEN Run_Ins(mid, t)
                                              ELSE [k EXCEPT !.prio[t] = p]
           set == IF p < PrioNum /\ p # k.prio[t] THEN moved ELSE k
           u == [set EXCEPT !.slice[t] = IF n < SliceMax THEN n ELSE @]
<1>1. Mem(k) /\ Ipc(k, rcv)  BY SafeInner, KernelMem DEF IpcInv, IInv
<1>2. k' = Leave(u) /\ rcv' = rcv  BY DEF Thd_Set
<1>3. SameIpc(off, k) /\ Mem(off)  BY <1>1, RunSame
<1> HIDE DEF off
<1>4. SameIpc(mid, k) /\ Mem(mid)  BY <1>3 DEF SameIpc, Mem, Boot
<1> HIDE DEF mid
<1>5. SameIpc(Run_Ins(mid, t), k) /\ Mem(Run_Ins(mid, t))
  BY <1>4, RunSame DEF SameIpc
<1>6. SameIpc([k EXCEPT !.prio[t] = p], k) /\ Mem([k EXCEPT !.prio[t] = p])
  BY <1>1 DEF SameIpc, Mem, Boot
<1>7. SameIpc(set, k) /\ Mem(set)
  <2>1. SameIpc(moved, k) /\ Mem(moved)  BY <1>5, <1>6
  <2>2. SameIpc(k, k)  BY DEF SameIpc
  <2> HIDE DEF moved
  <2>. QED  BY <2>1, <2>2, <1>1
<1> HIDE DEF set
<1>8. SameIpc(u, k) /\ Mem(u)  BY <1>7 DEF SameIpc, Mem, Boot
<1> HIDE DEF u
<1>9. Ipc(u, rcv)  BY <1>1, <1>8, SameIpcKeeps
<1>. QED  BY <1>2, <1>8, <1>9, LeaveIpc

\* Only threads that exist are suspended, and the flag matters to nobody else.
LEMMA SuspIpc ==
  ASSUME IpcInv, NEW t \in Thd, Thd_Suspend(t) \/ Thd_Resume(t)
  PROVE  Ipc(k', rcv')
<1> DEFINE off == IF k.state[t] = "RUNNING" THEN Run_Del(k, t) ELSE k
           a == [off EXCEPT !.susp = @ \cup {t}]
           on == [k EXCEPT !.susp = @ \ {t}]
           b == IF k.state[t] = "RUNNING" THEN Run_Ins(on, t) ELSE on
           Like(u) == /\ u.state = k.state /\ u.full = k.full
                      /\ u.snd = k.snd /\ u.wait = k.wait /\ u.num = k.num
                      /\ u.retval = k.retval /\ u.cur = k.cur
                      /\ u.lock = k.lock /\ u.susp \subseteq k.susp \cup {t}
                      /\ Mem(u)
<1>1. Mem(k) /\ Ipc(k, rcv)  BY SafeInner, KernelMem DEF IpcInv, IInv
<1>2. k.state[t] # "FREE" /\ rcv' = rcv /\ (k' = Leave(a) \/ k' = Leave(b))
  BY DEF Thd_Suspend, Thd_Resume
<1>3. SameIpc(off, k) /\ Mem(off)
  BY <1>1, RunSame DEF SameIpc
<1> HIDE DEF off
<1>4. Like(a)  BY <1>3 DEF SameIpc, Mem, Boot
<1>5. Like(on)  BY <1>1 DEF Mem, Boot
<1> HIDE DEF a, on
<1>6. SameIpc(Run_Ins(on, t), on) /\ Mem(Run_Ins(on, t))  BY <1>5, RunSame
<1>7. Like(b)  BY <1>5, <1>6 DEF SameIpc
<1> HIDE DEF b
<1>8. ASSUME NEW u, Like(u)  PROVE Ipc(u, rcv)
  BY <1>1, <1>2, <1>8 DEF Ipc
<1>. QED  BY <1>2, <1>4, <1>7, <1>8, LeaveIpc

\* Waking t and telling it that its call failed.
LEMMA AbortIpc ==
  ASSUME IpcInv, NEW t \in Thd, k.state[t] \in Blocked,
         k' = Leave(SetRetval(Wake(k, t), {t}, "err"))
  PROVE  Ipc(k', rcv)
<1> DEFINE w == Wake(k, t)
           u == SetRetval(w, {t}, "err")
<1>1. KInv(k) /\ Ipc(k, rcv)  BY SafeInner DEF IpcInv, IInv
<1>2. KInv(w) /\ Woken(w, k, {t})  BY <1>1, WakeOne
<1> HIDE DEF w
<1>3. w \in Kernel  BY <1>2 DEF KInv, Good
<1>4. Eased(u, k, {t}) /\ u \in Kernel
  BY <1>2, <1>3, WokenRetval, RetvalFields
<1> HIDE DEF u
<1>5. Ipc(u, rcv)  BY <1>1, <1>4, EasedIpc
<1>. QED  BY <1>4, <1>5, KernelMem, LeaveIpc DEF u, w

\* Blocking the current thread for v, on a list that its caller may append
\* it to: p and q are the threads in RMP_Thd_Rcv before and after.
LEMMA BlockAnyIpc ==
  ASSUME NEW s \in Kernel, NEW p, Ipc(s, p), s.state[s.cur] = "RUNNING",
         s.cur \notin p, NEW v \in Blocked,
         NEW u, u.state = [s.state EXCEPT ![s.cur] = v],
         u.retval = [s.retval EXCEPT ![s.cur] = "ok"],
         u.susp = s.susp, u.full = s.full, u.num = s.num,
         u.cur = s.cur, u.lock = s.lock, NEW q,
         IF v \in Receiving
         THEN q = p \cup {s.cur} /\ s.cur \notin s.full /\ s.lock = 0
         ELSE q = p,
         \A r \in Thd : ToSet(u.snd[r]) # {} => r \in s.full,
         \A x \in Sem : ToSet(u.wait[x]) # {} => s.num[x] = 0
  PROVE  Ipc(u, q)
<1>1. /\ s.state \in [Thd -> ThdState] /\ s.cur \in Thd
      /\ s.retval \in [Thd -> {"ok", "err"}]
  BY DEF Kernel
<1>2. \A t \in Thd : IF t = s.cur THEN u.state[t] = v /\ u.retval[t] = "ok"
                     ELSE u.state[t] = s.state[t] /\ u.retval[t] = s.retval[t]
  BY <1>1
<1>. QED  BY <1>1, <1>2, StateFacts DEF Ipc

\* The same for a call that starts with the memory as it is.
LEMMA BlockIpc ==
  ASSUME IpcInv, User, NEW v \in Blocked,
         NEW u, u.state = [k.state EXCEPT ![k.cur] = v],
         u.retval = [k.retval EXCEPT ![k.cur] = "ok"],
         u.susp = k.susp, u.full = k.full, u.num = k.num,
         u.cur = k.cur, u.lock = k.lock, NEW q,
         IF v \in Receiving
         THEN q = rcv \cup {k.cur} /\ k.cur \notin k.full /\ k.lock = 0
         ELSE q = rcv,
         \A r \in Thd : ToSet(u.snd[r]) # {} => r \in k.full,
         \A x \in Sem : ToSet(u.wait[x]) # {} => k.num[x] = 0
  PROVE  Ipc(u, q)
<1>1. /\ k \in Kernel /\ Ipc(k, rcv) /\ k.state[k.cur] = "RUNNING"
  BY SafeInner, UserRuns DEF IpcInv, IInv
<1>2. k.cur \notin rcv  BY DEF User
<1>. QED  BY <1>1, <1>2, BlockAnyIpc

\* A thread that sleeps waits for no mail and no semaphore.
LEMMA ThdDelayIpc ==
  ASSUME IpcInv, NEW n, Thd_Delay(n)
  PROVE  Ipc(k', rcv')
<1> DEFINE u == Block(k, n, "DELAYED", "DELAYED")
<1>1. k \in Kernel /\ Ipc(k, rcv)  BY SafeInner DEF IpcInv, IInv
<1>2. k' = Leave(u) /\ rcv' = rcv /\ User  BY DEF Thd_Delay, MayBlock
<1>3. /\ u.state = [k.state EXCEPT ![k.cur] = "DELAYED"]
      /\ u.retval = [k.retval EXCEPT ![k.cur] = "ok"]
      /\ u.snd = k.snd /\ u.wait = k.wait /\ SameRest(u, k)
  BY <1>1, BlockFields
<1>4. Mem(u)  BY <1>1, BlockMem
<1> HIDE DEF u
<1>5. "DELAYED" \in Blocked /\ "DELAYED" \notin Receiving
  BY DEF Blocked, Receiving
<1>6. /\ u.susp = k.susp /\ u.full = k.full /\ u.num = k.num
      /\ u.cur = k.cur /\ u.lock = k.lock
  BY <1>3 DEF SameRest
<1>7. /\ \A r \in Thd : ToSet(u.snd[r]) # {} => r \in k.full
      /\ \A x \in Sem : ToSet(u.wait[x]) # {} => k.num[x] = 0
  BY <1>1, <1>3 DEF Ipc
<1>8. Ipc(u, rcv)
  BY <1>2, <1>3, <1>5, <1>6, <1>7, BlockIpc
<1>. QED  BY <1>2, <1>4, <1>8, LeaveIpc

\* Taking t off the list its state names: a run queue, or a wait list.
LEMMA OffEased ==
  ASSUME NEW s, KInv(s), NEW t \in Thd
  PROVE  LET u == IF s.state[t] = "RUNNING" THEN Run_Del(s, t)
                                            ELSE Unlink(s, t)
         IN  Eased(u, s, {}) /\ Mem(u)
<1>1. s \in Kernel /\ s.state \in [Thd -> ThdState]
  BY DEF KInv, Good, Kernel
<1>2. [x \in Thd |-> s.state[x]] = s.state  BY <1>1
<1>3. CASE s.state[t] = "RUNNING"
  <2>1. SameIpc(Run_Del(s, t), s) /\ Mem(Run_Del(s, t))
    BY <1>1, KernelMem, RunSame
  <2>2. Eased(Run_Del(s, t), s, {})  BY <1>2, <2>1 DEF Eased, SameIpc
  <2>. QED  BY <1>3, <2>1, <2>2
<1>4. CASE s.state[t] # "RUNNING"
  <2> DEFINE u == Unlink(s, t)
             R == Ready(s)
             D == InState(s, Timed)
             S == InState(s, Sending)
             P == InState(s, Pending)
  <2>1. Good(s, R, D, S, P)  BY DEF KInv
  <2>2. /\ t \in D <=> s.state[t] \in Timed
        /\ t \in S <=> s.state[t] \in Sending
        /\ t \in P <=> s.state[t] \in Pending
    BY DEF InState
  <2>3. /\ SameRest(u, s) /\ u.state = s.state /\ u.retval = s.retval
    BY <1>1, UnlinkRest
  <2>4. Mem(u)  BY <1>1 DEF Unlink, Mem, Boot, Kernel
  <2> HIDE DEF R, D, S, P, u
  <2>5. Shrunk(u, s, {t})  BY <2>1, <2>2, Unlinked DEF u
  <2>6. Eased(u, s, {})  BY <1>2, <2>3, <2>5 DEF Eased, SameRest, Shrunk
  <2>. QED  BY <1>4, <2>4, <2>6 DEF u
<1>. QED  BY <1>3, <1>4

\* A deleted thread leaves nobody behind who waits to send to it.
LEMMA ThdDelIpc ==
  ASSUME IpcInv, NEW t \in Thd, Thd_Del(t)
  PROVE  Ipc(k', rcv')
<1> DEFINE T == ToSet(k.snd[t])
           w == WakeAll(k, k.snd[t])
           s == SetRetval(w, T, "err")
           off == IF s.state[t] = "RUNNING" THEN Run_Del(s, t)
                                            ELSE Unlink(s, t)
           gone == [off EXCEPT !.retval[t] = "err", !.state[t] = "FREE",
                               !.susp = @ \ {t}, !.full = @ \ {t}]
           q == rcv \ {t}
<1>1. k \in Kernel /\ KInv(k) /\ Inner(k) /\ Ipc(k, rcv)
  BY SafeInner DEF IpcInv, IInv
<1>2. /\ User /\ rcv' = q
      /\ k' = IF t = k.cur /\ k.lock > 0 THEN [gone EXCEPT !.panic = 1]
                                         ELSE Leave(gone)
  BY DEF Thd_Del
<1>3. /\ k.snd[t] \in Seq(Thd) /\ IsInjective(k.snd[t])
      /\ \A x \in T : x \in Thd /\ k.state[x] \in Blocked
  <2>1. DOMAIN k.snd = Thd /\ k.snd[t] \in Seq(Thd)  BY <1>1 DEF Kernel
  <2>2. Apart(k.snd, InState(k, Sending))
    BY <1>1, ListedDef DEF KInv, Good
  <2>3. IsInjective(k.snd[t])  BY <2>1, <2>2 DEF Apart
  <2>4. \A x \in T : x \in InState(k, Sending)
    BY <2>1, <2>2 DEF Apart
  <2>. QED  BY <2>1, <2>3, <2>4 DEF InState, Blocked
<1>4. KInv(w) /\ Woken(w, k, T)  BY <1>1, <1>3, WakeEach
<1> HIDE DEF w
<1>5. w \in Kernel /\ Inner(w)  BY <1>1, <1>4, WokenInner DEF KInv, Good
<1>6. Inner(s) /\ KInv(s) /\ s.snd = w.snd
  BY <1>5, RetvalInner, RetvalFields DEF Inner
<1>7. Eased(s, k, T)  BY <1>4, <1>5, WokenRetval
<1> HIDE DEF s
<1>8. Ipc(s, rcv)  BY <1>1, <1>3, <1>7, EasedIpc
<1>9. ToSet(s.snd[t]) = {}  BY <1>4, <1>6 DEF Woken, Shrunk
<1>10. Eased(off, s, {}) /\ Mem(off)  BY <1>6, OffEased
<1> HIDE DEF off, T
<1>11. Ipc(off, rcv)  BY <1>8, <1>10, EasedIpc
<1>12. ToSet(off.snd[t]) = {}  BY <1>9, <1>10 DEF Eased
<1>13. off.state \in [Thd -> ThdState] /\ off.cur = k.cur
  <2>1. off.state = [x \in Thd |-> s.state[x]]  BY <1>10 DEF Eased
  <2>2. s.state \in [Thd -> ThdState]  BY <1>6 DEF KInv, Good, Kernel
  <2>3. off.cur = k.cur  BY <1>7, <1>10 DEF Eased
  <2>. QED  BY <2>1, <2>2, <2>3
<1>14. /\ gone.state = [off.state EXCEPT ![t] = "FREE"]
       /\ gone.susp = off.susp \ {t} /\ gone.full = off.full \ {t}
       /\ gone.snd = off.snd /\ gone.wait = off.wait /\ gone.num = off.num
       /\ gone.cur = off.cur /\ gone.lock = off.lock /\ Mem(gone)
       /\ \A x \in Thd \ {t} : gone.retval[x] = off.retval[x]
  BY <1>10 DEF Mem, Boot
<1> HIDE DEF gone
<1>15. \A x \in Thd : IF x = t THEN gone.state[x] = "FREE"
                               ELSE gone.state[x] = off.state[x]
  BY <1>13, <1>14
<1>16. Ipc(gone, q)
  <2>1. \A r \in Thd : ToSet(gone.snd[r]) # {} => r \in gone.full
    BY <1>11, <1>12, <1>14 DEF Ipc
  <2>2. \A x \in Sem : ToSet(gone.wait[x]) # {} => gone.num[x] = 0
    BY <1>11, <1>14 DEF Ipc
  <2>3. \A x \in Thd : gone.state[x] \in Blocked => gone.retval[x] = "ok"
    BY <1>11, <1>14, <1>15, StateFacts DEF Ipc
  <2>4. \A x \in Thd : x \in q => gone.state[x] \in {"RUNNING"} \cup Receiving
    BY <1>11, <1>15 DEF Ipc
  <2>5. gone.cur \in q => gone.lock = 0  BY <1>11, <1>14 DEF Ipc
  <2>6. \A x \in Thd : gone.state[x] \in Receiving =>
                          x \notin gone.full /\ x \in q
    BY <1>11, <1>14, <1>15, StateFacts DEF Ipc
  <2>7. \A x \in Thd : gone.state[x] = "FREE" =>
           x \notin gone.full /\ x \notin gone.susp /\ x \notin q
    BY <1>11, <1>14, <1>15 DEF Ipc
  <2>8. \A x \in Sem : gone.num[x] = 0 \/ gone.num[x] < SemMax
    BY <1>11, <1>14 DEF Ipc
  <2> HIDE DEF q
  <2>. QED  BY <2>1, <2>2, <2>3, <2>4, <2>5, <2>6, <2>7, <2>8 DEF Ipc
<1>17. Ipc([gone EXCEPT !.panic = 1], q)
  <2> DEFINE u == [gone EXCEPT !.panic = 1]
  <2>1. /\ u.state = gone.state /\ u.susp = gone.susp /\ u.full = gone.full
        /\ u.snd = gone.snd /\ u.wait = gone.wait /\ u.num = gone.num
        /\ u.retval = gone.retval /\ u.cur = gone.cur /\ u.lock = gone.lock
    BY <1>14 DEF Mem, Boot
  <2>2. u.cur \in q => u.lock = 0  BY <1>16, <2>1 DEF Ipc
  <2> HIDE DEF u, q
  <2>. QED  BY <1>16, <2>1, <2>2, SchedIpc DEF u
<1>. QED  BY <1>2, <1>14, <1>16, <1>17, LeaveIpc

\* Every thread call keeps the lists, flags and counts in agreement.
LEMMA ThreadIpc == IpcInv /\ ThreadNext => Ipc(k', rcv')
<1> SUFFICES ASSUME IpcInv, ThreadNext  PROVE Ipc(k', rcv')
  OBVIOUS
<1>1. ASSUME NEW t \in Thd, Thd_Cancel(t)  PROVE Ipc(k', rcv')
  <2>1. k.state[t] \in Blocked  BY <1>1 DEF Thd_Cancel, Blocked
  <2>2. k' = Leave(SetRetval(Wake(k, t), {t}, "err")) /\ rcv' = rcv
    BY <1>1 DEF Thd_Cancel
  <2>. QED  BY <2>1, <2>2, AbortIpc
<1>. QED  BY <1>1, ThdCrtIpc, ThdSetIpc, SuspIpc, ThdDelayIpc, ThdDelIpc
          DEF ThreadNext

----------------------------------------------------------------------------
(* Mailboxes.                                                              *)

\* Waking one blocked thread.
LEMMA WakeIpc ==
  ASSUME NEW s, KInv(s), NEW q, Ipc(s, q), NEW t \in Thd,
         s.state[t] \in Blocked
  PROVE  LET u == Wake(s, t)
         IN  KInv(u) /\ Mem(u) /\ Eased(u, s, {t}) /\ Ipc(u, q)
<1>1. KInv(Wake(s, t)) /\ Woken(Wake(s, t), s, {t})  BY WakeOne
<1>2. Wake(s, t) \in Kernel  BY <1>1 DEF KInv, Good
<1>3. Eased(Wake(s, t), s, {t})  BY <1>1, WokenEased
<1>. QED  BY <1>1, <1>2, <1>3, EasedIpc, KernelMem

\* Mail is delivered to nobody who still waits for it.
LEMMA DeliverIpc ==
  ASSUME NEW s, KInv(s), NEW q, Ipc(s, q), NEW t \in Thd, NEW d,
         s.state[t] # "FREE"
  PROVE  LET u == Deliver(s, t, d)  IN  Ipc(u, q) /\ Mem(u)
<1> DEFINE w == IF s.state[t] \in {"RCVBLK", "RCVDLY"} THEN Wake(s, t) ELSE s
           u == [w EXCEPT !.mailbox[t] = d, !.full = @ \cup {t}]
<1>1. Deliver(s, t, d) = u  BY DEF Deliver
<1>2. /\ Ipc(w, q) /\ Mem(w)
      /\ w.state[t] \notin Receiving /\ w.state[t] # "FREE"
  <2>1. CASE s.state[t] \in {"RCVBLK", "RCVDLY"}
    <3>1. w = Wake(s, t)  BY <2>1
    <3>2. s.state[t] \in Blocked  BY <2>1 DEF Blocked
    <3>3. Ipc(w, q) /\ Mem(w) /\ Eased(w, s, {t})  BY <3>1, <3>2, WakeIpc
    <3> HIDE DEF w
    <3>4. w.state[t] = "RUNNING"  BY <3>3 DEF Eased
    <3>. QED  BY <3>3, <3>4, StateFacts
  <2>2. CASE s.state[t] \notin {"RCVBLK", "RCVDLY"}
    <3>1. Mem(s)  BY KernelMem DEF KInv, Good
    <3>. QED  BY <2>2, <3>1 DEF Receiving
  <2>. QED  BY <2>1, <2>2
<1> HIDE DEF w
<1>3. /\ u.state = w.state /\ u.susp = w.susp /\ u.full = w.full \cup {t}
      /\ u.snd = w.snd /\ u.wait = w.wait /\ u.num = w.num
      /\ u.retval = w.retval /\ u.cur = w.cur /\ u.lock = w.lock /\ Mem(u)
  BY <1>2 DEF Mem, Boot
<1> HIDE DEF u
<1>4. Ipc(u, q)  BY <1>2, <1>3 DEF Ipc
<1>. QED  BY <1>1, <1>3, <1>4

\* A mailbox becomes empty only when nobody waits to fill it.
LEMMA UnblockIpc ==
  ASSUME NEW s, KInv(s), NEW q, Ipc(s, q), NEW c \in Thd
  PROVE  LET u == Thd_Unblock(s, c)
         IN  Ipc(u, q) /\ Mem(u) /\ u.cur = s.cur /\ u.lock = s.lock
<1>1. s \in Kernel /\ Mem(s)  BY KernelMem DEF KInv, Good
<1>2. s.snd[c] \in Seq(Thd)  BY <1>1 DEF Kernel
<1>3. CASE s.snd[c] = <<>>
  <2> DEFINE u == [s EXCEPT !.full = @ \ {c}]
  <2>1. Thd_Unblock(s, c) = u  BY <1>3 DEF Thd_Unblock
  <2>2. /\ u.state = s.state /\ u.susp = s.susp /\ u.full = s.full \ {c}
        /\ u.snd = s.snd /\ u.wait = s.wait /\ u.num = s.num
        /\ u.retval = s.retval /\ u.cur = s.cur /\ u.lock = s.lock /\ Mem(u)
    BY <1>1 DEF Mem, Boot
  <2> HIDE DEF u
  <2>3. ToSet(s.snd[c]) = {}  BY <1>2, <1>3, EmptySet
  <2>4. Ipc(u, q)  BY <2>2, <2>3 DEF Ipc
  <2>. QED  BY <2>1, <2>2, <2>4
<1>4. CASE s.snd[c] # <<>>
  <2> DEFINE t == Head(s.snd[c])
             w == Wake(s, t)
             u == [w EXCEPT !.mailbox[c] = s.mailbox[t]]
  <2>1. Thd_Unblock(s, c) = u  BY <1>4 DEF Thd_Unblock
  <2>2. t \in Thd /\ s.state[t] \in Blocked
    <3>1. 1 \in 1..Len(s.snd[c]) /\ t = s.snd[c][1]  BY <1>2, <1>4
    <3>2. t \in ToSet(s.snd[c]) /\ t \in Thd  BY <1>2, <3>1, ToSetLemma
    <3>3. Apart(s.snd, InState(s, Sending)) /\ DOMAIN s.snd = Thd
      BY <1>1, ListedDef DEF KInv, Good, Kernel
    <3>4. t \in InState(s, Sending)  BY <3>2, <3>3 DEF Apart
    <3>. QED  BY <3>2, <3>4 DEF InState, Blocked
  <2> HIDE DEF t
  <2>3. Ipc(w, q) /\ Mem(w) /\ w.cur = s.cur /\ w.lock = s.lock
    BY <2>2, WakeIpc DEF Eased
  <2> HIDE DEF w
  <2>4. SameIpc(u, w) /\ Mem(u)  BY <2>3 DEF SameIpc, Mem, Boot
  <2> HIDE DEF u
  <2>. QED  BY <2>1, <2>3, <2>4, SameIpcKeeps DEF SameIpc
<1>. QED  BY <1>3, <1>4

\* A failed assertion changes none of this.
LEMMA PanicIpc ==
  ASSUME NEW q, Ipc(k, q), Mem(k)
  PROVE  Ipc([k EXCEPT !.panic = 1], q)
<1> DEFINE u == [k EXCEPT !.panic = 1]
<1>1. /\ u.state = k.state /\ u.susp = k.susp /\ u.full = k.full
      /\ u.snd = k.snd /\ u.wait = k.wait /\ u.num = k.num
      /\ u.retval = k.retval /\ u.cur = k.cur /\ u.lock = k.lock
  BY DEF Mem, Boot
<1>2. u.cur \in q => u.lock = 0  BY <1>1 DEF Ipc
<1> HIDE DEF u
<1>. QED  BY <1>1, <1>2, SchedIpc DEF u

\* A thread waits to send only to a full mailbox.
LEMMA SndBlockIpc ==
  ASSUME IpcInv, NEW t \in Thd, NEW d, NEW n, Thd_Snd_Block(t, d, n)
  PROVE  Ipc(k', rcv')
<1> DEFINE v == IF n < SliceMax THEN "SNDDLY" ELSE "SNDBLK"
           s == Block(k, n, "SNDBLK", "SNDDLY")
           u == [s EXCEPT !.snd[t] = Append(@, k.cur), !.mailbox[k.cur] = d]
<1>1. k \in Kernel /\ Ipc(k, rcv)  BY SafeInner DEF IpcInv, IInv
<1>2. k' = Leave(u) /\ rcv' = rcv /\ User /\ t \in k.full
  BY DEF Thd_Snd_Block, MayBlock
<1>3. /\ s.state = [k.state EXCEPT ![k.cur] = v]
      /\ s.retval = [k.retval EXCEPT ![k.cur] = "ok"]
      /\ s.snd = k.snd /\ s.wait = k.wait /\ SameRest(s, k)
  BY <1>1, BlockFields
<1>4. Mem(s)  BY <1>1, BlockMem
<1>5. v \in Blocked /\ v \notin Receiving
  BY DEF Blocked, Receiving, Sending
<1> HIDE DEF s, v
<1>6. /\ u.state = s.state /\ u.retval = s.retval
      /\ u.susp = k.susp /\ u.full = k.full /\ u.num = k.num
      /\ u.cur = k.cur /\ u.lock = k.lock /\ u.wait = k.wait /\ Mem(u)
      /\ u.snd = [k.snd EXCEPT ![t] = Append(@, k.cur)]
  BY <1>3, <1>4 DEF SameRest, Mem, Boot
<1> HIDE DEF u
<1>7. \A r \in Thd : r # t => u.snd[r] = k.snd[r]
  BY <1>1, <1>6 DEF Kernel
<1>8. /\ \A r \in Thd : ToSet(u.snd[r]) # {} => r \in k.full
      /\ \A x \in Sem : ToSet(u.wait[x]) # {} => k.num[x] = 0
  BY <1>1, <1>2, <1>6, <1>7 DEF Ipc
<1>9. /\ u.state = [k.state EXCEPT ![k.cur] = v]
      /\ u.retval = [k.retval EXCEPT ![k.cur] = "ok"]
      /\ u.susp = k.susp /\ u.full = k.full /\ u.num = k.num
      /\ u.cur = k.cur /\ u.lock = k.lock
  BY <1>3, <1>6
<1>10. Ipc(u, rcv)
  BY <1>2, <1>5, <1>8, <1>9, BlockIpc
<1>. QED  BY <1>2, <1>6, <1>10, LeaveIpc

\* A thread waits for mail only in RMP_Thd_Rcv, with an empty mailbox.
LEMMA RcvBlockIpc ==
  ASSUME IpcInv, NEW n, Thd_Rcv_Block(n)
  PROVE  Ipc(k', rcv')
<1> DEFINE v == IF n < SliceMax THEN "RCVDLY" ELSE "RCVBLK"
           u == Block(k, n, "RCVBLK", "RCVDLY")
           q == rcv \cup {k.cur}
<1>1. k \in Kernel /\ Mem(k) /\ Ipc(k, rcv)
  BY SafeInner, KernelMem DEF IpcInv, IInv
<1>2. CASE k.snd[k.cur] # <<>>
  <2>1. k' = [k EXCEPT !.panic = 1] /\ rcv' = rcv
    BY <1>2 DEF Thd_Rcv_Block
  <2>. QED  BY <1>1, <2>1, PanicIpc
<1>3. CASE k.snd[k.cur] = <<>>
  <2>1. /\ k' = Leave(u) /\ rcv' = q /\ User
        /\ k.cur \notin k.full /\ k.lock = 0
    BY <1>3 DEF Thd_Rcv_Block, MayBlock
  <2>2. /\ u.state = [k.state EXCEPT ![k.cur] = v]
        /\ u.retval = [k.retval EXCEPT ![k.cur] = "ok"]
        /\ u.snd = k.snd /\ u.wait = k.wait /\ SameRest(u, k)
    BY <1>1, BlockFields
  <2>3. Mem(u)  BY <1>1, BlockMem
  <2>4. v \in Blocked /\ v \in Receiving
    BY DEF Blocked, Receiving
  <2> HIDE DEF u, v
  <2>5. /\ u.susp = k.susp /\ u.full = k.full /\ u.num = k.num
        /\ u.cur = k.cur /\ u.lock = k.lock
    BY <2>2 DEF SameRest
  <2>6. /\ \A r \in Thd : ToSet(u.snd[r]) # {} => r \in k.full
        /\ \A x \in Sem : ToSet(u.wait[x]) # {} => k.num[x] = 0
    BY <1>1, <2>2 DEF Ipc
  <2>7. Ipc(u, q)
    BY <2>1, <2>2, <2>4, <2>5, <2>6, BlockIpc
  <2>. QED  BY <2>1, <2>3, <2>7, LeaveIpc
<1>. QED  BY <1>2, <1>3

\* The end of the wait of RMP_Thd_Rcv.
LEMMA RcvDoneIpc ==
  ASSUME IpcInv, NEW c \in Thd, Thd_Rcv_Done(c)
  PROVE  Ipc(k', rcv')
<1> DEFINE q == rcv \ {c}
           u == Thd_Unblock(k, c)
<1>1. k \in Kernel /\ Mem(k) /\ KInv(k) /\ Ipc(k, rcv) /\ Safe(k)
  BY SafeInner, KernelMem DEF IpcInv, IInv
<1>2. /\ k.panic = 0 /\ k.soft = 0 /\ c = k.cur /\ c \in rcv /\ rcv' = q
      /\ \/ k' = [k EXCEPT !.panic = 1]
         \/ k' = Leave(u)
         \/ k' = k
  BY DEF Thd_Rcv_Done
<1>3. k.state[c] = "RUNNING"  BY <1>1, <1>2 DEF Safe
<1>4. Ipc(k, q)  BY <1>1, <1>2, <1>3, StateFacts DEF Ipc
<1>5. Ipc(u, q) /\ Mem(u)  BY <1>1, <1>4, UnblockIpc
<1> HIDE DEF u, q
<1>. QED  BY <1>1, <1>2, <1>4, <1>5, PanicIpc, LeaveIpc

\* Every mailbox call, also from an interrupt, keeps the agreement.
LEMMA MailIpc == IpcInv /\ MailNext => Ipc(k', rcv')
<1> SUFFICES ASSUME IpcInv, MailNext  PROVE Ipc(k', rcv')
  OBVIOUS
<1>1. KInv(k) /\ Ipc(k, rcv)  BY SafeInner DEF IpcInv, IInv
<1>2. ASSUME NEW t \in Thd, NEW d, Thd_Snd(t, d) \/ Thd_Snd_ISR(t, d)
      PROVE  Ipc(k', rcv')
  <2> DEFINE u == Deliver(k, t, d)
  <2>1. /\ k' = Leave(u) \/ k' = u
        /\ rcv' = rcv /\ k.state[t] # "FREE"
    BY <1>2 DEF Thd_Snd, Thd_Snd_ISR
  <2>2. Ipc(u, rcv) /\ Mem(u)  BY <1>1, <2>1, DeliverIpc
  <2> HIDE DEF u
  <2>. QED  BY <2>1, <2>2, LeaveIpc
<1>3. ASSUME NEW c \in Thd, Thd_Rcv(c)  PROVE Ipc(k', rcv')
  <2> DEFINE u == Thd_Unblock(k, c)
  <2>1. k' = Leave(u) /\ rcv' = rcv  BY <1>3 DEF Thd_Rcv
  <2>2. Ipc(u, rcv) /\ Mem(u)  BY <1>1, UnblockIpc
  <2> HIDE DEF u
  <2>. QED  BY <2>1, <2>2, LeaveIpc
<1>. QED  BY <1>2, <1>3, SndBlockIpc, RcvBlockIpc, RcvDoneIpc DEF MailNext

----------------------------------------------------------------------------
(* Semaphores.                                                             *)

\* Waking a prefix of a semaphore's list eases the memory.
LEMMA PrefixIpc ==
  ASSUME NEW s, KInv(s), NEW q, Ipc(s, q), NEW x \in Sem,
         NEW m \in 0..Len(s.wait[x])
  PROVE  LET ts == SubSeq(s.wait[x], 1, m)
             u  == WakeAll(s, ts)
         IN  /\ KInv(u) /\ u \in Kernel /\ Mem(u) /\ Woken(u, s, ToSet(ts))
             /\ Ipc(u, q)
<1> DEFINE ts == SubSeq(s.wait[x], 1, m)
           u == WakeAll(s, ts)
<1>1. /\ s.wait[x] \in Seq(Thd) /\ IsInjective(s.wait[x])
      /\ \A t \in ToSet(s.wait[x]) : s.state[t] \in Blocked
  BY WaitersBlocked
<1>2. /\ ts \in Seq(Thd) /\ IsInjective(ts)
      /\ ToSet(ts) \subseteq ToSet(s.wait[x])
  BY <1>1, PrefixLemma
<1>3. \A t \in ToSet(s.wait[x]) : t \in Thd  BY <1>1, ToSetLemma
<1> HIDE DEF ts
<1>4. KInv(u) /\ Woken(u, s, ToSet(ts))  BY <1>1, <1>2, WakeEach
<1> HIDE DEF u
<1>5. u \in Kernel  BY <1>4 DEF KInv, Good
<1>6. Eased(u, s, ToSet(ts))  BY <1>4, WokenEased
<1>7. \A t \in ToSet(ts) : t \in Thd /\ s.state[t] \in Blocked
  BY <1>1, <1>2, <1>3
<1>8. Ipc(u, q)  BY <1>6, <1>7, EasedIpc
<1>. QED  BY <1>4, <1>5, <1>8, KernelMem DEF u, ts

\* The whole list is a prefix of itself.
LEMMA WholePrefix ==
  ASSUME NEW T, NEW q \in Seq(T)
  PROVE  SubSeq(q, 1, Len(q)) = q /\ Len(q) \in 0..Len(q)
OBVIOUS

\* RMP_Sem_Crt starts with a count and an empty list.
LEMMA SemCrtIpc ==
  ASSUME IpcInv, NEW x \in Sem, NEW n, Sem_Crt(x, n)
  PROVE  Ipc(k', rcv')
<1> DEFINE u == [k EXCEPT !.num[x] = n, !.wait[x] = <<>>, !.used = @ \cup {x}]
<1>1. k \in Kernel /\ Ipc(k, rcv)  BY SafeInner DEF IpcInv, IInv
<1>2. k' = Leave(u) /\ rcv' = rcv /\ n < SemMax  BY DEF Sem_Crt
<1>3. /\ u.state = k.state /\ u.susp = k.susp /\ u.full = k.full
      /\ u.snd = k.snd /\ u.retval = k.retval /\ u.cur = k.cur
      /\ u.lock = k.lock /\ Mem(u)
      /\ u.num = [k.num EXCEPT ![x] = n]
      /\ u.wait = [k.wait EXCEPT ![x] = <<>>]
  BY <1>1 DEF Kernel, Mem, Boot
<1> HIDE DEF u
<1>4. ToSet(<<>>) = {}  BY DEF ToSet
<1>5. \A y \in Sem : ToSet(u.wait[y]) # {} =>
         y # x /\ u.wait[y] = k.wait[y] /\ u.num[y] = k.num[y]
  BY <1>1, <1>3, <1>4 DEF Kernel
<1>7. \A y \in Sem : u.num[y] = 0 \/ u.num[y] < SemMax
  <2>1. \A y \in Sem : u.num[y] = n \/ u.num[y] = k.num[y]
    BY <1>1, <1>3 DEF Kernel
  <2>. QED  BY <1>1, <1>2, <2>1 DEF Ipc
<1>6. Ipc(u, rcv)  BY <1>1, <1>3, <1>5, <1>7 DEF Ipc
<1>. QED  BY <1>2, <1>3, <1>6, LeaveIpc

\* RMP_Sem_Del: the threads that waited go on, and fail.
LEMMA SemDelIpc ==
  ASSUME IpcInv, NEW x \in Sem, Sem_Del(x)
  PROVE  Ipc(k', rcv')
<1> DEFINE T == ToSet(k.wait[x])
           w == WakeAll(k, k.wait[x])
           s == SetRetval(w, T, "err")
           u == [s EXCEPT !.used = @ \ {x}]
<1>1. k \in Kernel /\ KInv(k) /\ Ipc(k, rcv)
  BY SafeInner DEF IpcInv, IInv
<1>2. k' = Leave(u) /\ rcv' = rcv  BY DEF Sem_Del
<1>3. /\ k.wait[x] \in Seq(Thd) /\ IsInjective(k.wait[x])
      /\ \A t \in T : k.state[t] \in Blocked
  BY <1>1, WaitersBlocked
<1>4. \A t \in T : t \in Thd  BY <1>3, ToSetLemma
<1>5. KInv(w) /\ Woken(w, k, T)  BY <1>1, <1>3, WakeEach
<1> HIDE DEF w
<1>6. w \in Kernel  BY <1>5 DEF KInv, Good
<1>7. Eased(s, k, T) /\ s \in Kernel
  BY <1>5, <1>6, WokenRetval, RetvalFields
<1> HIDE DEF s, T
<1>8. Ipc(s, rcv)  BY <1>1, <1>3, <1>4, <1>7, EasedIpc
<1>9. /\ u.state = s.state /\ u.susp = s.susp /\ u.full = s.full
      /\ u.snd = s.snd /\ u.wait = s.wait /\ u.num = s.num
      /\ u.retval = s.retval /\ u.cur = s.cur /\ u.lock = s.lock /\ Mem(u)
  BY <1>7 DEF Kernel, Mem, Boot
<1> HIDE DEF u
<1>10. Ipc(u, rcv)  BY <1>8, <1>9, SchedIpc DEF Ipc
<1>. QED  BY <1>2, <1>9, <1>10, LeaveIpc

\* What Serve does: it wakes a prefix of the list and writes the count, and
\* the count is zero if some are left.
LEMMA ServePrefix ==
  ASSUME NEW s, KInv(s), NEW x \in Sem, NEW n \in Word
  PROVE  \E m \in 0..Len(s.wait[x]) :
            LET sum == (s.num[x] + n) % W
            IN  /\ sum \in Word /\ m <= sum
                /\ m # Len(s.wait[x]) => m = sum
                /\ Serve(s, x, n) =
                      [WakeAll(s, SubSeq(s.wait[x], 1, m))
                       EXCEPT !.num[x] = sum - m]
<1> DEFINE sum == (s.num[x] + n) % W
           len == Len(s.wait[x])
           m == IF len < sum THEN len ELSE sum
<1>1. s \in Kernel  BY DEF KInv, Good
<1>2. sum \in Word
  <2>1. s.num[x] \in Word  BY <1>1 DEF Kernel
  <2>2. s.num[x] + n \in Int  BY <2>1, CoreAssumption DEF Word
  <2>. QED  BY <2>2, WordMod
<1>3. len \in Nat  BY <1>1 DEF Kernel
<1>4. Serve(s, x, n) = [WakeAll(s, SubSeq(s.wait[x], 1, m))
                        EXCEPT !.num[x] = sum - m]
  BY DEF Serve
<1> HIDE DEF sum, len
<1>5. m \in 0..len /\ m <= sum /\ (m # len => m = sum)
  BY <1>2, <1>3, CoreAssumption DEF Word
<1> HIDE DEF m
<1>. QED  BY <1>2, <1>4, <1>5 DEF sum, len

\* Posting: whoever still waits finds no count.
LEMMA ServeIpc ==
  ASSUME NEW s, KInv(s), NEW r, Ipc(s, r), NEW x \in Sem, NEW n \in Word,
         (s.num[x] + n) % W < SemMax
  PROVE  Ipc(Serve(s, x, n), r) /\ Mem(Serve(s, x, n))
<1> DEFINE q == s.wait[x]
           sum == (s.num[x] + n) % W
<1>1. s \in Kernel  BY DEF KInv, Good
<1>2. PICK m \in 0..Len(q) :
         /\ sum \in Word /\ m <= sum /\ (m # Len(q) => m = sum)
         /\ Serve(s, x, n) = [WakeAll(s, SubSeq(q, 1, m))
                              EXCEPT !.num[x] = sum - m]
  BY <1>1, ServePrefix
<1> DEFINE ts == SubSeq(q, 1, m)
           w == WakeAll(s, ts)
           u == [w EXCEPT !.num[x] = sum - m]
<1>3. w \in Kernel /\ Woken(w, s, ToSet(ts)) /\ Ipc(w, r)
  BY <1>1, PrefixIpc
<1>10. sum < SemMax  OBVIOUS
<1>4. q \in Seq(Thd)  BY <1>1 DEF Kernel
<1>5. m = Len(q) => ts = q  BY <1>4, WholePrefix
<1> HIDE DEF w, sum
<1>6. /\ u.state = w.state /\ u.susp = w.susp /\ u.full = w.full
      /\ u.snd = w.snd /\ u.wait = w.wait
      /\ u.num = [w.num EXCEPT ![x] = sum - m]
      /\ u.retval = w.retval /\ u.cur = w.cur /\ u.lock = w.lock /\ Mem(u)
  BY <1>3 DEF Kernel, Mem, Boot
<1> HIDE DEF u, ts
<1>7. ToSet(u.wait[x]) # {} => u.num[x] = 0
  <2>1. ToSet(w.wait[x]) = ToSet(q) \ ToSet(ts)
    BY <1>3 DEF Woken, Shrunk
  <2>2. ToSet(w.wait[x]) # {} => m # Len(q)  BY <1>5, <2>1
  <2>3. m # Len(q) => sum - m = 0  BY <1>2
  <2>4. w.num \in [Sem -> Word]  BY <1>3 DEF Kernel
  <2>. QED  BY <1>6, <2>2, <2>3, <2>4
<1>8. \A y \in Sem : ToSet(u.wait[y]) # {} => u.num[y] = 0
  <2>1. DOMAIN w.num = Sem  BY <1>3 DEF Kernel
  <2>2. \A y \in Sem : y # x => u.num[y] = w.num[y]  BY <1>6, <2>1
  <2>3. \A y \in Sem : y # x /\ ToSet(u.wait[y]) # {} => u.num[y] = 0
    BY <1>3, <1>6, <2>2 DEF Ipc
  <2>. QED  BY <1>7, <2>3
<1>11. \A y \in Sem : u.num[y] = 0 \/ u.num[y] < SemMax
  <2>1. \A y \in Sem : u.num[y] = sum - m \/ u.num[y] = w.num[y]
    BY <1>3, <1>6 DEF Kernel
  <2>2. sum - m < SemMax  BY <1>2, <1>4, <1>10, CoreAssumption DEF Word
  <2>. QED  BY <1>3, <2>1, <2>2 DEF Ipc
<1>9. Ipc(u, r)  BY <1>3, <1>6, <1>8, <1>11 DEF Ipc
<1>. QED  BY <1>2, <1>6, <1>9 DEF u, w, ts

\* Broadcasting wakes the whole list.
LEMMA BcstIpc ==
  ASSUME IpcInv, NEW x \in Sem, k' = Leave(WakeAll(k, k.wait[x])), rcv' = rcv
  PROVE  Ipc(k', rcv')
<1> DEFINE u == WakeAll(k, k.wait[x])
<1>1. k \in Kernel /\ KInv(k) /\ Ipc(k, rcv)
  BY SafeInner DEF IpcInv, IInv
<1>2. k.wait[x] \in Seq(Thd)  BY <1>1 DEF Kernel
<1>3. SubSeq(k.wait[x], 1, Len(k.wait[x])) = k.wait[x]
      /\ Len(k.wait[x]) \in 0..Len(k.wait[x])
  BY <1>2, WholePrefix
<1>4. Ipc(u, rcv) /\ Mem(u)  BY <1>1, <1>3, PrefixIpc
<1> HIDE DEF u
<1>5. k' = Leave(u)  BY DEF u
<1>. QED  BY <1>4, <1>5, LeaveIpc

\* A thread waits on a semaphore only if its count is zero.
LEMMA PendCoreIpc ==
  ASSUME NEW s \in Kernel, NEW q, Ipc(s, q), s.state[s.cur] = "RUNNING",
         s.cur \notin q, NEW x \in Sem, NEW n
  PROVE  Ipc(Pend_Core(s, x, n), q)
<1>1. Mem(s)  BY KernelMem
<1>2. CASE s.num[x] # 0
  <2> DEFINE u == [s EXCEPT !.num[x] = @ - 1]
  <2>1. Pend_Core(s, x, n) = Leave(u)  BY <1>2 DEF Pend_Core
  <2>2. /\ u.state = s.state /\ u.susp = s.susp /\ u.full = s.full
        /\ u.snd = s.snd /\ u.wait = s.wait /\ u.retval = s.retval
        /\ u.cur = s.cur /\ u.lock = s.lock /\ Mem(u)
        /\ u.num = [s.num EXCEPT ![x] = @ - 1]
    BY <1>1 DEF Mem, Boot
  <2> HIDE DEF u
  <2>3. \A y \in Sem : ToSet(u.wait[y]) # {} => u.num[y] = 0
    <3>1. DOMAIN s.num = Sem  BY DEF Kernel
    <3>2. \A y \in Sem : ToSet(u.wait[y]) # {} => y # x /\ s.num[y] = 0
      BY <1>2, <2>2 DEF Ipc
    <3>3. \A y \in Sem : y # x => u.num[y] = s.num[y]  BY <2>2, <3>1
    <3>. QED  BY <3>2, <3>3
  <2>5. \A y \in Sem : u.num[y] = 0 \/ u.num[y] < SemMax
    <3>4. DOMAIN s.num = Sem  BY DEF Kernel
    <3>1. \A y \in Sem : y # x => u.num[y] = s.num[y]  BY <2>2, <3>4
    <3>5. u.num[x] = s.num[x] - 1  BY <2>2, <3>4
    <3>2. s.num[x] \in Nat /\ SemMax \in Nat
      BY CoreAssumption DEF Kernel, Word
    <3>3. s.num[x] - 1 < SemMax  BY <1>2, <3>2 DEF Ipc
    <3>. QED  BY <3>1, <3>3, <3>5 DEF Ipc
  <2>4. Ipc(u, q)  BY <2>2, <2>3, <2>5 DEF Ipc
  <2>. QED  BY <2>1, <2>2, <2>4, LeaveIpc
<1>3. CASE s.num[x] = 0 /\ n = 0
  <2>1. Pend_Core(s, x, n) = Leave(s)  BY <1>3 DEF Pend_Core
  <2>. QED  BY <1>1, <2>1, LeaveIpc
<1>4. CASE s.num[x] = 0 /\ n # 0
  <2> DEFINE v == IF n < SliceMax THEN "SEMDLY" ELSE "SEMBLK"
             b == Block(s, n, "SEMBLK", "SEMDLY")
             u == [b EXCEPT !.wait[x] = Append(@, s.cur)]
  <2>1. Pend_Core(s, x, n) = Leave(u)  BY <1>4 DEF Pend_Core
  <2>2. /\ b.state = [s.state EXCEPT ![s.cur] = v]
        /\ b.retval = [s.retval EXCEPT ![s.cur] = "ok"]
        /\ b.snd = s.snd /\ b.wait = s.wait /\ SameRest(b, s)
    BY BlockFields
  <2>3. Mem(b)  BY BlockMem
  <2>4. v \in Blocked /\ v \notin Receiving
    BY DEF Blocked, Receiving, Pending
  <2> HIDE DEF b, v
  <2>5. /\ u.state = b.state /\ u.retval = b.retval
        /\ u.susp = s.susp /\ u.full = s.full /\ u.num = s.num
        /\ u.cur = s.cur /\ u.lock = s.lock /\ u.snd = s.snd /\ Mem(u)
        /\ u.wait = [s.wait EXCEPT ![x] = Append(@, s.cur)]
    BY <2>2, <2>3 DEF SameRest, Mem, Boot
  <2> HIDE DEF u
  <2>6. \A y \in Sem : y # x => u.wait[y] = s.wait[y]
    BY <2>5 DEF Kernel
  <2>7. /\ \A r \in Thd : ToSet(u.snd[r]) # {} => r \in s.full
        /\ \A y \in Sem : ToSet(u.wait[y]) # {} => s.num[y] = 0
    BY <1>4, <2>5, <2>6 DEF Ipc
  <2>8. /\ u.state = [s.state EXCEPT ![s.cur] = v]
        /\ u.retval = [s.retval EXCEPT ![s.cur] = "ok"]
        /\ u.susp = s.susp /\ u.full = s.full /\ u.num = s.num
        /\ u.cur = s.cur /\ u.lock = s.lock
    BY <2>2, <2>5
  <2>9. Ipc(u, q)  BY <2>4, <2>7, <2>8, BlockAnyIpc
  <2>. QED  BY <2>1, <2>5, <2>9, LeaveIpc
<1>. QED  BY <1>2, <1>3, <1>4

\* Every semaphore call, also from an interrupt, keeps the agreement.
LEMMA SemIpc == IpcInv /\ SemNext => Ipc(k', rcv')
<1> SUFFICES ASSUME IpcInv, SemNext  PROVE Ipc(k', rcv')
  OBVIOUS
<1>1. k \in Kernel /\ Ipc(k, rcv) /\ Safe(k)
  BY SafeInner DEF IpcInv, IInv
<1>2. ASSUME NEW x \in Sem, NEW n \in Posts,
             Sem_Post(x, n) \/ Sem_Post_ISR(x, n)
      PROVE  Ipc(k', rcv')
  <2>1. k' = Leave(Serve(k, x, n)) /\ rcv' = rcv /\ n \in Word /\ MayPost(x, n)
    BY <1>2, WordLemma DEF Sem_Post, Sem_Post_ISR
  <2>2. (k.num[x] + n) % W < SemMax  BY <2>1 DEF MayPost
  <2>3. KInv(k)  BY <1>1, SafeInner
  <2>4. Ipc(Serve(k, x, n), rcv) /\ Mem(Serve(k, x, n))
    BY <1>1, <2>1, <2>2, <2>3, ServeIpc
  <2>. QED  BY <2>1, <2>4, LeaveIpc
<1>3. ASSUME NEW x \in Sem, Sem_Bcst(x) \/ Sem_Bcst_ISR(x)
      PROVE  Ipc(k', rcv')
  <2>1. k' = Leave(WakeAll(k, k.wait[x])) /\ rcv' = rcv
    BY <1>3 DEF Sem_Bcst, Sem_Bcst_ISR
  <2>. QED  BY <2>1, BcstIpc
<1>4. ASSUME NEW x \in Sem, NEW n, Sem_Pend(x, n)  PROVE Ipc(k', rcv')
  <2>1. k' = Pend_Core(k, x, n) /\ rcv' = rcv /\ User
    BY <1>4 DEF Sem_Pend
  <2>2. k.state[k.cur] = "RUNNING" /\ k.cur \notin rcv
    BY <1>1, <2>1, UserRuns DEF User
  <2>. QED  BY <1>1, <2>1, <2>2, PendCoreIpc
<1>5. ASSUME NEW x \in Sem, NEW n, Sem_Pend_Unlock(x, n)
      PROVE  Ipc(k', rcv')
  <2> DEFINE s == [k EXCEPT !.lock = k.lock - 1]
  <2>1. /\ User /\ k.lock > 0 /\ rcv' = rcv
        /\ k' = Pend_Core(s, x, n) \/ k' = Leave(s)
    BY <1>5 DEF Sem_Pend_Unlock
  <2>2. k.state[k.cur] = "RUNNING" /\ k.cur \notin rcv
    BY <1>1, <2>1, UserRuns DEF User
  <2>3. k.lock - 1 \in 0..LockMax
    BY <1>1, <2>1, CoreAssumption DEF Kernel
  <2>4. s \in Kernel  BY <1>1, <2>3 DEF Kernel
  <2>5. /\ s.state = k.state /\ s.susp = k.susp /\ s.full = k.full
        /\ s.snd = k.snd /\ s.wait = k.wait /\ s.num = k.num
        /\ s.retval = k.retval /\ s.cur = k.cur
    BY <1>1 DEF Kernel
  <2> HIDE DEF s
  <2>6. Ipc(s, rcv)  BY <1>1, <2>2, <2>5, SchedIpc
  <2>7. Ipc(Pend_Core(s, x, n), rcv)
    BY <2>2, <2>4, <2>5, <2>6, PendCoreIpc
  <2>8. Ipc(Leave(s), rcv)  BY <2>4, <2>6, KernelMem, LeaveIpc
  <2>. QED  BY <2>1, <2>7, <2>8
<1>6. ASSUME NEW t \in Thd, Sem_Abort(t)  PROVE Ipc(k', rcv')
  <2>1. k.state[t] \in Blocked  BY <1>6 DEF Sem_Abort, Blocked
  <2>2. k' = Leave(SetRetval(Wake(k, t), {t}, "err")) /\ rcv' = rcv
    BY <1>6 DEF Sem_Abort
  <2>. QED  BY <2>1, <2>2, AbortIpc
<1>. QED  BY <1>2, <1>3, <1>4, <1>5, <1>6, SemCrtIpc, SemDelIpc DEF SemNext

----------------------------------------------------------------------------
(* The theorems.                                                           *)

\* Nobody waits for anything when the kernel starts.
LEMMA InitIpc == Init => Ipc(k, rcv)
<1> SUFFICES ASSUME Init  PROVE Ipc(Boot, {})
  BY DEF Init
<1>1. ToSet(<<>>) = {}  BY DEF ToSet
<1>2. /\ \A t \in Thd : Boot.state[t] \in {"RUNNING", "FREE"}
      /\ \A t \in Thd : Boot.snd[t] = <<>>
      /\ \A x \in Sem : Boot.wait[x] = <<>>
      /\ \A x \in Sem : Boot.num[x] = 0
      /\ Boot.susp = {} /\ Boot.full = {}
  BY DEF Boot
<1>. QED  BY <1>1, <1>2, StateFacts DEF Ipc

\* Every reachable state satisfies the inductive invariant.
THEOREM IpcInvariance == Spec => []IpcInv
<1>1. Init => IpcInv  BY InitSafe, InitIpc DEF IpcInv
<1>2. IpcInv /\ [Next]_vars => IpcInv'
  <2>1. IpcInv /\ [Next]_vars => IInv'
    <3>1. IInv /\ UNCHANGED vars => IInv'  BY DEF IInv, vars
    <3>. QED  BY <3>1, CoreSafe, ThreadSafe, MailSafe, SemSafe
              DEF Next, IpcInv
  <2>2. IpcInv /\ [Next]_vars => Ipc(k', rcv')
    <3>1. IpcInv /\ UNCHANGED vars => Ipc(k', rcv')  BY DEF IpcInv, vars
    <3>. QED  BY <3>1, CoreIpc, ThreadIpc, MailIpc, SemIpc DEF Next
  <2>. QED  BY <2>1, <2>2 DEF IpcInv
<1>. QED  BY <1>1, <1>2, PTL DEF Spec

\* The assertion of RMP_Thd_Rcv at line 2250 never fails: nobody waits to
\* send to a mailbox that is empty, or to a thread that is gone.
THEOREM SendersCorrect == Spec => []SendersNeedFull
<1>1. IpcInv => SendersNeedFull
  <2> SUFFICES ASSUME IpcInv, NEW r \in Thd, k.snd[r] # <<>>
               PROVE  r \in k.full /\ k.state[r] # "FREE"
    BY DEF SendersNeedFull
  <2>1. k \in Kernel /\ Owners(k) /\ Ipc(k, rcv)
    BY SafeInner DEF IpcInv, IInv, KInv
  <2>2. k.snd[r] \in Seq(Thd)  BY <2>1 DEF Kernel
  <2>3. ToSet(k.snd[r]) # {}  BY <2>2, EmptySet
  <2>. QED  BY <2>1, <2>3 DEF Ipc, Owners
<1>. QED  BY <1>1, IpcInvariance, PTL

\* Nobody waits for a semaphore that is there for the taking, or deleted.
THEOREM CountCorrect == Spec => []NoIdleCount
<1>1. IpcInv => NoIdleCount
  <2> SUFFICES ASSUME IpcInv, NEW x \in Sem, k.wait[x] # <<>>
               PROVE  x \in k.used /\ k.num[x] = 0
    BY DEF NoIdleCount
  <2>1. k \in Kernel /\ Owners(k) /\ Ipc(k, rcv)
    BY SafeInner DEF IpcInv, IInv, KInv
  <2>2. k.wait[x] \in Seq(Thd)  BY <2>1 DEF Kernel
  <2>3. ToSet(k.wait[x]) # {}  BY <2>2, EmptySet
  <2>. QED  BY <2>1, <2>3 DEF Ipc, Owners
<1>. QED  BY <1>1, IpcInvariance, PTL

\* Only a thread in RMP_Thd_Rcv waits for mail, and none waits beside mail
\* that is there.
THEOREM RcvCorrect == Spec => []RcvConsistent
<1>1. IpcInv => RcvConsistent
  <2>1. IpcInv => Ipc(k, rcv) /\ rcv \subseteq Thd  BY DEF IpcInv, IInv
  <2>. QED  BY <2>1 DEF Ipc, RcvConsistent, Receiving
<1>. QED  BY <1>1, IpcInvariance, PTL

----------------------------------------------------------------------------
(* The order in which semaphores are granted, and what a post gives away:  *)
(* properties of steps.  A call other than a post or a broadcast grants    *)
(* nothing to a thread that waits; a post or a broadcast serves a prefix   *)
(* of one list.                                                            *)

\* u is s after a step that grants no semaphore: a thread that was waiting
\* for one does not run, or runs because its call failed.
Denies(u, s) ==
    \A t \in Thd : s.state[t] \in Pending =>
        u.state[t] # "RUNNING" \/ u.retval[t] = "err"

\* What Denies looks at is not changed by Leave.
LEMMA LeaveRest ==
  ASSUME NEW u, Mem(u)
  PROVE  LET v == Leave(u)
         IN  /\ v.state = u.state /\ v.retval = u.retval
             /\ v.wait = u.wait /\ v.num = u.num
BY LeaveSame DEF SameIpc

\* Waking threads that wait for something else, or whose call failed.
LEMMA DeniesEased ==
  ASSUME NEW s, NEW u, NEW T, Eased(u, s, T),
         \A t \in T : s.state[t] \in Pending => u.retval[t] = "err"
  PROVE  Denies(u, s)
BY StateFacts DEF Denies, Eased

----------------------------------------------------------------------------
(* The steps that grant nothing.                                           *)

\* The scheduler grants none, and a timeout is a failure.
LEMMA CoreDenies == IpcInv /\ CoreNext => Denies(k', k)
<1> SUFFICES ASSUME IpcInv, CoreNext  PROVE Denies(k', k)
  OBVIOUS
<1>1. KInv(k) /\ k \in Kernel
  BY SafeInner DEF IpcInv, IInv
<1>2. ASSUME k'.state = k.state  PROVE Denies(k', k)
  BY <1>2, StateFacts DEF Denies
<1>3. CASE Sched_Lock
  BY <1>1, <1>2, <1>3 DEF Sched_Lock, Kernel
<1>4. CASE Sched_Unlock
  <2> DEFINE u == [k EXCEPT !.lock = @ - 1]
  <2>1. k' = Leave(u)  BY <1>4 DEF Sched_Unlock
  <2>2. u.state = k.state /\ Mem(u)  BY <1>1 DEF Kernel, Mem, Boot
  <2> HIDE DEF u
  <2>. QED  BY <1>2, <2>1, <2>2, LeaveRest
<1>5. CASE Yield
  BY <1>1, <1>2, <1>5 DEF Yield, Kernel
<1>6. CASE Switch
  <2>1. k' = Run_High(k)  BY <1>6 DEF Switch
  <2>2. k'.state = k.state  BY <1>1, <2>1 DEF Run_High, Kernel
  <2>. QED  BY <1>2, <2>2
<1>7. ASSUME NEW n \in Ticks, Tick(n)  PROVE Denies(k', k)
  <2> DEFINE u == Tim_Handler(k, n)
  <2>1. k' = Leave(u) /\ n \in Word  BY <1>7, WordLemma DEF Tick
  <2>2. u \in Kernel /\ \E T \in SUBSET Thd :
           Eased(u, k, T) /\ \A t \in T : k.state[t] # "DELAYED" => u.retval[t] = "err"
    BY <1>1, <2>1, TimHandlerEased
  <2> HIDE DEF u
  <2>3. PICK T \in SUBSET Thd :
           Eased(u, k, T) /\ \A t \in T : k.state[t] # "DELAYED" => u.retval[t] = "err"
    BY <2>2
  <2>4. "DELAYED" \notin Pending  BY DEF Pending
  <2>5. Denies(u, k)  BY <2>3, <2>4, DeniesEased
  <2>. QED  BY <2>1, <2>2, <2>5, KernelMem, LeaveRest DEF Denies
<1>8. CASE Halt
  BY <1>2, <1>8 DEF Halt, vars
<1>. QED  BY <1>3, <1>4, <1>5, <1>6, <1>7, <1>8 DEF CoreNext

\* Waking t and telling it that its call failed.
LEMMA AbortDenies ==
  ASSUME IpcInv, NEW t \in Thd, k.state[t] \in Blocked,
         k' = Leave(SetRetval(Wake(k, t), {t}, "err"))
  PROVE  Denies(k', k)
<1> DEFINE w == Wake(k, t)
           u == SetRetval(w, {t}, "err")
<1>1. KInv(k)  BY SafeInner DEF IpcInv, IInv
<1>2. KInv(w) /\ Woken(w, k, {t})  BY <1>1, WakeOne
<1> HIDE DEF w
<1>3. w \in Kernel  BY <1>2 DEF KInv, Good
<1>4. Eased(u, k, {t}) /\ u \in Kernel
  BY <1>2, <1>3, WokenRetval, RetvalFields
<1>5. u.retval[t] = "err"  BY <1>3, SetRetvalFields
<1> HIDE DEF u
<1>6. Denies(u, k)  BY <1>4, <1>5, DeniesEased
<1>. QED  BY <1>4, <1>6, KernelMem, LeaveRest DEF u, w, Denies

\* Creating, changing, suspending, resuming.
LEMMA SetDenies ==
  ASSUME IpcInv, NEW t \in Thd, NEW p, NEW n,
         \/ Thd_Crt(t, p, n) \/ Thd_Set(t, p, n)
         \/ Thd_Suspend(t) \/ Thd_Resume(t)
  PROVE  Denies(k', k)
<1> DEFINE Like(u) == u.state = k.state /\ Mem(u)
<1>1. Mem(k) /\ k.state \in [Thd -> ThdState]
  <2>1. k \in Kernel  BY SafeInner DEF IpcInv, IInv
  <2>2. k.state \in [Thd -> ThdState]  BY <2>1 DEF Kernel
  <2>. QED  BY <2>1, <2>2, KernelMem
<1>2. Like(k)  BY <1>1
<1>3. ASSUME NEW u, Like(u), k' = Leave(u)  PROVE Denies(k', k)
  BY <1>3, LeaveRest, StateFacts DEF Denies
<1>4. ASSUME NEW u, Like(u)  PROVE Like(Run_Ins(u, t)) /\ Like(Run_Del(u, t))
  BY <1>4, RunSame DEF SameIpc
<1>5. ASSUME NEW u, Like(u), NEW x  PROVE Like([u EXCEPT !.prio[t] = x])
  BY <1>5 DEF Mem, Boot
<1>6. ASSUME NEW u, Like(u), NEW x  PROVE Like([u EXCEPT !.slice[t] = x])
  BY <1>6 DEF Mem, Boot
<1>7. ASSUME NEW u, Like(u), NEW x  PROVE Like([u EXCEPT !.susp = x])
  BY <1>7 DEF Mem, Boot
<1>8. CASE Thd_Crt(t, p, n)
  <2> DEFINE new == [k EXCEPT !.prio[t] = p, !.slice[t] = n, !.left[t] = n,
                              !.snd[t] = <<>>, !.state[t] = "RUNNING",
                              !.susp = @ \ {t}, !.full = @ \ {t}]
             u == Run_Ins(new, t)
  <2>1. k.state[t] = "FREE" /\ k' = Leave(u)  BY <1>8 DEF Thd_Crt
  <2>2. new.state = [k.state EXCEPT ![t] = "RUNNING"] /\ Mem(new)
    BY <1>1 DEF Mem, Boot
  <2> HIDE DEF new
  <2>3. u.state = new.state /\ Mem(u)  BY <2>2, RunSame DEF SameIpc
  <2> HIDE DEF u
  <2>4. k'.state = [k.state EXCEPT ![t] = "RUNNING"]
    BY <2>1, <2>2, <2>3, LeaveRest
  <2>5. \A x \in Thd : x # t => k'.state[x] = k.state[x]  BY <1>1, <2>4
  <2>. QED  BY <2>1, <2>5, StateFacts DEF Denies
<1>9. CASE Thd_Set(t, p, n)
  <2> DEFINE moved == IF k.state[t] = "RUNNING"
                      THEN Run_Ins([Run_Del(k, t) EXCEPT !.prio[t] = p], t)
                      ELSE [k EXCEPT !.prio[t] = p]
             set == IF p < PrioNum /\ p # k.prio[t] THEN moved ELSE k
             x == IF n < SliceMax THEN n ELSE set.slice[t]
             u == [set EXCEPT !.slice[t] = x]
  <2>1. k' = Leave(u)  BY <1>9 DEF Thd_Set
  <2> HIDE DEF Like
  <2>2. Like(moved)  BY <1>2, <1>4, <1>5
  <2> HIDE DEF moved
  <2>3. Like(set)  BY <1>2, <2>2
  <2> HIDE DEF set, x
  <2>4. Like(u)  BY <1>6, <2>3
  <2>. QED  BY <1>3, <2>1, <2>4
<1>10. CASE Thd_Suspend(t)
  <2> DEFINE off == IF k.state[t] = "RUNNING" THEN Run_Del(k, t) ELSE k
             u == [off EXCEPT !.susp = @ \cup {t}]
  <2>1. k' = Leave(u)  BY <1>10 DEF Thd_Suspend
  <2>2. Like(off)  BY <1>2, <1>4
  <2> HIDE DEF off
  <2>3. Like(u)  BY <2>2 DEF Mem, Boot
  <2> HIDE DEF u, Like
  <2>. QED  BY <1>3, <2>1, <2>3
<1>11. CASE Thd_Resume(t)
  <2> DEFINE on == [k EXCEPT !.susp = @ \ {t}]
             u == IF k.state[t] = "RUNNING" THEN Run_Ins(on, t) ELSE on
  <2>1. k' = Leave(u)  BY <1>11 DEF Thd_Resume
  <2>2. Like(on)  BY <1>2, <1>7
  <2> HIDE DEF on
  <2>3. Like(u)  BY <1>4, <2>2
  <2> HIDE DEF u, Like
  <2>. QED  BY <1>3, <2>1, <2>3
<1>. QED  BY <1>8, <1>9, <1>10, <1>11

\* A deletion wakes senders, and frees one thread.
LEMMA DelDenies ==
  ASSUME IpcInv, NEW t \in Thd, Thd_Del(t)
  PROVE  Denies(k', k)
<1> DEFINE T == ToSet(k.snd[t])
           w == WakeAll(k, k.snd[t])
           s == SetRetval(w, T, "err")
           off == IF s.state[t] = "RUNNING" THEN Run_Del(s, t)
                                            ELSE Unlink(s, t)
           gone == [off EXCEPT !.retval[t] = "err", !.state[t] = "FREE",
                               !.susp = @ \ {t}, !.full = @ \ {t}]
<1>1. k \in Kernel /\ KInv(k) /\ Inner(k)
  BY SafeInner DEF IpcInv, IInv
<1>2. k' = [gone EXCEPT !.panic = 1] \/ k' = Leave(gone)
  BY DEF Thd_Del
<1>3. /\ k.snd[t] \in Seq(Thd) /\ IsInjective(k.snd[t])
      /\ \A x \in T : k.state[x] \in Sending
  <2>1. DOMAIN k.snd = Thd /\ k.snd[t] \in Seq(Thd)  BY <1>1 DEF Kernel
  <2>2. Apart(k.snd, InState(k, Sending))
    BY <1>1, ListedDef DEF KInv, Good
  <2>3. IsInjective(k.snd[t])  BY <2>1, <2>2 DEF Apart
  <2>4. \A x \in T : x \in InState(k, Sending)
    BY <2>1, <2>2 DEF Apart
  <2>. QED  BY <2>1, <2>3, <2>4 DEF InState
<1>4. KInv(w) /\ Woken(w, k, T)  BY <1>1, <1>3, WakeEach, StateFacts
<1> HIDE DEF w
<1>5. w \in Kernel /\ Inner(w)  BY <1>1, <1>4, WokenInner DEF KInv, Good
<1>6. KInv(s)  BY <1>5, RetvalInner DEF Inner
<1>7. Eased(s, k, T)  BY <1>4, <1>5, WokenRetval
<1> HIDE DEF s
<1>8. Eased(off, s, {}) /\ Mem(off)  BY <1>6, OffEased
<1> HIDE DEF off, T
<1>9. gone.state = [off.state EXCEPT ![t] = "FREE"] /\ Mem(gone)
  BY <1>8 DEF Mem, Boot
<1> HIDE DEF gone
<1>10. k'.state = gone.state
  <2>1. [gone EXCEPT !.panic = 1].state = gone.state
    BY <1>9 DEF Mem, Boot
  <2>. QED  BY <1>2, <1>9, <2>1, LeaveRest
<1>11. \A x \in Thd : k.state[x] \in Pending =>
          k'.state[x] = "FREE" \/ k'.state[x] = k.state[x]
  <2>1. \A x \in Thd : off.state[x] = IF x \in T THEN "RUNNING" ELSE k.state[x]
    BY <1>7, <1>8 DEF Eased
  <2>2. DOMAIN off.state = Thd  BY <1>8 DEF Eased
  <2>. QED  BY <1>3, <1>9, <1>10, <2>1, <2>2, StateFacts
<1>. QED  BY <1>11, StateFacts DEF Denies

\* Blocking the current thread.
LEMMA BlockDenies ==
  ASSUME NEW s, NEW u, s.state \in [Thd -> ThdState], NEW v \in Blocked,
         u.state = [s.state EXCEPT ![s.cur] = v]
  PROVE  Denies(u, s)
<1>1. \A x \in Thd : u.state[x] = v \/ u.state[x] = s.state[x]  OBVIOUS
<1>. QED  BY <1>1, StateFacts DEF Denies

\* The state of the thread that a call blocks.
LEMMA BlockState ==
  ASSUME NEW s \in Kernel, NEW n, NEW forever, NEW timed
  PROVE  LET u == Block(s, n, forever, timed)
             v == IF n < SliceMax THEN timed ELSE forever
         IN  u.state = [s.state EXCEPT ![s.cur] = v] /\ Mem(u)
<1> DEFINE u == Block(s, n, forever, timed)
           v == IF n < SliceMax THEN timed ELSE forever
<1>1. /\ u.state = [s.state EXCEPT ![s.cur] = v]
      /\ u.retval = [s.retval EXCEPT ![s.cur] = "ok"]
      /\ u.snd = s.snd /\ u.wait = s.wait /\ SameRest(u, s)
  BY BlockFields
<1>2. Mem(u)  BY BlockMem
<1>. QED  BY <1>1, <1>2

\* The calls on threads grant no semaphore.
LEMMA ThreadDenies == IpcInv /\ ThreadNext => Denies(k', k)
<1> SUFFICES ASSUME IpcInv, ThreadNext  PROVE Denies(k', k)
  OBVIOUS
<1>1. k \in Kernel  BY SafeInner DEF IpcInv, IInv
<1>2. ASSUME NEW t \in Thd, Thd_Cancel(t)  PROVE Denies(k', k)
  <2>1. k.state[t] \in Blocked  BY <1>2 DEF Thd_Cancel, Blocked
  <2>2. k' = Leave(SetRetval(Wake(k, t), {t}, "err"))
    BY <1>2 DEF Thd_Cancel
  <2>. QED  BY <2>1, <2>2, AbortDenies
<1>3. ASSUME NEW n, Thd_Delay(n)  PROVE Denies(k', k)
  <2> DEFINE u == Block(k, n, "DELAYED", "DELAYED")
  <2>1. k' = Leave(u)  BY <1>3 DEF Thd_Delay
  <2>2. u.state = [k.state EXCEPT ![k.cur] = "DELAYED"] /\ Mem(u)
    BY <1>1, BlockState
  <2> HIDE DEF u
  <2>3. k'.state = [k.state EXCEPT ![k.cur] = "DELAYED"]
    BY <2>1, <2>2, LeaveRest
  <2>4. "DELAYED" \in Blocked /\ k.state \in [Thd -> ThdState]
    BY <1>1 DEF Blocked, Kernel
  <2>. QED  BY <2>3, <2>4, BlockDenies
<1>. QED  BY <1>2, <1>3, SetDenies, DelDenies DEF ThreadNext

\* The mailbox calls grant none either.
LEMMA MailDenies == IpcInv /\ MailNext => Denies(k', k)
<1> SUFFICES ASSUME IpcInv, MailNext  PROVE Denies(k', k)
  OBVIOUS
<1>1. k \in Kernel /\ KInv(k) /\ Ipc(k, rcv) /\ Mem(k)
  BY SafeInner, KernelMem DEF IpcInv, IInv
<1>2. k.state \in [Thd -> ThdState]  BY <1>1 DEF Kernel
\* Waking t, or not, and then leaving the states alone.
<1>3. ASSUME NEW t \in Thd, k.state[t] \in Blocked \ Pending, NEW u, Mem(u),
             u.state = Wake(k, t).state \/ u.state = k.state,
             k'.state = u.state
      PROVE  Denies(k', k)
  <2>1. Eased(Wake(k, t), k, {t})  BY <1>1, <1>3, WakeIpc
  <2>2. \A x \in Thd \ {t} : k'.state[x] = k.state[x]
    BY <1>3, <2>1 DEF Eased
  <2>. QED  BY <1>3, <2>2, StateFacts DEF Denies
<1>4. ASSUME k'.state = k.state  PROVE Denies(k', k)
  BY <1>4, StateFacts DEF Denies
<1>5. ASSUME NEW t \in Thd, NEW d, Thd_Snd(t, d) \/ Thd_Snd_ISR(t, d)
      PROVE  Denies(k', k)
  <2> DEFINE u == Deliver(k, t, d)
  <2>1. k' = Leave(u) \/ k' = u  BY <1>5 DEF Thd_Snd, Thd_Snd_ISR
  <2>2. k.state[t] # "FREE"  BY <1>5 DEF Thd_Snd, Thd_Snd_ISR
  <2>3. Mem(u)  BY <1>1, <2>2, DeliverIpc
  <2>4. u.state = IF k.state[t] \in {"RCVBLK", "RCVDLY"} THEN Wake(k, t).state
                                                        ELSE k.state
    <3>1. k.state[t] \in {"RCVBLK", "RCVDLY"} => k.state[t] \in Blocked
      BY DEF Blocked
    <3>2. k.state[t] \in {"RCVBLK", "RCVDLY"} => Mem(Wake(k, t))
      BY <1>1, <3>1, WakeIpc
    <3>. QED  BY <1>1, <3>2 DEF Deliver, Mem, Boot
  <2> HIDE DEF u
  <2>5. k'.state = u.state  BY <2>1, <2>3, LeaveRest
  <2>6. k.state[t] \in {"RCVBLK", "RCVDLY"} => k.state[t] \in Blocked \ Pending
    BY DEF Blocked, Pending
  <2>. QED  BY <1>3, <1>4, <2>3, <2>4, <2>5, <2>6
<1>6. ASSUME NEW c \in Thd, k' = Leave(Thd_Unblock(k, c))
      PROVE  Denies(k', k)
  <2> DEFINE u == Thd_Unblock(k, c)
             t == Head(k.snd[c])
  <2>1. Mem(u)  BY <1>1, UnblockIpc
  <2>2. CASE k.snd[c] = <<>>
    <3>1. u.state = k.state  BY <1>1, <2>2 DEF Thd_Unblock, Kernel
    <3> HIDE DEF u
    <3>. QED  BY <1>4, <1>6, <2>1, <3>1, LeaveRest DEF u
  <2>3. CASE k.snd[c] # <<>>
    <3>1. t \in Thd /\ k.state[t] \in Sending
      <4>1. k.snd[c] \in Seq(Thd)  BY <1>1 DEF Kernel
      <4>2. 1 \in 1..Len(k.snd[c]) /\ t = k.snd[c][1]  BY <2>3, <4>1
      <4>3. t \in ToSet(k.snd[c]) /\ t \in Thd  BY <4>1, <4>2, ToSetLemma
      <4>4. Apart(k.snd, InState(k, Sending)) /\ DOMAIN k.snd = Thd
        BY <1>1, ListedDef DEF KInv, Good, Kernel
      <4>5. t \in InState(k, Sending)  BY <4>3, <4>4 DEF Apart
      <4>. QED  BY <4>3, <4>5 DEF InState
    <3>2. k.state[t] \in Blocked \ Pending  BY <3>1, StateFacts
    <3>3. Mem(Wake(k, t))  BY <1>1, <3>1, <3>2, WakeIpc
    <3>4. u.state = Wake(k, t).state
      BY <2>3, <3>3 DEF Thd_Unblock, Mem, Boot
    <3> HIDE DEF u, t
    <3>5. k'.state = u.state  BY <1>6, <2>1, LeaveRest DEF u
    <3>. QED  BY <1>3, <2>1, <3>1, <3>2, <3>4, <3>5
  <2>. QED  BY <2>2, <2>3
<1>7. ASSUME k' = [k EXCEPT !.panic = 1] \/ k' = k  PROVE Denies(k', k)
  <2>1. [k EXCEPT !.panic = 1].state = k.state  BY <1>1 DEF Kernel
  <2>. QED  BY <1>4, <1>7, <2>1
<1>8. ASSUME NEW t \in Thd, NEW d, NEW n, Thd_Snd_Block(t, d, n)
      PROVE  Denies(k', k)
  <2> DEFINE v == IF n < SliceMax THEN "SNDDLY" ELSE "SNDBLK"
             s == Block(k, n, "SNDBLK", "SNDDLY")
             u == [s EXCEPT !.snd[t] = Append(@, k.cur), !.mailbox[k.cur] = d]
  <2>1. k' = Leave(u)  BY <1>8 DEF Thd_Snd_Block
  <2>2. s.state = [k.state EXCEPT ![k.cur] = v] /\ Mem(s)
    BY <1>1, BlockState
  <2>3. v \in Blocked  BY DEF Blocked, Sending
  <2> HIDE DEF s, v
  <2>4. u.state = s.state /\ Mem(u)  BY <2>2 DEF Mem, Boot
  <2> HIDE DEF u
  <2>5. k'.state = [k.state EXCEPT ![k.cur] = v]
    BY <2>1, <2>2, <2>4, LeaveRest
  <2>. QED  BY <1>2, <2>3, <2>5, BlockDenies
<1>9. ASSUME NEW n, Thd_Rcv_Block(n)  PROVE Denies(k', k)
  <2> DEFINE v == IF n < SliceMax THEN "RCVDLY" ELSE "RCVBLK"
             u == Block(k, n, "RCVBLK", "RCVDLY")
  <2>1. k' = [k EXCEPT !.panic = 1] \/ k' = Leave(u)
    BY <1>9 DEF Thd_Rcv_Block
  <2>2. u.state = [k.state EXCEPT ![k.cur] = v] /\ Mem(u)
    BY <1>1, BlockState
  <2>3. v \in Blocked  BY DEF Blocked
  <2> HIDE DEF u, v
  <2>4. k' = Leave(u) => k'.state = [k.state EXCEPT ![k.cur] = v]
    BY <2>2, LeaveRest
  <2>. QED  BY <1>2, <1>7, <2>1, <2>3, <2>4, BlockDenies
<1>10. ASSUME NEW c \in Thd, Thd_Rcv(c) \/ Thd_Rcv_Done(c)
       PROVE  Denies(k', k)
  <2>1. \/ k' = [k EXCEPT !.panic = 1]
        \/ k' = Leave(Thd_Unblock(k, c))
        \/ k' = k
    BY <1>10 DEF Thd_Rcv, Thd_Rcv_Done
  <2>. QED  BY <1>6, <1>7, <2>1
<1>. QED  BY <1>5, <1>8, <1>9, <1>10 DEF MailNext

\* RMP_Sem_Del fails all who wait.
LEMMA SemDelDenies ==
  ASSUME IpcInv, NEW x \in Sem, Sem_Del(x)
  PROVE  Denies(k', k)
<1> DEFINE T == ToSet(k.wait[x])
           w == WakeAll(k, k.wait[x])
           s == SetRetval(w, T, "err")
           u == [s EXCEPT !.used = @ \ {x}]
<1>1. k \in Kernel /\ KInv(k)  BY SafeInner DEF IpcInv, IInv
<1>2. k' = Leave(u)  BY DEF Sem_Del
<1>3. /\ k.wait[x] \in Seq(Thd) /\ IsInjective(k.wait[x])
      /\ \A t \in T : k.state[t] \in Blocked
  BY <1>1, WaitersBlocked
<1>4. \A t \in T : t \in Thd  BY <1>3, ToSetLemma
<1>5. KInv(w) /\ Woken(w, k, T)  BY <1>1, <1>3, WakeEach
<1> HIDE DEF w
<1>6. w \in Kernel  BY <1>5 DEF KInv, Good
<1>7. Eased(s, k, T) /\ s \in Kernel
  BY <1>5, <1>6, WokenRetval, RetvalFields
<1>8. \A t \in T : s.retval[t] = "err"
  <2>1. \A t \in Thd : s.retval[t] = IF t \in T THEN "err" ELSE w.retval[t]
    BY <1>6, SetRetvalFields
  <2>. QED  BY <1>4, <2>1
<1> HIDE DEF s, T
<1>9. Denies(s, k)  BY <1>7, <1>8, DeniesEased
<1>10. u.state = s.state /\ u.retval = s.retval /\ Mem(u)
  BY <1>7 DEF Kernel, Mem, Boot
<1> HIDE DEF u
<1>. QED  BY <1>2, <1>9, <1>10, LeaveRest DEF Denies

\* Taking a semaphore, or waiting for one, grants none to who waits.
LEMMA PendDenies ==
  ASSUME NEW s \in Kernel, NEW x, NEW n
  PROVE  Denies(Pend_Core(s, x, n), s)
<1> DEFINE v == IF n < SliceMax THEN "SEMDLY" ELSE "SEMBLK"
           a == [s EXCEPT !.num[x] = @ - 1]
           b == Block(s, n, "SEMBLK", "SEMDLY")
           u == [b EXCEPT !.wait[x] = Append(@, s.cur)]
<1>1. s.state \in [Thd -> ThdState] /\ v \in Blocked
  BY DEF Kernel, Blocked, Pending
<1>2. \/ Pend_Core(s, x, n) = Leave(a)
      \/ Pend_Core(s, x, n) = Leave(s)
      \/ Pend_Core(s, x, n) = Leave(u)
  BY DEF Pend_Core
<1>3. a.state = s.state /\ Mem(a) /\ Mem(s)
  <2>1. Mem(s)  BY KernelMem
  <2>. QED  BY <2>1 DEF Mem, Boot
<1>4. b.state = [s.state EXCEPT ![s.cur] = v] /\ Mem(b)  BY BlockState
<1> HIDE DEF a, b, v
<1>5. u.state = b.state /\ Mem(u)  BY <1>4 DEF Mem, Boot
<1> HIDE DEF u
<1>6. Denies(Leave(a), s) /\ Denies(Leave(s), s)
  BY <1>3, LeaveRest, StateFacts DEF Denies
<1>7. Leave(u).state = [s.state EXCEPT ![s.cur] = v]
  BY <1>4, <1>5, LeaveRest
<1>8. Denies(Leave(u), s)  BY <1>1, <1>7, BlockDenies
<1>. QED  BY <1>2, <1>6, <1>8

\* The semaphore calls but for posts and broadcasts.
LEMMA SemDenies ==
  ASSUME IpcInv, NEW x \in Sem, NEW n, NEW t \in Thd,
         \/ Sem_Crt(x, n) \/ Sem_Del(x) \/ Sem_Pend(x, n)
         \/ Sem_Pend_Unlock(x, n) \/ Sem_Abort(t)
  PROVE  Denies(k', k)
<1>1. k \in Kernel /\ Mem(k)  BY SafeInner, KernelMem DEF IpcInv, IInv
<1>2. CASE Sem_Crt(x, n)
  <2> DEFINE u == [k EXCEPT !.num[x] = n, !.wait[x] = <<>>,
                            !.used = @ \cup {x}]
  <2>1. k' = Leave(u)  BY <1>2 DEF Sem_Crt
  <2>2. u.state = k.state /\ Mem(u)  BY <1>1 DEF Mem, Boot
  <2> HIDE DEF u
  <2>. QED  BY <2>1, <2>2, LeaveRest, StateFacts DEF Denies
<1>3. CASE Sem_Pend(x, n)
  BY <1>1, <1>3, PendDenies DEF Sem_Pend
<1>4. CASE Sem_Pend_Unlock(x, n)
  <2> DEFINE s == [k EXCEPT !.lock = k.lock - 1]
  <2>1. k.lock > 0 /\ (k' = Pend_Core(s, x, n) \/ k' = Leave(s))
    BY <1>4 DEF Sem_Pend_Unlock
  <2>2. k.lock - 1 \in 0..LockMax
    BY <1>1, <2>1, CoreAssumption DEF Kernel
  <2>3. s \in Kernel  BY <1>1, <2>2 DEF Kernel
  <2>4. s.state = k.state /\ Mem(s)  BY <1>1 DEF Mem, Boot
  <2> HIDE DEF s
  <2>5. Denies(Pend_Core(s, x, n), k)  BY <2>3, <2>4, PendDenies DEF Denies
  <2>6. Denies(Leave(s), k)  BY <2>4, LeaveRest, StateFacts DEF Denies
  <2>. QED  BY <2>1, <2>5, <2>6
<1>5. CASE Sem_Abort(t)
  <2>1. k.state[t] \in Blocked  BY <1>5 DEF Sem_Abort, Blocked
  <2>2. k' = Leave(SetRetval(Wake(k, t), {t}, "err"))
    BY <1>5 DEF Sem_Abort
  <2>. QED  BY <2>1, <2>2, AbortDenies
<1>. QED  BY <1>2, <1>3, <1>4, <1>5, SemDelDenies

----------------------------------------------------------------------------
(* Posts and broadcasts.                                                   *)

\* The first m threads that wait for x.
First(s, x, m) == SubSeq(s.wait[x], 1, m)

\* u is s after these were served.
Serves(u, s, x, m) ==
    /\ u.state = [t \in Thd |-> IF t \in ToSet(First(s, x, m)) THEN "RUNNING"
                                                         ELSE s.state[t]]
    /\ u.retval = s.retval
    /\ Shrunk(u, s, ToSet(First(s, x, m)))

\* A post serves a prefix, and what it does not give away is left.
LEMMA PostServes ==
  ASSUME IpcInv, NEW x \in Sem, NEW n \in Word, k' = Leave(Serve(k, x, n))
  PROVE  \E m \in 0..Len(k.wait[x]) :
            /\ Serves(k', k, x, m)
            /\ m <= (k.num[x] + n) % W
            /\ k'.num[x] = ((k.num[x] + n) % W) - m
<1> DEFINE q == k.wait[x]
           sum == (k.num[x] + n) % W
<1>1. KInv(k) /\ Ipc(k, rcv)  BY SafeInner DEF IpcInv, IInv
<1>2. PICK m \in 0..Len(q) :
         /\ m <= sum
         /\ Serve(k, x, n) = [WakeAll(k, SubSeq(q, 1, m))
                              EXCEPT !.num[x] = sum - m]
  BY <1>1, ServePrefix
<1> DEFINE ts == First(k, x, m)
           w == WakeAll(k, ts)
           u == [w EXCEPT !.num[x] = sum - m]
<1>3. w \in Kernel /\ Woken(w, k, ToSet(ts))  BY <1>1, PrefixIpc DEF First
<1>4. k' = Leave(u)  BY <1>2 DEF First
<1> HIDE DEF w, sum
<1>5. /\ u.state = w.state /\ u.retval = w.retval /\ u.snd = w.snd
      /\ u.wait = w.wait /\ u.num[x] = sum - m /\ Mem(u)
  BY <1>3 DEF Kernel, Mem, Boot
<1>6. Leave(u).snd = u.snd  BY <1>5, LeaveSame DEF SameIpc
<1> HIDE DEF u
<1>7. /\ k'.state = w.state /\ k'.retval = w.retval /\ k'.snd = w.snd
      /\ k'.wait = w.wait /\ k'.num[x] = sum - m
  BY <1>4, <1>5, <1>6, LeaveRest
<1>8. Serves(k', k, x, m)
  BY <1>3, <1>7 DEF Serves, Woken, Shrunk
<1>. QED  BY <1>2, <1>7, <1>8 DEF sum

\* A broadcast serves them all.
LEMMA BcstServes ==
  ASSUME IpcInv, NEW x \in Sem, k' = Leave(WakeAll(k, k.wait[x]))
  PROVE  \E m \in 0..Len(k.wait[x]) : Serves(k', k, x, m)
<1> DEFINE m == Len(k.wait[x])
           ts == First(k, x, m)
           w == WakeAll(k, ts)
<1>1. k \in Kernel /\ KInv(k) /\ Ipc(k, rcv)
  BY SafeInner DEF IpcInv, IInv
<1>2. k.wait[x] \in Seq(Thd)  BY <1>1 DEF Kernel
<1>3. ts = k.wait[x] /\ m \in 0..m  BY <1>2, WholePrefix DEF First
<1>4. Mem(w) /\ Woken(w, k, ToSet(ts))  BY <1>1, <1>3, PrefixIpc DEF First
<1>5. k' = Leave(w)  BY <1>3
<1> HIDE DEF w
<1>6. k'.state = w.state /\ k'.retval = w.retval /\ k'.wait = w.wait
      /\ k'.snd = w.snd
  <2>1. Leave(w).snd = w.snd  BY <1>4, LeaveSame DEF SameIpc
  <2>. QED  BY <1>4, <1>5, <2>1, LeaveRest
<1>7. Serves(k', k, x, m)  BY <1>4, <1>6 DEF Serves, Woken, Shrunk
<1>. QED  BY <1>3, <1>7

\* The threads that are served are the first m of the list, all different.
LEMMA FirstFacts ==
  ASSUME NEW s, KInv(s), NEW x \in Sem, NEW m \in 0..Len(s.wait[x])
  PROVE  LET q  == s.wait[x]
             ts == First(s, x, m)
         IN  /\ q \in Seq(Thd) /\ IsInjective(q)
             /\ ts \in Seq(Thd) /\ Len(ts) = m /\ IsInjective(ts)
             /\ \A i \in 1..m : ts[i] = q[i]
             /\ ToSet(ts) \subseteq ToSet(q)
             /\ \A z \in ToSet(q) : s.state[z] \in Pending
<1> DEFINE q == s.wait[x]
           ts == First(s, x, m)
<1>1. q \in Seq(Thd) /\ IsInjective(q)  BY WaitersBlocked
<1>2. \A z \in ToSet(q) : s.state[z] \in Pending
  <2>1. Apart(s.wait, InState(s, Pending)) /\ DOMAIN s.wait = Sem
    BY ListedDef DEF KInv, Good, Kernel
  <2>. QED  BY <2>1 DEF Apart, InState
<1>3. ts = SubSeq(q, 1, m)  BY DEF First
<1> HIDE DEF q, ts
<1>4. m \in 0..Len(q)  BY DEF q
<1>5. ts \in Seq(Thd) /\ IsInjective(ts) /\ ToSet(ts) \subseteq ToSet(q)
  BY <1>1, <1>3, <1>4, PrefixLemma
<1>6. Len(ts) = m /\ \A i \in 1..m : ts[i] = q[i]
  BY <1>1, <1>3, <1>4
<1>. QED  BY <1>1, <1>2, <1>5, <1>6 DEF q, ts

\* A thread is on the list of one semaphore only.
LEMMA OneList ==
  ASSUME NEW s, KInv(s), NEW x \in Sem, NEW y \in Sem, NEW t,
         t \in ToSet(s.wait[x]), t \in ToSet(s.wait[y])
  PROVE  x = y
BY ListedDef DEF KInv, Good, Kernel, Apart

\* What a step that serves the first m of x grants.
LEMMA ServesGranted ==
  ASSUME IpcInv, NEW x \in Sem, NEW m \in 0..Len(k.wait[x]),
         Serves(k', k, x, m)
  PROVE  /\ Granted(x) = ToSet(First(k, x, m))
         /\ \A y \in Sem \ {x} : Granted(y) = {}
<1> DEFINE T == ToSet(First(k, x, m))
<1>1. k \in Kernel /\ KInv(k) /\ Ipc(k, rcv)
  BY SafeInner DEF IpcInv, IInv
<1>2. /\ T \subseteq ToSet(k.wait[x]) /\ ToSet(k.wait[x]) \subseteq Thd
      /\ \A z \in ToSet(k.wait[x]) : k.state[z] \in Pending
  BY <1>1, FirstFacts, ToSetLemma
<1>3. /\ \A t \in Thd : k'.state[t] = IF t \in T THEN "RUNNING" ELSE k.state[t]
      /\ k'.retval = k.retval
      /\ \A y \in Sem : ToSet(k'.wait[y]) = ToSet(k.wait[y]) \ T
  BY DEF Serves, Shrunk
<1> HIDE DEF T
<1>4. \A t \in T : t \in Thd /\ k'.state[t] = "RUNNING" /\ k'.retval[t] = "ok"
  <2>1. \A t \in T : t \in Thd /\ k.state[t] \in Blocked
    BY <1>2, StateFacts
  <2>. QED  BY <1>1, <1>3, <2>1 DEF Ipc
<1>5. Granted(x) = T  BY <1>2, <1>3, <1>4 DEF Granted
<1>6. ASSUME NEW y \in Sem \ {x}  PROVE Granted(y) = {}
  <2>1. \A t \in Granted(y) : t \in T /\ t \in ToSet(k.wait[y])
    BY <1>3 DEF Granted
  <2>2. \A t \in Granted(y) : y = x  BY <1>1, <1>2, <2>1, OneList
  <2>. QED  BY <1>6, <2>2
<1>. QED  BY <1>5, <1>6 DEF T

\* A step that denies grants nothing.
LEMMA DeniesGranted ==
  ASSUME IpcInv, Denies(k', k), NEW x \in Sem
  PROVE  Granted(x) = {}
<1>1. KInv(k) /\ k \in Kernel  BY SafeInner DEF IpcInv, IInv
<1>2. k.wait[x] \in Seq(Thd)  BY <1>1 DEF Kernel
<1>3. 0 \in 0..Len(k.wait[x])  BY <1>2
<1>4. \A t \in ToSet(k.wait[x]) : t \in Thd /\ k.state[t] \in Pending
  BY <1>1, <1>2, <1>3, FirstFacts, ToSetLemma
<1>. QED  BY <1>4 DEF Granted, Denies

----------------------------------------------------------------------------
(* The theorems.                                                           *)

\* Every step of the kernel grants nothing, or serves one semaphore.
LEMMA StepGrants ==
  ASSUME IpcInv, [Next]_vars
  PROVE  \/ Denies(k', k)
         \/ \E x \in Sem : \E m \in 0..Len(k.wait[x]) : Serves(k', k, x, m)
<1>1. CASE UNCHANGED vars
  BY <1>1, StateFacts DEF Denies, vars
<1>2. ASSUME NEW x \in Sem, NEW n \in Posts,
             Sem_Post(x, n) \/ Sem_Post_ISR(x, n)
      PROVE  \E m \in 0..Len(k.wait[x]) : Serves(k', k, x, m)
  <2>1. n \in Word /\ k' = Leave(Serve(k, x, n))
    BY <1>2, WordLemma DEF Sem_Post, Sem_Post_ISR
  <2>. QED  BY <2>1, PostServes
<1>3. ASSUME NEW x \in Sem, Sem_Bcst(x) \/ Sem_Bcst_ISR(x)
      PROVE  \E m \in 0..Len(k.wait[x]) : Serves(k', k, x, m)
  <2>1. k' = Leave(WakeAll(k, k.wait[x]))
    BY <1>3 DEF Sem_Bcst, Sem_Bcst_ISR
  <2>. QED  BY <2>1, BcstServes
<1>4. CASE SemNext
  <2>1. ASSUME NEW x \in Sem, NEW n,
               \/ Sem_Crt(x, n) \/ Sem_Del(x) \/ Sem_Pend(x, n)
               \/ Sem_Pend_Unlock(x, n)
        PROVE  Denies(k', k)
    BY <2>1, SemDenies, CoreAssumption
  <2>2. ASSUME NEW t \in Thd, Sem_Abort(t)  PROVE Denies(k', k)
    <3>1. k \in Kernel /\ k.state[t] \in Blocked
          /\ k' = Leave(SetRetval(Wake(k, t), {t}, "err"))
      BY <2>2, SafeInner DEF Sem_Abort, Blocked, IpcInv, IInv
    <3>. QED  BY <3>1, AbortDenies
  <2>. QED  BY <1>2, <1>3, <1>4, <2>1, <2>2 DEF SemNext
<1>. QED  BY <1>1, <1>4, CoreDenies, ThreadDenies, MailDenies DEF Next

\* Semaphores are granted in the order in which the threads began to wait,
\* whatever the post gives away, and however many wait.
THEOREM SemFifoCorrect == Spec => SemFifo
<1> DEFINE Fifo == \A x \in Sem : \A m, n \in DOMAIN k.wait[x] :
                      m < n /\ k.wait[x][n] \in Granted(x) =>
                         k.wait[x][m] \notin ToSet(k'.wait[x])
<1>1. IpcInv /\ [Next]_vars => Fifo
  <2> SUFFICES ASSUME IpcInv, [Next]_vars, NEW x \in Sem,
                      NEW i \in DOMAIN k.wait[x], NEW j \in DOMAIN k.wait[x],
                      i < j, k.wait[x][j] \in Granted(x)
               PROVE  k.wait[x][i] \notin ToSet(k'.wait[x])
    OBVIOUS
  <2>1. KInv(k)  BY SafeInner DEF IpcInv, IInv
  <2>2. PICK y \in Sem : \E m \in 0..Len(k.wait[y]) : Serves(k', k, y, m)
    BY StepGrants, DeniesGranted
  <2>3. PICK m \in 0..Len(k.wait[y]) : Serves(k', k, y, m)
    BY <2>2
  <2>4. x = y  BY <2>3, ServesGranted
  <2> DEFINE q == k.wait[x]
             ts == First(k, x, m)
  <2>5. q[j] \in ToSet(ts)  BY <2>3, <2>4, ServesGranted
  <2>6. /\ q \in Seq(Thd) /\ IsInjective(q) /\ m \in 0..Len(q)
        /\ ts \in Seq(Thd) /\ Len(ts) = m
        /\ \A n \in 1..m : ts[n] = q[n]
    BY <2>1, <2>4, FirstFacts
  <2>7. ToSet(k'.wait[x]) = ToSet(q) \ ToSet(ts)
    BY <2>3, <2>4 DEF Serves, Shrunk
  <2>8. i \in 1..Len(q) /\ j \in 1..Len(q)  BY <2>6
  <2> HIDE DEF q, ts
  <2>9. PICK n \in 1..m : q[n] = q[j]  BY <2>5, <2>6, ToSetLemma
  <2>10. n = j  BY <2>6, <2>8, <2>9 DEF IsInjective
  <2>11. i \in 1..m  BY <2>6, <2>8, <2>9, <2>10
  <2>12. q[i] \in ToSet(ts)  BY <2>6, <2>11, ToSetLemma
  <2>. QED  BY <2>7, <2>12 DEF q
<1>. QED  BY <1>1, IpcInvariance, PTL DEF Spec, SemFifo

\* A prefix of the list, served, is that many threads.
LEMMA CountFirst ==
  ASSUME NEW T, NEW ts \in Seq(T), IsInjective(ts)
  PROVE  Cardinality(ToSet(ts)) = Len(ts)
<1>1. ts \in [1..Len(ts) -> ToSet(ts)]  BY ToSetLemma
<1>2. \A t \in ToSet(ts) : \E i \in 1..Len(ts) : ts[i] = t  BY ToSetLemma
<1>3. ts \in Bijection(1..Len(ts), ToSet(ts))
  BY <1>1, <1>2 DEF Bijection, Injection, Surjection
<1>4. ExistsBijection(1..Len(ts), ToSet(ts))  BY <1>3 DEF ExistsBijection
<1>. QED  BY <1>4, FS_CountingElements

\* The numbers that are posted do not make a count wrap.  Every port keeps
\* RMP_SEM_CNT_MAX far below the range of rmp_ptr_t.
PostsFit == \A n \in Posts : SemMax + n <= W

\* RMP_Sem_Post: what is posted is granted or added to the count, none is
\* lost and none appears, whatever the count was and however many wait.
THEOREM PostCorrect == PostsFit => (Spec => PostConserves)
<1> SUFFICES ASSUME PostsFit  PROVE Spec => PostConserves
  OBVIOUS
<1> DEFINE Conserved == \A x \in Sem, n \in Posts :
              Sem_Post(x, n) \/ Sem_Post_ISR(x, n) =>
                 k'.num[x] + Cardinality(Granted(x)) = k.num[x] + n
<1>1. IpcInv => Conserved
  <2> SUFFICES ASSUME IpcInv, NEW x \in Sem, NEW n \in Posts,
                      Sem_Post(x, n) \/ Sem_Post_ISR(x, n)
               PROVE  k'.num[x] + Cardinality(Granted(x)) = k.num[x] + n
    OBVIOUS
  <2>1. n \in Word /\ k' = Leave(Serve(k, x, n))
    BY WordLemma DEF Sem_Post, Sem_Post_ISR
  <2>2. k \in Kernel /\ KInv(k) /\ Ipc(k, rcv)
    BY SafeInner DEF IpcInv, IInv
  <2>3. PICK m \in 0..Len(k.wait[x]) :
           /\ Serves(k', k, x, m)
           /\ k'.num[x] = ((k.num[x] + n) % W) - m
    BY <2>1, PostServes
  <2>4. (k.num[x] + n) % W = k.num[x] + n
    <3>1. k.num[x] \in Word /\ (k.num[x] = 0 \/ k.num[x] < SemMax)
      BY <2>2 DEF Kernel, Ipc
    <3>2. k.num[x] + n \in 0..(W - 1)
      BY <2>1, <3>1, CoreAssumption DEF Word, PostsFit
    <3>. QED  BY <3>2, CoreAssumption
  <2>5. Cardinality(Granted(x)) = m
    <3>1. Granted(x) = ToSet(First(k, x, m))  BY <2>3, ServesGranted
    <3>2. /\ First(k, x, m) \in Seq(Thd) /\ IsInjective(First(k, x, m))
          /\ Len(First(k, x, m)) = m
      BY <2>2, FirstFacts
    <3>. QED  BY <3>1, <3>2, CountFirst
  <2>6. m \in Int /\ k.num[x] \in Int /\ n \in Int
    BY <2>1, <2>2, CoreAssumption DEF Kernel, Word
  <2>. QED  BY <2>3, <2>4, <2>5, <2>6
<1>. QED  BY <1>1, IpcInvariance, PTL DEF PostConserves
=============================================================================
