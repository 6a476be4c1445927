----------------------------- MODULE RmpKernel -----------------------------
(***************************************************************************)
(* The kernel: scheduler, threads, mailboxes and semaphores together, and  *)
(* what makes it correct.  The parts of the invariant are predicates of    *)
(* the kernel's memory s, so that they can also be stated of the memory    *)
(* between two helpers of one critical section.                            *)
(***************************************************************************)
EXTENDS RmpMail, RmpSem

Next == CoreNext \/ ThreadNext \/ MailNext \/ SemNext
Spec == Init /\ [][Next]_vars

----------------------------------------------------------------------------
Ready(s) == {t \in Thd : s.state[t] = "RUNNING" /\ t \notin s.susp}

\* The run queues hold exactly the threads of R, each once and at its
\* priority, and a level's bit is set exactly when its queue is not empty.
Queued(s, R) ==
    \A p \in Prio :
        /\ IsInjective(s.run[p])
        /\ ToSet(s.run[p]) = {t \in R : s.prio[t] = p}
        /\ p \in s.bitmap <=> s.run[p] # <<>>

\* Unless a switch is pended, the current thread heads the highest queue.
Highest(s, R) ==
    s.pend = 0 => /\ s.cur \in R
                  /\ s.cur = Head(s.run[s.prio[s.cur]])
                  /\ \A p \in s.bitmap : p <= s.prio[s.cur]

\* The lists of the family f are disjoint and hold exactly the threads of T.
Listed(f, T) ==
    /\ \A x \in DOMAIN f : IsInjective(f[x])
    /\ \A x, y \in DOMAIN f : x # y => ToSet(f[x]) \cap ToSet(f[y]) = {}
    /\ UNION {ToSet(f[x]) : x \in DOMAIN f} = T

InState(s, S) == {t \in Thd : s.state[t] \in S}

----------------------------------------------------------------------------
(* Safety.                                                                 *)

\* Type correctness: every field keeps its type, timestamps and counts wrap.
TypeOK == k \in Kernel /\ rcv \in SUBSET Thd /\ got \in {<<>>} \cup Thd \X Mail

\* A run queue holds exactly the ready threads of its priority, once each,
\* and a level's bit is set exactly when its queue is not empty: this is
\* what _RMP_Run_High relies on to find the thread to run.
RunQueuesExact == Queued(k, Ready(k))

\* The delay list holds exactly the threads whose state has a timeout: a
\* thread woken or deleted by someone else leaves no timer behind, and the
\* assertion of _RMP_Tim_Proc (line 972) holds.
DelayExact ==
    IsInjective(k.delay) /\ ToSet(k.delay) = InState(k, Timed)

\* A thread is on a sender list or on a semaphore's list exactly when its
\* state says so, and on one such list only.
WaitersExact ==
    Listed(k.snd, InState(k, Sending)) /\ Listed(k.wait, InState(k, Pending))

\* The initial thread is always ready, so there is always a thread to run
\* (assertion of _RMP_Run_High, line 1042).
IdleReady == Idle \in Ready(k)

\* Unless a context switch is pended, the current thread is the head of the
\* highest nonempty run queue: no kernel path forgets to pend a switch.
HighestRuns == Highest(k, Ready(k))

\* A pended switch is never carried back to unlocked thread code: it has
\* been requested from the hardware (goal 6 of src/Proof/rmp_sched.v).
PendRequested ==
    /\ k.lock = 0 /\ k.pend = 1 => k.soft = 1
    /\ k.soft = 1 => k.lock = 0

\* Code that runs is the code of a thread that exists and is not blocked:
\* the switch away from a deleted or blocked thread is never missed.
CurRuns == k.panic = 0 /\ k.soft = 0 => k.state[k.cur] = "RUNNING"

\* Nobody waits to send to an empty mailbox or to a free thread (assertion
\* of RMP_Thd_Rcv, line 2250).
SendersNeedFull ==
    \A r \in Thd : k.snd[r] # <<>> => r \in k.full /\ k.state[r] # "FREE"

\* Nobody waits on a semaphore that could be taken or that is not in use.
NoIdleCount ==
    \A x \in Sem : k.wait[x] # <<>> => x \in k.used /\ k.num[x] = 0

\* A thread waiting for mail has an empty mailbox, a free thread has no
\* flags, and only a thread in RMP_Thd_Rcv waits for mail.
RcvConsistent ==
    /\ \A t \in Thd : k.state[t] \in {"RCVBLK", "RCVDLY"} =>
           t \notin k.full /\ t \in rcv
    /\ \A t \in Thd : k.state[t] = "FREE" =>
           t \notin k.full /\ t \notin k.susp /\ t \notin rcv
    /\ \A t \in rcv : k.state[t] \in {"RUNNING", "RCVBLK", "RCVDLY"}
    /\ k.cur \in rcv => k.lock = 0

\* What RMP_Thd_Rcv asserts when it runs again (lines 2294 and 2303): the
\* call succeeded exactly if there is mail.
RcvResult ==
    \A t \in rcv \cap Ready(k) : t \in k.full <=> k.retval[t] = "ok"

\* Between interrupts no timer of the delay list has passed, none lies
\* further ahead than any call can ask for, and the list is sorted.
TimersAlive ==
    /\ \A t \in ToSet(k.delay) : Diff(k, t) \in 1..(SliceMax - 1)
    /\ \A m, n \in DOMAIN k.delay :
          m < n => Diff(k, k.delay[m]) <= Diff(k, k.delay[n])

----------------------------------------------------------------------------
(* Steps.                                                                  *)

\* The timer interrupt ends a wait exactly if its time has come: never
\* early, never late, and also across the wrap of the timestamp.
TimeoutExact ==
    [][k'.now # k.now =>
         \A t \in ToSet(k.delay) :
            t \notin ToSet(k'.delay) <=> (k'.now - k.now) % W >= Diff(k, t)]_vars

\* The threads a step grants semaphore x to.
Granted(x) == {t \in ToSet(k.wait[x]) \ ToSet(k'.wait[x]) :
                  k'.state[t] = "RUNNING" /\ k'.retval[t] = "ok"}

\* A semaphore is granted in the order in which the threads began to wait.
SemFifo ==
    [][\A x \in Sem : \A m, n \in DOMAIN k.wait[x] :
          m < n /\ k.wait[x][n] \in Granted(x) =>
             k.wait[x][m] \notin ToSet(k'.wait[x])]_vars

\* RMP_Sem_Post of n: every one of the n is granted or added to the count.
PostConserves ==
    [][\A x \in Sem, n \in Posts :
          Sem_Post(x, n) \/ Sem_Post_ISR(x, n) =>
             k'.num[x] + Cardinality(Granted(x)) = k.num[x] + n]_vars

----------------------------------------------------------------------------
(* Liveness, of a specification with the fairness of the hardware.         *)

\* A wait with a timeout ends.
TimedEnds == \A t \in Thd : k.state[t] \in Timed ~> k.state[t] \notin Timed

Above(t) == t \in Ready(k) /\ \A u \in Ready(k) \ {t} : k.prio[u] < k.prio[t]

\* A thread that is ready and above all others runs, or stops being so.
AboveRuns == \A t \in Thd : Above(t) ~> ~Above(t) \/ k.cur = t

\* The level of thread t has slices of execution time for ever.
LevelServed(t) ==
    []<><<k.soft = 0 /\ k.prio[k.cur] = k.prio[t] /\ \E n \in Ticks : Tick(n)>>_vars

\* A thread that stays ready runs again and again, if its level has the
\* time (goal 3 of src/Proof/rmp_sched.v).
RoundRobin ==
    \A t \in Thd : LevelServed(t) /\ <>[](t \in Ready(k)) => []<>(k.cur = t)

----------------------------------------------------------------------------
(* The mailboxes implement a queue of mails per thread.                    *)

Box == [t \in Thd |->
           (IF t \in k.full THEN <<k.mailbox[t]>> ELSE <<>>) \o
           [n \in DOMAIN k.snd[t] |-> k.mailbox[k.snd[t][n]]]]

Abs == INSTANCE AbsMail WITH box <- Box

\* Every step of the kernel is a step of the queues, or changes no mail.
MailImplements == Abs!Spec
============================================================================
