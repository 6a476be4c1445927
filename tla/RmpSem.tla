------------------------------ MODULE RmpSem ------------------------------
(***************************************************************************)
(* Counting semaphores: RMP_Sem_Crt, _Del, _Post, _Post_ISR, _Bcst,        *)
(* _Bcst_ISR, _Pend, _Pend_Unlock and _Abort.                              *)
(***************************************************************************)
EXTENDS RmpThread

CONSTANT Posts      \* bound: numbers given to Sem_Crt and Sem_Post
ASSUME SemAssumption == Posts \subseteq Word

\* RMP_Sem_Crt
Sem_Crt(x, n) ==
    /\ User
    /\ n < SemMax
    /\ x \notin k.used
    /\ k' = Leave([k EXCEPT !.num[x] = n, !.wait[x] = <<>>,
                            !.used = @ \cup {x}])
    /\ UNCHANGED <<rcv, got>>

\* Mutant: the waiting threads are left alone.
Sem_Del_Quiet(x) ==
    /\ User
    /\ x \in k.used
    /\ k' = [k EXCEPT !.used = @ \ {x}]
    /\ UNCHANGED <<rcv, got>>

\* RMP_Sem_Del: the waiting threads fail.
Sem_Del(x) ==
    /\ User
    /\ x \in k.used
    /\ k' = Leave([SetRetval(WakeAll(k, k.wait[x]), ToSet(k.wait[x]), "err")
                   EXCEPT !.used = @ \ {x}])
    /\ UNCHANGED <<rcv, got>>

\* Mutants: at most one thread is served; the last to wait is served first;
\* what is left of the count after serving is dropped.
Serve_One(s, x, n) ==
    LET sum    == (s.num[x] + n) % W
        served == IF s.wait[x] = <<>> \/ sum = 0 THEN 0 ELSE 1
    IN  [WakeAll(s, SubSeq(s.wait[x], 1, served))
         EXCEPT !.num[x] = sum - served]
Serve_Last(s, x, n) ==
    LET sum    == (s.num[x] + n) % W
        served == IF Len(s.wait[x]) < sum THEN Len(s.wait[x]) ELSE sum
    IN  [WakeAll(s, SubSeq(Reverse(s.wait[x]), 1, served))
         EXCEPT !.num[x] = sum - served]
Serve_Drop(s, x, n) ==
    LET sum    == (s.num[x] + n) % W
        served == IF Len(s.wait[x]) < sum THEN Len(s.wait[x]) ELSE sum
    IN  [WakeAll(s, SubSeq(s.wait[x], 1, served))
         EXCEPT !.num[x] = IF served = 0 THEN sum ELSE 0]

\* Adding n to the count and serving waiting threads while it lasts.
Serve(s, x, n) ==
    LET sum    == (s.num[x] + n) % W
        served == IF Len(s.wait[x]) < sum THEN Len(s.wait[x]) ELSE sum
    IN  [WakeAll(s, SubSeq(s.wait[x], 1, served))
         EXCEPT !.num[x] = sum - served]

\* Mutants: the limit itself is allowed; one less than the limit is not.
MayPost_Limit(x, n) ==
    /\ n # 0
    /\ x \in k.used
    /\ (k.num[x] + n) % W <= SemMax
MayPost_Less(x, n) ==
    /\ n # 0
    /\ x \in k.used
    /\ (k.num[x] + n) % W < SemMax - 1

\* The test of the new count, which is computed modulo W.
MayPost(x, n) ==
    /\ n # 0
    /\ x \in k.used
    /\ (k.num[x] + n) % W < SemMax

\* RMP_Sem_Post and RMP_Sem_Post_ISR
Sem_Post(x, n) ==
    /\ User
    /\ MayPost(x, n)
    /\ k' = Leave(Serve(k, x, n))
    /\ UNCHANGED <<rcv, got>>

Sem_Post_ISR(x, n) ==
    /\ Interrupt
    /\ MayPost(x, n)
    /\ k' = Leave(Serve(k, x, n))
    /\ UNCHANGED <<rcv, got>>

\* RMP_Sem_Bcst and RMP_Sem_Bcst_ISR
Sem_Bcst(x) ==
    /\ User
    /\ x \in k.used
    /\ k' = Leave(WakeAll(k, k.wait[x]))
    /\ UNCHANGED <<rcv, got>>

Sem_Bcst_ISR(x) ==
    /\ Interrupt
    /\ x \in k.used
    /\ k' = Leave(WakeAll(k, k.wait[x]))
    /\ UNCHANGED <<rcv, got>>

\* _RMP_Sem_Pend_Core: take one, or wait for one.  Its caller locked the
\* scheduler; s is the memory with that lock released.
Pend_Core(s, x, n) ==
    Leave(IF s.num[x] # 0 THEN [s EXCEPT !.num[x] = @ - 1]
          ELSE IF n = 0 THEN s
          ELSE [Block(s, n, "SEMBLK", "SEMDLY")
                EXCEPT !.wait[x] = Append(@, s.cur)])

\* RMP_Sem_Pend: a call that may have to wait is not made under a lock.
Sem_Pend(x, n) ==
    /\ User
    /\ x \in k.used
    /\ k.num[x] = 0 /\ n # 0 => MayBlock
    /\ k' = Pend_Core(k, x, n)
    /\ UNCHANGED <<rcv, got>>

\* RMP_Sem_Pend_Unlock: the caller holds the lock, which the call releases;
\* it does nothing else if the semaphore is free or the lock is nested.
\* The initial thread does not make it when it may have to wait.
Sem_Pend_Unlock(x, n) ==
    /\ User
    /\ k.lock > 0
    /\ k.cur = Idle => k.num[x] # 0 \/ n = 0
    /\ LET s == [k EXCEPT !.lock = @ - 1]
       IN  k' = IF s.lock = 0 /\ x \in k.used THEN Pend_Core(s, x, n)
                                              ELSE Leave(s)
    /\ UNCHANGED <<rcv, got>>

\* RMP_Sem_Abort
Sem_Abort(t) ==
    /\ User
    /\ k.state[t] \in Pending
    /\ k' = Leave(SetRetval(Wake(k, t), {t}, "err"))
    /\ UNCHANGED <<rcv, got>>

SemNext ==
    \/ \E x \in Sem, n \in Posts : \/ Sem_Crt(x, n)
                                   \/ Sem_Post(x, n)
                                   \/ Sem_Post_ISR(x, n)
    \/ \E x \in Sem : \/ Sem_Del(x)
                      \/ Sem_Bcst(x)
                      \/ Sem_Bcst_ISR(x)
                      \/ \E n \in Waits : \/ Sem_Pend(x, n)
                                          \/ Sem_Pend_Unlock(x, n)
    \/ \E t \in Thd : Sem_Abort(t)
============================================================================
