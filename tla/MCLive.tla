------------------------------- MODULE MCLive -------------------------------
(* Liveness: the threads of Low share a level, c is above them.  The       *)
(* initial thread creates them; then they compute, delay, yield, lock the  *)
(* scheduler and wait on a semaphore with a timeout.                       *)
EXTENDS RmpKernel

CONSTANTS i, c, Low
MCThd == {i, c} \cup Low

Create ==
    /\ k.cur = i
    /\ \/ \E t \in Low : Thd_Crt(t, 1, 2)
       \/ Thd_Crt(c, 2, 1)
       \/ \E x \in Sem : Sem_Crt(x, 0)

Work ==
    \/ \E n \in Waits : \/ Thd_Delay(n)
                        \/ \E x \in Sem : Sem_Pend(x, n)
    \/ \E x \in Sem : Sem_Post(x, 1)
    \/ Sem_Abort(c)

MCNext == CoreNext \/ Create \/ Work

Timer == \E n \in Ticks : Tick(n)

\* The hardware takes a pending context switch interrupt; a thread that
\* locked the scheduler unlocks it; and a tick that is due while interrupts
\* are masked stays pending and is taken when they are not.  The last is
\* SF_vars(Timer), with the condition that enables Timer written out.
Fairness ==
    /\ WF_vars(Switch)
    /\ WF_vars(Sched_Unlock)
    /\ []<>Interrupt => []<><<Timer>>_vars

MCSpec == Init /\ [][MCNext]_vars /\ Fairness
============================================================================
