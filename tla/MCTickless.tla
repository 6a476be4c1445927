----------------------------- MODULE MCTickless -----------------------------
(***************************************************************************)
(* The tickless kernel with two threads beside the initial one, one always *)
(* above it and one also of its level.  They delay themselves, wait for a  *)
(* semaphore that interrupts and threads post, lock the scheduler, yield,  *)
(* cancel and abort each other's waits.                                    *)
(***************************************************************************)
EXTENDS RmpTickless, TLC

CONSTANTS i, a, b, x
MCThd == {i, a, b}

\* Bound: the semaphore exists from the start.
MCInit == 
    /\ k = [Boot EXCEPT !.used = {x}] /\ rcv = {} /\ got = <<>>
    /\ tim = Tim_Off /\ sleep = "no"
    /\ span = [t \in Thd |-> [age |-> 0, asked |-> 0]]

\* Bound: the life cycle of the two threads, each at two levels.
Life == \E t \in {a, b} : \/ \E p \in {IF t = a THEN 0 ELSE 2, 1}, n \in Slices :
                                Thd_Crt(t, p, n)
                          \/ k.lock = 0 /\ Thd_Del(t)
                          \/ Thd_Cancel(t)
                          \/ Sem_Abort(t)

\* Some of the calls of TicklessNext; the clock is never carried further past
\* a timer than LagMax.
MCNext ==
    /\ \/ Timing
       \/ Awake(Sched_Lock) \/ Awake(Sched_Unlock) \/ Awake(Yield)
       \/ Awake(Life) \/ Awake(Sem_Post(x, 1))
       \/ \E n \in Waits : n >= SliceMax /\ Awake(Sem_Pend(x, n))
       \/ Rousing(Sem_Post_ISR(x, 1))
    /\ Punctual'
MCSpec == MCInit /\ [][MCNext]_<<vars, tvars>>

\* Of MCTicklessStart.cfg, beside the runs: while the initial thread sleeps in
\* LPM3, for it has left the clock to the timer, the timer runs.  It fails:
\* RMP_Start_Hook leaves the timer off, and only a context switch turns it on.
TimerServes == sleep = "LPM3" => tim.on

\* As in MCSem; the age of a wait that has ended makes no difference either.
MCView ==
    <<[k EXCEPT
       !.now = 0,
       !.timeout = [t \in Thd |-> IF k.state[t] \in Timed THEN Diff(k, t) ELSE 0],
       !.retval = [t \in Thd |-> "ok"],
       !.slice = [t \in Thd |-> IF k.state[t] = "FREE" /\ t # k.cur THEN 0 ELSE @[t]],
       !.left = [t \in Thd |-> IF k.state[t] = "FREE" /\ t # k.cur THEN 0 ELSE @[t]],
       !.prio = [t \in Thd |-> IF k.state[t] = "FREE" /\ t # k.cur THEN 0 ELSE @[t]]],
      tim, sleep,
      [t \in Thd |-> IF k.state[t] \in Timed THEN span[t] ELSE "none"]>>
============================================================================
