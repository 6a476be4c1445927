------------------------------ MODULE MCQueue ------------------------------
(***************************************************************************)
(* A message queue mq, a blocking message queue bq of limit 2 and a FIFO   *)
(* for three nodes, used by the threads a and b, by interrupt handlers,    *)
(* and by the initial thread when the others wait.                         *)
(***************************************************************************)
EXTENDS RmpQueue, TLC

CONSTANTS i, a, b, fifo, mq, bq, n1, n2, n3
MCThd == {i, a, b}
MCSem == {Items(s) : s \in Msgq} \cup {Slots(s) : s \in Bmq}
MCSym == Permutations({a, b}) \cup Permutations(Node)

Life == \E t \in {a, b} : Aside(Thd_Crt(t, 1, 1)) \/ Thd_Del_Call(t)
                          \/ Aside(Sem_Abort(t))

\* Bound: bq is used alone, fifo and mq side by side; a call on one of them may
\* go on when another is in use.
MCNext ==
    /\ \/ Behind \/ Aside(Sched_Unlock) \/ Aside(Yield) \/ Life
       \/ FifoNext \/ QueueNext
    /\ bq \in ptr'.used => ptr'.used = {bq}
MCSpec == QueueInit /\ [][MCNext]_<<vars, qvars>>

\* As in MCSem: where the clock stands, and words that are written before
\* they are read, make no difference.
MCView ==
    LET free == Own
    IN  <<[k EXCEPT
           !.now = 0,
           !.timeout = [t \in Thd |-> IF k.state[t] \in Timed THEN Diff(k, t) ELSE 0],
           !.retval = [t \in Thd |-> IF call[t].at \in {"slot", "item"} THEN @[t] ELSE "ok"],
           !.slice = [t \in Thd |-> IF k.state[t] = "FREE" /\ t # k.cur THEN 0 ELSE @[t]],
           !.left = [t \in Thd |-> IF k.state[t] = "FREE" /\ t # k.cur THEN 0 ELSE @[t]],
           !.prio = [t \in Thd |-> IF k.state[t] = "FREE" /\ t # k.cur THEN 0 ELSE @[t]],
           !.num = [s \in Sem |-> IF s \in k.used THEN @[s] ELSE 0]],
          [ptr EXCEPT !.next = [c \in Cell |-> IF c \in free THEN c ELSE @[c]],
                      !.prev = [c \in Cell |-> IF c \in free THEN c ELSE @[c]]],
          msgq, bmq, call>>
============================================================================
