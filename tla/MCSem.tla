------------------------------- MODULE MCSem -------------------------------
(* Semaphores: three threads besides the initial one post, wait, abort,    *)
(* broadcast, create and delete; interrupt handlers post and broadcast.    *)
EXTENDS RmpKernel, TLC

CONSTANTS i, a, b, c, x, y
MCThd == {i, a, b, c}
MCSym == Permutations({a, b, c}) \cup Permutations({x, y})

Life == \E t \in {a, b, c} : \/ Thd_Crt(t, 1, 1)
                             \/ Thd_Del(t)
                             \/ Thd_Suspend(t)
                             \/ Thd_Resume(t)

MCNext == CoreNext \/ Life \/ SemNext
MCSpec == Init /\ [][MCNext]_vars

\* Two states that differ only in where the clock stands, or in words that
\* are written before they are read, behave alike.
MCView ==
    [k EXCEPT
       !.now = 0,
       !.timeout = [t \in Thd |-> IF k.state[t] \in Timed THEN Diff(k, t) ELSE 0],
       !.retval = [t \in Thd |-> IF k.state[t] \in Blocked THEN @[t] ELSE "ok"],
       !.slice = [t \in Thd |-> IF k.state[t] = "FREE" /\ t # k.cur THEN 0 ELSE @[t]],
       !.left = [t \in Thd |-> IF k.state[t] = "FREE" /\ t # k.cur THEN 0 ELSE @[t]],
       !.prio = [t \in Thd |-> IF k.state[t] = "FREE" /\ t # k.cur THEN 0 ELSE @[t]],
       !.num = [z \in Sem |-> IF z \in k.used THEN @[z] ELSE 0]]
============================================================================
