------------------------------ MODULE MCThread ------------------------------
(* The thread operations with the scheduler: an initial thread and two     *)
(* others, which make every call in every order.                           *)
EXTENDS RmpKernel, TLC

CONSTANTS i, a, b, c
MCThd == {i, a, b, c}
MCSym == Permutations({a, b, c})

MCNext == CoreNext \/ ThreadNext
MCSpec == Init /\ [][MCNext]_vars

\* Two states that differ only in where the clock stands, or in words that
\* are written before they are read, behave alike.
MCView ==
    <<[k EXCEPT
         !.now = 0,
         !.timeout = [t \in Thd |-> IF k.state[t] \in Timed THEN Diff(k, t) ELSE 0],
         !.mailbox = [t \in Thd |-> IF t \in k.full \/ k.state[t] \in Sending
                                    THEN @[t] ELSE BootMail],
         !.retval = [t \in Thd |-> IF t \in rcv \/ k.state[t] \in Blocked
                                   THEN @[t] ELSE "ok"],
         !.slice = [t \in Thd |-> IF k.state[t] = "FREE" /\ t # k.cur THEN 0 ELSE @[t]],
         !.left = [t \in Thd |-> IF k.state[t] = "FREE" /\ t # k.cur THEN 0 ELSE @[t]],
         !.prio = [t \in Thd |-> IF k.state[t] = "FREE" /\ t # k.cur THEN 0 ELSE @[t]]],
      rcv>>
============================================================================
