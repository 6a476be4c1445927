------------------------------- MODULE MCMail -------------------------------
(* Mailboxes: clients a and b send to a server r, which receives; an       *)
(* interrupt handler sends to it as well.  Any of the three can be         *)
(* suspended, resumed, deleted and created again at any time.  MCSpec      *)
(* keeps the roles apart: nobody sends to a client.  MCAnySpec does not.   *)
EXTENDS RmpKernel, TLC

CONSTANTS i, r, a, b
MCThd == {i, r, a, b}
MCSym == Permutations({a, b})

Service(T) ==
    \/ \E t \in T, d \in Mail : \/ Thd_Snd(t, d)
                                \/ Thd_Snd_ISR(t, d)
                                \/ \E n \in Waits : Thd_Snd_Block(t, d, n)
    \/ \E c \in T : Thd_Rcv(c) \/ Thd_Rcv_Done(c)
    \/ k.cur \in T /\ \E n \in Waits : Thd_Rcv_Block(n)

Life == \E t \in {r, a, b} : \/ \E p \in Prio : Thd_Crt(t, p, 1)
                             \/ Thd_Del(t)
                             \/ Thd_Suspend(t)
                             \/ Thd_Resume(t)

MCNext    == CoreNext \/ Life \/ Service({r})
MCAnyNext == CoreNext \/ Life \/ Service({r, a, b})

MCSpec    == Init /\ [][MCNext]_vars
MCAnySpec == Init /\ [][MCAnyNext]_vars

\* Two states that differ only in where the clock stands, or in words that
\* are written before they are read, behave alike.
MCView ==
    <<[k EXCEPT
         !.now = 0,
         !.timeout = [t \in Thd |-> IF k.state[t] \in Timed THEN Diff(k, t) ELSE 0],
         !.mailbox = [t \in Thd |-> IF t \in k.full \/ k.state[t] \in Sending
                                    THEN @[t] ELSE BootMail],
         !.retval = [t \in Thd |-> IF t \in rcv \/ k.state[t] \in Blocked
                                   THEN @[t] ELSE "ok"],
         !.slice = [t \in Thd |-> IF k.state[t] = "FREE" /\ t # k.cur THEN 0 ELSE @[t]],
         !.left = [t \in Thd |-> IF k.state[t] = "FREE" /\ t # k.cur THEN 0 ELSE @[t]],
         !.prio = [t \in Thd |-> IF k.state[t] = "FREE" /\ t # k.cur THEN 0 ELSE @[t]]],
      rcv>>
============================================================================
