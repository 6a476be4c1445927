----------------------------- MODULE RmpThread -----------------------------
(***************************************************************************)
(* Life cycle, priority, suspension and delay of threads: RMP_Thd_Crt,     *)
(* _Del, _Set, _Suspend, _Resume, _Delay and _Cancel.  The calls are made  *)
(* by the current thread, also on itself, and also under a scheduler lock  *)
(* that the caller took.                                                   *)
(*                                                                         *)
(* Two obligations of the caller, which the kernel does not check, are     *)
(* guards here: the initial thread stays ready (it is never deleted or     *)
(* suspended and never blocks), and a call that blocks is not made under   *)
(* the scheduler lock.                                                     *)
(***************************************************************************)
EXTENDS RmpCore

\* The current thread may make a call that blocks it.
MayBlock == User /\ k.lock = 0 /\ k.cur # Idle

\* RMP_Thd_Crt
Thd_Crt(t, p, n) ==
    /\ User
    /\ n # 0 /\ n < SliceMax
    /\ k.state[t] = "FREE"
    /\ LET new == [k EXCEPT !.prio[t] = p, !.slice[t] = n, !.left[t] = n,
                            !.snd[t] = <<>>, !.state[t] = "RUNNING",
                            !.susp = @ \ {t}, !.full = @ \ {t}]
       IN  k' = Leave(Run_Ins(new, t))
    /\ rcv' = rcv \ {t}
    /\ UNCHANGED got

\* RMP_Thd_Del: the threads blocked on sending to t fail; then t leaves the
\* list its state names.  Deleting oneself under the lock does not switch
\* away, and the assertion after the unlock fails.
Thd_Del(t) ==
    /\ User
    /\ t # Idle
    /\ k.state[t] # "FREE"
    /\ LET freed == SetRetval(WakeAll(k, k.snd[t]), ToSet(k.snd[t]), "err")
           off   == IF freed.state[t] = "RUNNING" THEN Run_Del(freed, t)
                                                  ELSE Unlink(freed, t)
           gone  == [off EXCEPT !.retval[t] = "err", !.state[t] = "FREE",
                                !.susp = @ \ {t}, !.full = @ \ {t}]
       IN  k' = IF t = k.cur /\ k.lock > 0 THEN [gone EXCEPT !.panic = 1]
                                           ELSE Leave(gone)
    /\ rcv' = rcv \ {t}
    /\ UNCHANGED got

\* RMP_Thd_Set: PrioNum and SliceMax stand for "no change".
Thd_Set(t, p, n) ==
    /\ User
    /\ n # 0
    /\ k.state[t] # "FREE"
    /\ LET moved == IF k.state[t] = "RUNNING"
                    THEN Run_Ins([Run_Del(k, t) EXCEPT !.prio[t] = p], t)
                    ELSE [k EXCEPT !.prio[t] = p]
           set == IF p < PrioNum /\ p # k.prio[t] THEN moved ELSE k
       IN  k' = Leave([set EXCEPT !.slice[t] = IF n < SliceMax THEN n ELSE @])
    /\ UNCHANGED <<rcv, got>>

\* RMP_Thd_Suspend
Thd_Suspend(t) ==
    /\ User
    /\ t # Idle
    /\ k.state[t] # "FREE"
    /\ t \notin k.susp
    /\ LET off == IF k.state[t] = "RUNNING" THEN Run_Del(k, t) ELSE k
       IN  k' = Leave([off EXCEPT !.susp = @ \cup {t}])
    /\ UNCHANGED <<rcv, got>>

\* Mutant: resuming makes the thread ready whatever it waits for.
Thd_Resume_Any(t) ==
    /\ User
    /\ k.state[t] # "FREE"
    /\ t \in k.susp
    /\ k' = Leave(Run_Ins([k EXCEPT !.susp = @ \ {t}], t))
    /\ UNCHANGED <<rcv, got>>

\* RMP_Thd_Resume
Thd_Resume(t) ==
    /\ User
    /\ k.state[t] # "FREE"
    /\ t \in k.susp
    /\ LET on == [k EXCEPT !.susp = @ \ {t}]
       IN  k' = Leave(IF k.state[t] = "RUNNING" THEN Run_Ins(on, t) ELSE on)
    /\ UNCHANGED <<rcv, got>>

\* RMP_Thd_Delay
Thd_Delay(n) ==
    /\ MayBlock
    /\ n # 0 /\ n < SliceMax
    /\ k' = Leave(Block(k, n, "DELAYED", "DELAYED"))
    /\ UNCHANGED <<rcv, got>>

\* RMP_Thd_Cancel
Thd_Cancel(t) ==
    /\ User
    /\ k.state[t] = "DELAYED"
    /\ k' = Leave(SetRetval(Wake(k, t), {t}, "err"))
    /\ UNCHANGED <<rcv, got>>

ThreadNext ==
    \/ \E t \in Thd, p \in Prio, n \in Slices : Thd_Crt(t, p, n)
    \/ \E t \in Thd, p \in 0..PrioNum, n \in Slices : Thd_Set(t, p, n)
    \/ \E n \in Waits : Thd_Delay(n)
    \/ \E t \in Thd : \/ Thd_Del(t)
                      \/ Thd_Suspend(t)
                      \/ Thd_Resume(t)
                      \/ Thd_Cancel(t)
============================================================================
