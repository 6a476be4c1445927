------------------------------ MODULE RmpMail ------------------------------
(***************************************************************************)
(* Mailboxes: RMP_Thd_Snd, RMP_Thd_Snd_ISR and RMP_Thd_Rcv.  Every thread  *)
(* has one word of mail, a flag that says the word is unread, and a list   *)
(* of threads blocked on sending to it; a blocked sender parks its data in *)
(* the mailbox word of its own control block.                              *)
(*                                                                         *)
(* RMP_Thd_Rcv on an empty mailbox has two critical sections: one blocks,  *)
(* the other runs when the thread is scheduled again.  A thread between    *)
(* the two is in rcv.                                                      *)
(***************************************************************************)
EXTENDS RmpThread

\* Mutant: the receiver that waits is not woken.
Deliver_Quiet(s, t, d) == [s EXCEPT !.mailbox[t] = d, !.full = @ \cup {t}]

\* Filling an empty mailbox, and waking the receiver if it waits for mail.
Deliver(s, t, d) ==
    LET woken == IF s.state[t] \in {"RCVBLK", "RCVDLY"} THEN Wake(s, t) ELSE s
    IN  [woken EXCEPT !.mailbox[t] = d, !.full = @ \cup {t}]

\* RMP_Thd_Snd to an empty mailbox.
Thd_Snd(t, d) ==
    /\ User
    /\ k.state[t] # "FREE" /\ t # k.cur
    /\ t \notin k.full
    /\ k' = Leave(Deliver(k, t, d))
    /\ UNCHANGED <<rcv, got>>

\* Mutant: blocked senders are served last in, first out.
Thd_Snd_Block_Lifo(t, d, n) ==
    /\ MayBlock
    /\ k.state[t] # "FREE" /\ t # k.cur
    /\ t \in k.full
    /\ n # 0
    /\ LET s == Block(k, n, "SNDBLK", "SNDDLY")
       IN  k' = Leave([s EXCEPT !.snd[t] = <<k.cur>> \o @,
                                !.mailbox[k.cur] = d])
    /\ UNCHANGED <<rcv, got>>

\* RMP_Thd_Snd to a full mailbox, with a timeout.
Thd_Snd_Block(t, d, n) ==
    /\ MayBlock
    /\ k.state[t] # "FREE" /\ t # k.cur
    /\ t \in k.full
    /\ n # 0
    /\ LET s == Block(k, n, "SNDBLK", "SNDDLY")
       IN  k' = Leave([s EXCEPT !.snd[t] = Append(@, k.cur),
                                !.mailbox[k.cur] = d])
    /\ UNCHANGED <<rcv, got>>

\* Mutant: the handler does not ask for the switch it pended.
Thd_Snd_ISR_Quiet(t, d) ==
    /\ Interrupt
    /\ k.state[t] # "FREE"
    /\ t \notin k.full
    /\ k' = Deliver(k, t, d)
    /\ UNCHANGED <<rcv, got>>

\* RMP_Thd_Snd_ISR: only a handler that woke the receiver looks at the
\* pended switch.
Thd_Snd_ISR(t, d) ==
    /\ Interrupt
    /\ k.state[t] # "FREE"
    /\ t \notin k.full
    /\ LET s == Deliver(k, t, d)
       IN  k' = IF k.state[t] \in {"RCVBLK", "RCVDLY"} THEN Leave(s) ELSE s
    /\ UNCHANGED <<rcv, got>>

\* Mutant: the mailbox counts as empty although a sender refilled it.
Thd_Unblock_Clear(s, c) ==
    IF s.snd[c] = <<>> THEN [s EXCEPT !.full = @ \ {c}]
    ELSE LET t == Head(s.snd[c])
         IN  [Wake(s, t) EXCEPT !.mailbox[c] = s.mailbox[t],
                                !.full = @ \ {c}]

\* _RMP_Thd_Unblock: the first blocked sender, if any, refills the mailbox.
Thd_Unblock(s, c) ==
    IF s.snd[c] = <<>> THEN [s EXCEPT !.full = @ \ {c}]
    ELSE LET t == Head(s.snd[c])
         IN  [Wake(s, t) EXCEPT !.mailbox[c] = s.mailbox[t]]

\* RMP_Thd_Rcv of a full mailbox.
Thd_Rcv(c) ==
    /\ User
    /\ c = k.cur
    /\ c \in k.full
    /\ k' = Leave(Thd_Unblock(k, c))
    /\ got' = <<c, k.mailbox[c]>>
    /\ UNCHANGED rcv

\* RMP_Thd_Rcv of an empty mailbox, up to the wait.  The assertion is that
\* nobody waits to send to it.
Thd_Rcv_Block(n) ==
    /\ MayBlock
    /\ k.cur \notin k.full
    /\ IF k.snd[k.cur] # <<>>
       THEN k' = [k EXCEPT !.panic = 1] /\ UNCHANGED rcv
       ELSE /\ n # 0
            /\ k' = Leave(Block(k, n, "RCVBLK", "RCVDLY"))
            /\ rcv' = rcv \cup {k.cur}
    /\ UNCHANGED got

\* RMP_Thd_Rcv after the wait: mail means success and no mail means failure,
\* or an assertion fails.
Thd_Rcv_Done(c) ==
    /\ k.panic = 0 /\ k.soft = 0
    /\ c = k.cur /\ c \in rcv
    /\ LET good == (c \in k.full) <=> (k.retval[c] = "ok")
       IN  /\ k' = IF ~good THEN [k EXCEPT !.panic = 1]
                   ELSE IF c \in k.full THEN Leave(Thd_Unblock(k, c)) ELSE k
           /\ got' = IF good /\ c \in k.full THEN <<c, k.mailbox[c]>> ELSE got
    /\ rcv' = rcv \ {c}

MailNext ==
    \/ \E t \in Thd, d \in Mail : \/ Thd_Snd(t, d)
                                  \/ Thd_Snd_ISR(t, d)
                                  \/ \E n \in Waits : Thd_Snd_Block(t, d, n)
    \/ \E c \in Thd : Thd_Rcv(c) \/ Thd_Rcv_Done(c)
    \/ \E n \in Waits : Thd_Rcv_Block(n)
============================================================================
