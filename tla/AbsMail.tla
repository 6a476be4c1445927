------------------------------ MODULE AbsMail ------------------------------
(***************************************************************************)
(* What the mailboxes promise: the mails sent to a thread form a queue,    *)
(* of which the first is in the mailbox and the others wait with their     *)
(* blocked senders.  Nothing changes a mail once it was sent, and mails    *)
(* are received in the order in which they were sent.  A mail that still   *)
(* waits can be withdrawn (its sender times out or is deleted), the first  *)
(* one cannot.  A deleted thread's mails are gone.                         *)
(***************************************************************************)
EXTENDS Integers, Sequences

CONSTANTS Thd, Mail

VARIABLES
    box,    \* per thread, the mails sent to it and not yet received
    got     \* the last mail received: <<receiver, data>>

Init == box = [t \in Thd |-> <<>>] /\ got = <<>>

Send(t, d) ==
    /\ box' = [box EXCEPT ![t] = Append(@, d)]
    /\ UNCHANGED got

Receive(t) ==
    /\ box[t] # <<>>
    /\ got' = <<t, Head(box[t])>>
    /\ box' = [box EXCEPT ![t] = Tail(@)]

\* q is p without some of its mails, but not without the first.
Thinned(q, p) ==
    \E f \in [DOMAIN q -> DOMAIN p] :
       /\ \A n \in DOMAIN q : q[n] = p[f[n]]
       /\ \A m, n \in DOMAIN q : m < n => f[m] < f[n]
       /\ p # <<>> => q # <<>> /\ f[1] = 1

Withdraw ==
    /\ box' \in [Thd -> Seq(Mail)]
    /\ \A t \in Thd : Thinned(box'[t], box[t])
    /\ UNCHANGED got

Delete(t) ==
    /\ box' \in [Thd -> Seq(Mail)]
    /\ box'[t] = <<>>
    /\ \A u \in Thd \ {t} : Thinned(box'[u], box[u])
    /\ UNCHANGED got

Next == \/ \E t \in Thd : \/ \E d \in Mail : Send(t, d)
                          \/ Receive(t)
                          \/ Delete(t)
        \/ Withdraw
Spec == Init /\ [][Next]_<<box, got>>
============================================================================
