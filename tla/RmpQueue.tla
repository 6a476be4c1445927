------------------------------ MODULE RmpQueue ------------------------------
(***************************************************************************)
(* FIFOs, message queues and blocking message queues: RMP_Fifo_Crt, _Del,  *)
(* _Read, _Write, _Write_ISR, RMP_Msgq_Crt, _Del, _Snd, _Snd_ISR, _Rcv and *)
(* RMP_Bmq_Crt, _Del, _Snd, _Snd_ISR, _Rcv, built from semaphores (RmpSem) *)
(* and linked lists (RmpList).                                             *)
(*                                                                         *)
(* A message queue is a FIFO with a semaphore that counts its nodes; a     *)
(* blocking message queue is a message queue with a semaphore that counts  *)
(* its free slots.  A call that blocks consists of several critical        *)
(* sections with nothing held between them: call[t] says which of them     *)
(* thread t has to do next.  An obligation of the caller is a guard here:  *)
(* a node is given to a send only while it is on no list.                  *)
(***************************************************************************)
EXTENDS RmpSem, RmpList

CONSTANTS
    Msgq,       \* message queues, each named like its FIFO
    Bmq,        \* blocking message queues, each named like its Msgq
    Limit       \* bound: the limit given to Bmq_Crt

\* The semaphores of a queue: Queue->Msgq.Sem and Queue->Sem.
Items(q) == <<q, "items">>
Slots(b) == <<b, "slots">>

ASSUME QueueAssumption ==
    /\ Bmq \subseteq Msgq /\ Msgq \subseteq Fifo
    /\ {Items(q) : q \in Msgq} \cup {Slots(b) : b \in Bmq} \subseteq Sem
    /\ Limit \in Word \ {0} /\ Limit < SemMax
    /\ IsFiniteSet(Thd)

VARIABLES
    msgq,   \* message queues in state RMP_MSGQ_USED
    bmq,    \* blocking message queues in state RMP_BMQ_USED
    ptr,    \* the memory of the FIFOs, of type Pointers
    call    \* the call each thread is in the middle of

qvars == <<msgq, bmq, ptr, call>>

\* at: in RMP_Sem_Pend for a slot or for an item, or about to do the send,
\* the read or the post that follows.  fresh (a history variable): the queue
\* has not been deleted since the call began.
Call == [at : {"slot", "send", "item", "read", "post"}, q : Msgq,
         node : SUBSET Node, fresh : BOOLEAN]
NoCall == [at |-> "none"]

QueueInit ==
    /\ Init
    /\ msgq = {} /\ bmq = {}
    /\ ptr = [next |-> [c \in Cell |-> c], prev |-> [c \in Cell |-> c],
              num |-> [f \in Fifo |-> 0], used |-> {}]
    /\ call = [t \in Thd |-> NoCall]

\* The current thread may begin a call, or goes on with the one it is in.
Begin == User /\ call[k.cur] = NoCall
Resume(t, at) == User /\ t = k.cur /\ call[t].at = at

\* A call begun in RMP_Sem_Pend was woken with the result r.
Awoken(t, at, r) == Resume(t, at) /\ k.retval[t] = r

\* Nodes on no list and in no call.
Own == {n \in Node :
           /\ \A f \in ptr.used : n \notin ToSet(Nodes(ptr, f))
           /\ \A t \in Thd : call[t] # NoCall => n \notin call[t].node}

Enter(t, at, q, N) ==
    call' = [call EXCEPT ![t] = [at |-> at, q |-> q, node |-> N, fresh |-> TRUE]]
Proceed(t, at) == call' = [call EXCEPT ![t].at = at, ![t].node = {}]
Return(t) == call' = [call EXCEPT ![t] = NoCall]

\* What deleting queue q does to the history of the calls on it.
Outlive(q) ==
    call' = [t \in Thd |-> IF call[t] # NoCall /\ call[t].q = q
                           THEN [call[t] EXCEPT !.fresh = FALSE] ELSE call[t]]

----------------------------------------------------------------------------
(* Creation and deletion.                                                  *)

\* The effect of RMP_Sem_Crt and RMP_Sem_Del inside a critical section.
Crt_Sem(s, x, n) == [s EXCEPT !.num[x] = n, !.wait[x] = <<>>,
                              !.used = @ \cup {x}]
Del_Sem(s, x) == [SetRetval(WakeAll(s, s.wait[x]), ToSet(s.wait[x]), "err")
                  EXCEPT !.used = @ \ {x}]

\* RMP_Msgq_Crt asserts that its semaphore and its FIFO were free.
Crt_Msgq(s, q) ==
    IF Items(q) \in s.used \/ q \in ptr.used THEN [s EXCEPT !.panic = 1]
    ELSE Crt_Sem(s, Items(q), 0)

Msgq_Crt(q) ==
    /\ Begin
    /\ q \notin Bmq /\ q \notin msgq
    /\ k' = Leave(Crt_Msgq(k, q))
    /\ msgq' = msgq \cup {q}
    /\ ptr' = Crt_Fifo(ptr, q)
    /\ UNCHANGED <<rcv, got, bmq, call>>

\* Mutant: the queue's semaphore survives it.
Msgq_Del_Half(q) ==
    /\ Begin
    /\ q \notin Bmq /\ q \in msgq
    /\ ptr.num[q] = 0
    /\ msgq' = msgq \ {q}
    /\ ptr' = Del_Fifo(ptr, q)
    /\ Outlive(q)
    /\ UNCHANGED <<k, rcv, got, bmq>>

\* RMP_Msgq_Del: only of an empty queue; the waiting receivers fail.
Msgq_Del(q) ==
    /\ Begin
    /\ q \notin Bmq /\ q \in msgq
    /\ ptr.num[q] = 0
    /\ k' = Leave(Del_Sem(k, Items(q)))
    /\ msgq' = msgq \ {q}
    /\ ptr' = Del_Fifo(ptr, q)
    /\ Outlive(q)
    /\ UNCHANGED <<rcv, got, bmq>>

\* RMP_Bmq_Crt
Bmq_Crt(b) ==
    /\ Begin
    /\ b \in Bmq /\ b \notin bmq
    /\ Slots(b) \notin k.used
    /\ k' = Leave(Crt_Msgq(Crt_Sem(k, Slots(b), Limit), b))
    /\ msgq' = msgq \cup {b} /\ bmq' = bmq \cup {b}
    /\ ptr' = Crt_Fifo(ptr, b)
    /\ UNCHANGED <<rcv, got, call>>

\* Mutant: nodes in the FIFO are no obstacle.
Bmq_Del_Full(b) ==
    /\ Begin
    /\ b \in bmq
    /\ k' = Leave(Del_Sem(Del_Sem(k, Items(b)), Slots(b)))
    /\ msgq' = msgq \ {b} /\ bmq' = bmq \ {b}
    /\ ptr' = Del_Fifo(ptr, b)
    /\ Outlive(b)
    /\ UNCHANGED <<rcv, got>>

\* RMP_Bmq_Del: the waiting receivers fail, then the waiting senders.
Bmq_Del(b) ==
    /\ Begin
    /\ b \in bmq
    /\ ptr.num[b] = 0
    /\ k' = Leave(Del_Sem(Del_Sem(k, Items(b)), Slots(b)))
    /\ msgq' = msgq \ {b} /\ bmq' = bmq \ {b}
    /\ ptr' = Del_Fifo(ptr, b)
    /\ Outlive(b)
    /\ UNCHANGED <<rcv, got>>

----------------------------------------------------------------------------
(* FIFOs that belong to no queue.  A node is written to one FIFO at a time. *)

Lone == Fifo \ Msgq

\* RMP_Fifo_Crt
Fifo_Crt(f) ==
    /\ Begin
    /\ f \in Lone \ ptr.used
    /\ ptr' = Crt_Fifo(ptr, f)
    /\ UNCHANGED <<vars, msgq, bmq, call>>

\* RMP_Fifo_Del: only of a FIFO without nodes.
Fifo_Del(f) ==
    /\ Begin
    /\ f \in Lone \cap ptr.used
    /\ ptr.num[f] = 0
    /\ ptr' = Del_Fifo(ptr, f)
    /\ UNCHANGED <<vars, msgq, bmq, call>>

\* RMP_Fifo_Write and RMP_Fifo_Write_ISR
Fifo_Write(f, n) ==
    /\ Begin \/ Interrupt
    /\ f \in Lone \cap ptr.used /\ n \in Own
    /\ ptr' = Write_Fifo(ptr, f, n)
    /\ UNCHANGED <<vars, msgq, bmq, call>>

\* RMP_Fifo_Read of a FIFO that can be read, which asserts that it counts a
\* node.
Read(f) ==
    /\ k' = IF ptr.num[f] = 0 THEN [k EXCEPT !.panic = 1] ELSE k
    /\ ptr' = Read_Fifo(ptr, f)

\* RMP_Fifo_Read
Fifo_Read(f) ==
    /\ Begin
    /\ f \in Lone /\ Readable(ptr, f)
    /\ Read(f)
    /\ UNCHANGED <<rcv, got, msgq, bmq, call>>

----------------------------------------------------------------------------
(* Sending.                                                                *)

\* RMP_Msgq_Snd and RMP_Msgq_Snd_ISR of a queue in use, from memory s: one
\* critical section that posts first and then writes the FIFO, which is
\* asserted to succeed.
Send(s, q, n) ==
    IF ~MayPost(Items(q), 1) THEN k' = Leave(s) /\ UNCHANGED ptr
    ELSE /\ k' = IF q \in ptr.used THEN Leave(Serve(s, Items(q), 1))
                                   ELSE [s EXCEPT !.panic = 1]
         /\ ptr' = Write_Fifo(ptr, q, n)

Msgq_Snd(q, n) ==
    /\ Begin
    /\ q \in msgq \ Bmq /\ n \in Own
    /\ Send(k, q, n)
    /\ UNCHANGED <<rcv, got, msgq, bmq, call>>

Msgq_Snd_ISR(q, n) ==
    /\ Interrupt
    /\ q \in msgq \ Bmq /\ n \in Own
    /\ Send(k, q, n)
    /\ UNCHANGED <<rcv, got, msgq, bmq, call>>

\* RMP_Bmq_Snd up to its RMP_Sem_Pend: a slot is taken, or waited for, or
\* (also if the queue is not in use) the call fails.
Bmq_Snd(b, n, w) ==
    /\ Begin
    /\ b \in bmq /\ n \in Own
    /\ k.num[Slots(b)] = 0 => MayBlock /\ w # 0
    /\ k' = Pend_Core(k, Slots(b), w)
    /\ Enter(k.cur, IF k.num[Slots(b)] = 0 THEN "slot" ELSE "send", b, {n})
    /\ UNCHANGED <<rcv, got, msgq, bmq, ptr>>

\* The RMP_Msgq_Snd of RMP_Bmq_Snd, which fails if the queue is gone.
Bmq_Snd_Msgq(t) ==
    /\ Resume(t, "send") \/ Awoken(t, "slot", "ok")
    /\ \E n \in call[t].node :
          IF call[t].q \in msgq THEN Send(k, call[t].q, n)
                                ELSE UNCHANGED <<k, ptr>>
    /\ Return(t)
    /\ UNCHANGED <<rcv, got, msgq, bmq>>

\* RMP_Bmq_Snd_ISR: takes a slot without a pend; the result of the send is
\* ignored.
Bmq_Snd_ISR(b, n) ==
    /\ Interrupt
    /\ b \in bmq /\ n \in Own
    /\ k.num[Slots(b)] # 0
    /\ Send([k EXCEPT !.num[Slots(b)] = @ - 1], b, n)
    /\ UNCHANGED <<rcv, got, msgq, bmq, call>>

----------------------------------------------------------------------------
(* Receiving.                                                              *)

\* RMP_Msgq_Rcv up to its RMP_Sem_Pend_Unlock, also as called by
\* RMP_Bmq_Rcv.  Under a lock of the caller's it fails.
Msgq_Rcv(q, w) ==
    /\ Begin
    /\ k.lock = 0
    /\ q \in msgq
    /\ k.num[Items(q)] = 0 => MayBlock /\ w # 0
    /\ k' = Pend_Core(k, Items(q), w)
    /\ Enter(k.cur, IF k.num[Items(q)] = 0 THEN "item" ELSE "read", q, {})
    /\ UNCHANGED <<rcv, got, msgq, bmq, ptr>>

\* The RMP_Fifo_Read of RMP_Msgq_Rcv: it fails if the FIFO is free or empty.
\* RMP_Bmq_Rcv goes on to give the slot back.
Msgq_Rcv_Read(t) ==
    /\ Resume(t, "read") \/ Awoken(t, "item", "ok")
    /\ LET q == call[t].q
       IN  IF ~Readable(ptr, q) THEN Return(t) /\ UNCHANGED <<k, ptr>>
           ELSE Read(q) /\ IF q \in Bmq THEN Proceed(t, "post") ELSE Return(t)
    /\ UNCHANGED <<rcv, got, msgq, bmq>>

\* Mutant: the slot of a node that was received is not given back.
Bmq_Rcv_Post_Not(t) ==
    /\ Resume(t, "post")
    /\ Return(t)
    /\ UNCHANGED <<k, rcv, got, msgq, bmq, ptr>>

\* The RMP_Sem_Post of RMP_Bmq_Rcv, whose result is ignored.
Bmq_Rcv_Post(t) ==
    /\ Resume(t, "post")
    /\ LET x == Slots(call[t].q)
       IN  k' = IF MayPost(x, 1) THEN Leave(Serve(k, x, 1)) ELSE k
    /\ Return(t)
    /\ UNCHANGED <<rcv, got, msgq, bmq, ptr>>

\* Mutant: a call gives up although it was granted what it waited for.
Queue_Fail_Any(t) ==
    /\ Resume(t, "slot") \/ Resume(t, "item")
    /\ Return(t)
    /\ UNCHANGED <<k, rcv, got, msgq, bmq, ptr>>

\* A call whose wait failed: timeout, abort or deletion of the queue.
Queue_Fail(t) ==
    /\ Awoken(t, "slot", "err") \/ Awoken(t, "item", "err")
    /\ Return(t)
    /\ UNCHANGED <<k, rcv, got, msgq, bmq, ptr>>

FifoNext ==
    \E f \in Lone : \/ Fifo_Crt(f) \/ Fifo_Del(f) \/ Fifo_Read(f)
                    \/ \E n \in Node : Fifo_Write(f, n)

QueueNext ==
    \/ \E q \in Msgq \ Bmq : Msgq_Crt(q) \/ Msgq_Del(q)
    \/ \E b \in Bmq : Bmq_Crt(b) \/ Bmq_Del(b)
    \/ \E q \in Msgq \ Bmq, n \in Node : Msgq_Snd(q, n) \/ Msgq_Snd_ISR(q, n)
    \/ \E b \in Bmq, n \in Node : \/ Bmq_Snd_ISR(b, n)
                                  \/ \E w \in Waits : Bmq_Snd(b, n, w)
    \/ \E q \in Msgq, w \in Waits : Msgq_Rcv(q, w)
    \/ \E t \in Thd : \/ Bmq_Snd_Msgq(t)
                      \/ Msgq_Rcv_Read(t)
                      \/ Bmq_Rcv_Post(t)
                      \/ Queue_Fail(t)

\* The scheduler: it may act between any two critical sections of a call.
Behind == (Switch \/ \E n \in Ticks : Tick(n)) /\ UNCHANGED qvars

\* Calls on threads; the call of a deleted thread is never finished.  A
\* thread does not delete itself under the lock.
Aside(A) == Begin /\ A /\ UNCHANGED qvars
Thd_Del_Call(t) ==
    /\ Begin
    /\ t = k.cur => k.lock = 0
    /\ Thd_Del(t)
    /\ call' = [call EXCEPT ![t] = NoCall]
    /\ UNCHANGED <<msgq, bmq, ptr>>

\* The semaphores of queues, which nobody uses but the queues, and the other
\* ones, which threads and interrupt handlers use as they like.
QueueSem == {Items(q) : q \in Msgq} \cup {Slots(b) : b \in Bmq}

Sem_Call(x) ==
    \/ \E n \in Posts : Sem_Crt(x, n) \/ Sem_Post(x, n)
    \/ Sem_Del(x) \/ Sem_Bcst(x)
    \/ \E n \in Waits : Sem_Pend(x, n) \/ Sem_Pend_Unlock(x, n)

Sem_Handler(x) == Sem_Bcst_ISR(x) \/ \E n \in Posts : Sem_Post_ISR(x, n)

Thd_Call ==
    \/ Sched_Lock \/ Sched_Unlock \/ Yield
    \/ \E t \in Thd, p \in Prio, n \in Slices : Thd_Crt(t, p, n)
    \/ \E t \in Thd, p \in 0..PrioNum, n \in Slices : Thd_Set(t, p, n)
    \/ \E n \in Waits : Thd_Delay(n)
    \/ \E t \in Thd : \/ Thd_Suspend(t) \/ Thd_Resume(t)
                      \/ Thd_Cancel(t) \/ Sem_Abort(t)

\* The queues among all other calls of the kernel but those on mailboxes.
QueueSys ==
    \/ Behind
    \/ Aside(Thd_Call)
    \/ \E x \in Sem \ QueueSem : \/ Aside(Sem_Call(x))
                                 \/ Sem_Handler(x) /\ UNCHANGED qvars
    \/ \E t \in Thd : Thd_Del_Call(t)
    \/ FifoNext
    \/ QueueNext
QueueSpec == QueueInit /\ [][QueueSys]_<<vars, qvars>>

----------------------------------------------------------------------------
(* What makes the queues correct.                                          *)

\* The threads of a call on q that are at one of the steps S, and of those in
\* RMP_Sem_Pend the ones that have been granted the semaphore.
At(q, S) ==
    {t \in Thd : /\ call[t] # NoCall /\ call[t].q = q /\ call[t].at \in S
                 /\ call[t].at \in {"slot", "item"} =>
                       k.state[t] = "RUNNING" /\ k.retval[t] = "ok"}
Fresh(S) == {t \in S : call[t].fresh}

\* The lists are well-formed: whoever writes and reads, from threads or
\* interrupts, next and prev agree, and the count is the number of nodes.
ListsExact ==
    /\ \A f \in ptr.used : WellFormed(ptr, f)
    /\ \A f, g \in ptr.used : f # g =>
          ToSet(Nodes(ptr, f)) \cap ToSet(Nodes(ptr, g)) = {}

\* RMP_Msgq_Rcv reads the FIFO in a critical section of its own: "if a thread
\* grabs a semaphore it is guaranteed that something is in the FIFO" (line
\* 4722).  There are nodes for the count and for every thread that has been
\* granted an item and has not read it yet, whatever was deleted.
GrantHasItem ==
    \A q \in Msgq :
        /\ At(q, {"item", "read"}) # {} => q \in msgq
        /\ q \in msgq =>
              k.num[Items(q)] + Cardinality(At(q, {"item", "read"})) <= Len(Nodes(ptr, q))

\* Nodes of q that no count and no granted thread stands for.
Stranded(q) ==
    Len(Nodes(ptr, q)) - k.num[Items(q)] - Cardinality(At(q, {"item", "read"}))

\* A node is stranded in the FIFO, behind which receivers wait, only if a
\* thread is deleted between the grant and the read: a queue is not deleted
\* in between, and no timeout or abort takes back a grant.
ItemsConserved ==
    [][\A q \in msgq \cap msgq' :
          Stranded(q)' # Stranded(q) =>
             \E t \in At(q, {"item", "read"}) : k'.state[t] = "FREE"]_<<vars, qvars>>

\* What accounts for the slots of blocking queue b: free slots, nodes, slots
\* a sender has taken, and slots a receiver is about to give back.
Accounted(b) ==
    k.num[Slots(b)] + Len(Nodes(ptr, b)) +
    Cardinality(Fresh(At(b, {"slot", "send", "post"})))

\* While the slots add up to the limit, no step loses a slot or makes one,
\* except that a call that began before its queue was deleted and created
\* again may (the deletion does not wait for it), and that a thread deleted
\* within a call takes its slot with it: however Bmq_Snd, Bmq_Snd_ISR, Bmq_Rcv
\* and their timeouts interleave.
SlotsConserved ==
    [][\A b \in bmq \cap bmq' :
          Accounted(b) <= Limit /\ Accounted(b)' # Accounted(b) =>
             \E t \in Thd : /\ call[t] # NoCall /\ call[t].q = b /\ call'[t] = NoCall
                            /\ ~call[t].fresh \/ k'.state[t] = "FREE"]_<<vars, qvars>>

\* "There is no possibility that the FIFO will (even transiently) contain more
\* elements than the limit" (line 5136).
BelowLimit == \A b \in bmq : Len(Nodes(ptr, b)) <= Limit

\* As long as the slots add up, a sender that has one can send: "This can't
\* fail due to semaphore limit" (line 4984).
SlotMeansSend ==
    [][\A t \in Thd :
          Bmq_Snd_Msgq(t) /\ call[t].fresh /\ Accounted(call[t].q) <= Limit =>
             \E n \in call[t].node :
                LET q == call[t].q
                IN  Nodes(ptr', q) = Append(Nodes(ptr, q), n)]_<<vars, qvars>>

\* The count of a semaphore stays below RMP_SEM_CNT_MAX, so that the number
\* RMP_Sem_Pend returns, which it reads after the unlock, is never negative
\* and is not taken for an error by RMP_Msgq_Rcv and RMP_Bmq_Snd.
CountBelowMax == \A x \in Sem : k.num[x] < SemMax

\* No assertion of the queue calls fails: semaphore and FIFO of a queue are
\* used and free together with it.
NoPanic == k.panic = 0

----------------------------------------------------------------------------
(* The lists of pointers implement FIFOs of nodes.                         *)

Contents == [f \in Fifo |-> IF f \in ptr.used THEN Nodes(ptr, f) ELSE <<>>]

Fifos == INSTANCE AbsFifo WITH used <- ptr.used, queue <- Contents

\* Every step of the kernel writes one node to the end of one FIFO, takes one
\* from the head of one, creates or deletes an empty one, or leaves all of
\* them as they are: also where calls of many sections on several queues
\* interleave with interrupt handlers, no node is lost, doubled or overtaken.
FifoImplements == Fifos!Spec
============================================================================
