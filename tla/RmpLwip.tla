------------------------------ MODULE RmpLwip ------------------------------
(***************************************************************************)
(* The glue between lwIP and the kernel (arch/sys_arch.c of the two lwIP   *)
(* projects, which differ in a type only): mailboxes that are message      *)
(* queues, whose nodes come from a pool of messages that all threads and   *)
(* interrupts share.  A section under the scheduler lock, a call of a      *)
(* message queue (RmpQueue) and an interrupt are one step; code outside    *)
(* the lock is one step for each access of shared memory.                  *)
(***************************************************************************)
EXTENDS RmpList

CONSTANTS
    Thread,     \* the threads that call the glue
    Pool,       \* Msg_List; the other members of Fifo are mailboxes
    Msg,        \* what is posted
    NULL        \* RMP_NULL, not in Msg

Mbox == Fifo \ {Pool}

VARIABLES
    ptr,    \* the memory of the lists, of type Pointers
    word,   \* the field msg of each node, or what is in its place
    call,   \* where each thread is, with the local variables of its call
    sent    \* history: what was posted to each mailbox and not yet received
vars == <<ptr, word, call, sent>>

Idle == [at |-> "idle"]

\* sys_init puts the nodes on the pool, and sys_mbox_new makes the mailboxes.
Init ==
    \E order \in SetToSeqs(Node) :
       LET ring == <<Pool>> \o order \o <<Pool>>
           Place(c) == CHOOSE i \in 1 .. Len(ring) - 1 : ring[i] = c
       IN  /\ ptr = [next |-> [c \in Cell |-> IF c \in Mbox THEN c ELSE ring[Place(c) + 1]],
                     prev |-> [c \in Cell |-> CASE c \in Mbox -> c
                                                [] c = Pool   -> Last(order)
                                                [] OTHER      -> ring[Place(c) - 1]],
                     num |-> [f \in Fifo |-> 0], used |-> Mbox]
           /\ word = [c \in Cell |-> NULL]
           /\ call = [t \in Thread |-> Idle]
           /\ sent = [q \in Mbox |-> <<>>]

\* Thread t goes from one place of its call to the next.
Step(t, from, to) == call[t].at = from /\ call' = [call EXCEPT ![t] = to]

\* The first node of the pool, which has as many as it takes (MSG_ARRAY_SIZE).
First == ptr.next[Pool]
Take == List_Del(ptr, ptr.prev[First], ptr.next[First])
Room(q) == First # Pool /\ Len(sent[q]) < Cardinality(Node)

\* RMP_Msgq_Snd and RMP_Msgq_Snd_ISR of a node with the message m.
Snd(p, q, n, m) ==
    /\ ptr' = Write_Fifo(p, q, n)
    /\ sent' = [sent EXCEPT ![q] = Append(@, m)]

\* sys_mbox_post, and sys_mbox_trypost, which gives the node back should the
\* mailbox be free.
Sys_Mbox_Post(t, q, m, try) ==
    /\ Room(q)
    /\ Step(t, "idle", [at |-> "fill", q |-> q, node |-> First, msg |-> m, try |-> try])
    /\ ptr' = Take
    /\ UNCHANGED <<word, sent>>
Fill(t) ==
    /\ Step(t, "fill", [call[t] EXCEPT !.at = "send"])
    /\ word' = [word EXCEPT ![call[t].node] = call[t].msg]
    /\ UNCHANGED <<ptr, sent>>
Send(t) ==
    /\ Step(t, "send", Idle)
    /\ call[t].q \in ptr.used
    /\ Snd(ptr, call[t].q, call[t].node, call[t].msg)
    /\ UNCHANGED word
Send_Fail(t) ==
    /\ Step(t, "send", IF call[t].try THEN [at |-> "back", node |-> call[t].node] ELSE Idle)
    /\ call[t].q \notin ptr.used
    /\ UNCHANGED <<ptr, word, sent>>
Back(t) ==
    /\ Step(t, "back", Idle)
    /\ ptr' = List_Ins(ptr, call[t].node, Pool, First)
    /\ UNCHANGED <<word, sent>>

\* sys_mbox_trypost_fromisr: an interrupt.  It too gives the node back.
Sys_Mbox_Trypost_Fromisr(q, m) ==
    /\ Room(q)
    /\ word' = [word EXCEPT ![First] = m]
    /\ \/ q \in ptr.used /\ Snd(Take, q, First, m)
       \/ /\ q \notin ptr.used
          /\ ptr' = List_Ins(Take, First, Pool, Take.next[Pool])
          /\ UNCHANGED sent
    /\ UNCHANGED call

\* sys_arch_mbox_fetch: waits for a message, with or without a timeout.
Sys_Arch_Mbox_Fetch(t, q) ==
    /\ Step(t, "idle", [at |-> "wait", q |-> q])
    /\ UNCHANGED <<ptr, word, sent>>
Fetch_Fail(t) == Step(t, "wait", Idle) /\ UNCHANGED <<ptr, word, sent>>
Fetch_Node(t) ==
    LET q == call[t].q
    IN  /\ call[t].at = "wait" /\ Readable(ptr, q) /\ sent[q] # <<>>
        /\ Step(t, "wait", [at |-> "read", node |-> ptr.next[q], posted |-> Head(sent[q])])
        /\ ptr' = Read_Fifo(ptr, q)
        /\ sent' = [sent EXCEPT ![q] = Tail(@)]
        /\ UNCHANGED word
Fetch_Msg(t) ==
    /\ Step(t, "read", [at |-> "clear", node |-> call[t].node, posted |-> call[t].posted,
                        msg |-> word[call[t].node]])
    /\ UNCHANGED <<ptr, word, sent>>
Fetch_Clear(t) ==
    /\ Step(t, "clear", [at |-> "insert", node |-> call[t].node])
    /\ word' = [word EXCEPT ![call[t].node] = NULL]
    /\ UNCHANGED <<ptr, sent>>
\* RMP_List_Ins(Head,&Msg_List,Msg_List.Next), outside the lock: the argument
\* is read, and then come the four writes of List_Ins.
Fetch_Next(t) ==
    /\ Step(t, "insert", [at |-> "next_prev", node |-> call[t].node, nxt |-> First])
    /\ UNCHANGED <<ptr, word, sent>>
Fetch_Insert(t) ==
    LET n == call[t].node
        To(place) == [call[t] EXCEPT !.at = place]
    IN  /\ \/ /\ Step(t, "next_prev", To("new_next"))
              /\ ptr' = [ptr EXCEPT !.prev[call[t].nxt] = n]
           \/ /\ Step(t, "new_next", To("new_prev"))
              /\ ptr' = [ptr EXCEPT !.next[n] = call[t].nxt]
           \/ /\ Step(t, "new_prev", To("prev_next"))
              /\ ptr' = [ptr EXCEPT !.prev[n] = Pool]
           \/ /\ Step(t, "prev_next", Idle)
              /\ ptr' = [ptr EXCEPT !.next[Pool] = n]
        /\ UNCHANGED <<word, sent>>

\* sys_mbox_free of an empty mailbox; those that wait for it fail.
Sys_Mbox_Free(t, q) ==
    /\ Step(t, "idle", Idle)
    /\ q \in ptr.used /\ ptr.num[q] = 0
    /\ ptr' = Del_Fifo(ptr, q)
    /\ UNCHANGED <<word, sent>>

Next ==
    \/ \E q \in Mbox, m \in Msg : Sys_Mbox_Trypost_Fromisr(q, m)
    \/ \E t \in Thread :
          \/ \E q \in Mbox : \/ \E m \in Msg, try \in BOOLEAN : Sys_Mbox_Post(t, q, m, try)
                             \/ Sys_Arch_Mbox_Fetch(t, q) \/ Sys_Mbox_Free(t, q)
          \/ Fill(t) \/ Send(t) \/ Send_Fail(t) \/ Back(t)
          \/ Fetch_Fail(t) \/ Fetch_Node(t) \/ Fetch_Msg(t) \/ Fetch_Clear(t)
          \/ Fetch_Next(t) \/ Fetch_Insert(t)
Spec == Init /\ [][Next]_vars

----------------------------------------------------------------------------
\* A message that sys_mbox_trypost accepted ("ERR_OK if the msg is posted") is
\* the one a fetch receives in its turn, whichever threads and interrupts
\* post and fetch at the same time: nobody else gets its node meanwhile.
Received == \A t \in Thread : call[t].at = "clear" => call[t].msg = call[t].posted
============================================================================
