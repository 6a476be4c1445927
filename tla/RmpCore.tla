------------------------------ MODULE RmpCore ------------------------------
(***************************************************************************)
(* The scheduler core of the RMP kernel: the memory the scheduler lock     *)
(* protects, the static helpers every system call is built from, and the   *)
(* actions of the scheduler itself (lock, unlock, yield, context switch,   *)
(* tick).  Source: src/Source/Kernel/rmp_kernel.c.                         *)
(*                                                                         *)
(* The kernel has a single lock, which masks all kernel-aware interrupts,  *)
(* so one critical section is one step.  The state it protects is a single *)
(* record k, and each helper _RMP_Xxx of the source is an operator from    *)
(* such a record to the next one; a system call composes them in the order *)
(* the code calls them.  A list of the kernel is the sequence of the       *)
(* threads on it.  A call that is refused changes nothing and is a         *)
(* stuttering step.                                                        *)
(***************************************************************************)
EXTENDS Integers, SequencesExt

CONSTANTS
    Thd,        \* thread control blocks, used or free
    Idle,       \* the initial thread, RMP_Init_Thd
    Sem,        \* semaphore control blocks
    Mail,       \* the words a mailbox can hold
    PrioNum,    \* RMP_PREEMPT_PRIO_NUM
    SliceMax,   \* RMP_SLICE_MAX
    SemMax,     \* RMP_SEM_CNT_MAX
    W,          \* 2 to the width of rmp_ptr_t: all arithmetic is modulo W
    Slices,     \* bound: timeslices given to Thd_Crt and Thd_Set
    Waits,      \* bound: timeouts given to the blocking calls
    IdleSlice,  \* timeslices of the initial thread (65500 in main)
    Ticks,      \* bound: slices that pass between two timer interrupts
    LockMax     \* bound: nesting depth of RMP_Sched_Lock

Prio == 0..(PrioNum - 1)
Word == 0..(W - 1)

ASSUME CoreAssumption ==
    /\ Idle \in Thd
    /\ Mail # {}
    /\ PrioNum \in Nat \ {0}
    /\ W \in Nat \ {0}
    /\ SliceMax \in Nat /\ 2 * SliceMax <= W
    /\ SemMax \in Word
    /\ IdleSlice \in Word \ {0}
    /\ Slices \subseteq Word
    /\ Waits \subseteq Word
    /\ Ticks \subseteq Word \ {0}
    /\ LockMax \in Nat \ {0}

\* RMP_THD_STATE: the low bits of Thread->State.  The flags SUSPENDED and
\* MBOXFUL, kept in the same word, are the sets k.susp and k.full.
Sending == {"SNDBLK", "SNDDLY"}
Pending == {"SEMBLK", "SEMDLY"}
Timed   == {"SNDDLY", "RCVDLY", "SEMDLY", "DELAYED"}
Blocked == Sending \cup Pending \cup {"RCVBLK", "RCVDLY", "DELAYED"}
ThdState == {"FREE", "RUNNING"} \cup Blocked

Kernel ==
    [state   : [Thd -> ThdState],   \* RMP_THD_STATE(Thread->State)
     susp    : SUBSET Thd,          \* RMP_THD_SUSPENDED is set
     full    : SUBSET Thd,          \* RMP_THD_MBOXFUL is set
     prio    : [Thd -> Prio],
     slice   : [Thd -> Word],
     left    : [Thd -> Word],       \* Slice_Left
     timeout : [Thd -> Word],
     mailbox : [Thd -> Mail],
     retval  : [Thd -> {"ok", "err"}],  \* 0, or RMP_ERR_OPER
     snd     : [Thd -> Seq(Thd)],   \* Snd_List
     run     : [Prio -> Seq(Thd)],  \* RMP_Run
     bitmap  : SUBSET Prio,         \* RMP_Bitmap
     delay   : Seq(Thd),            \* RMP_Delay
     now     : Word,                \* RMP_Timestamp
     cur     : Thd,                 \* RMP_Thd_Cur
     lock    : 0..LockMax,          \* RMP_Sched_Lock_Cnt
     pend    : {0, 1},              \* RMP_Sched_Pend
     soft    : {0, 1},              \* a context switch interrupt is pending
     panic   : {0, 1},              \* an RMP_ASSERT failed: the system halts
     used    : SUBSET Sem,          \* semaphores in state RMP_SEM_USED
     num     : [Sem -> Word],       \* Cur_Num
     wait    : [Sem -> Seq(Thd)]]   \* Wait_List

----------------------------------------------------------------------------
(* Helpers of the source, in the order they are needed.                    *)

\* Mutant: a thread that becomes ready never preempts.
Run_Ins_Quiet(s, t) ==
    IF t \in s.susp THEN s
    ELSE [s EXCEPT !.run[s.prio[t]] = Append(@, t),
                   !.bitmap = @ \cup {s.prio[t]}]

\* _RMP_Run_Ins: a suspended thread stays out of the run queues.
Run_Ins(s, t) ==
    IF t \in s.susp THEN s
    ELSE [s EXCEPT !.run[s.prio[t]] = Append(@, t),
                   !.bitmap = @ \cup {s.prio[t]},
                   !.pend = IF s.prio[t] > s.prio[s.cur] THEN 1 ELSE @]

\* Mutant: the current thread leaves its queue and no switch is pended.
Run_Del_Quiet(s, t) ==
    IF t \in s.susp THEN s
    ELSE [s EXCEPT !.run[s.prio[t]] = RemoveFirst(@, t),
                   !.bitmap = IF s.run[s.prio[t]] = <<t>>
                              THEN @ \ {s.prio[t]} ELSE @]

\* _RMP_Run_Del: the last thread of a level clears the level's bit.
Run_Del(s, t) ==
    IF t \in s.susp THEN s
    ELSE [s EXCEPT !.run[s.prio[t]] = RemoveFirst(@, t),
                   !.bitmap = IF s.run[s.prio[t]] = <<t>>
                              THEN @ \ {s.prio[t]} ELSE @,
                   !.pend = IF t = s.cur THEN 1 ELSE @]

\* RMP_DLY_DIFF: slices until t's timeout, modulo W.
Diff(s, t) == (s.timeout[t] - s.now) % W

\* Mutant: a timeout counts only in the very slice in which it is due.
Overflown_Exact(s, t) == Diff(s, t) = 0

\* RMP_DIFF_OVF: zero or more than half the range means that the timeout has
\* passed.
Overflown(s, t) == Diff(s, t) = 0 \/ Diff(s, t) > (W - 1) \div 2

\* Mutant: timers are appended to the delay list.
Dly_Ins_Tail(s, t, n) ==
    [s EXCEPT !.timeout[t] = (s.now + n) % W, !.delay = Append(@, t)]

\* _RMP_Dly_Ins: before the first timer that is neither overflown nor
\* earlier than ours.
Dly_Ins(s, t, n) ==
    LET later == {i \in DOMAIN s.delay :
                     ~Overflown(s, s.delay[i]) /\ Diff(s, s.delay[i]) >= n}
        place == IF later = {} THEN Len(s.delay) + 1 ELSE Min(later)
    IN  [s EXCEPT !.timeout[t] = (s.now + n) % W,
                  !.delay = InsertAt(@, place, t)]

\* Mutants: a thread that stops waiting leaves its timer, or its place on a
\* sender list, behind.
Unlink_Timer(s, t) ==
    [s EXCEPT
        !.snd = IF s.state[t] \in Sending
                THEN [r \in Thd |-> RemoveFirst(@[r], t)] ELSE @,
        !.wait = IF s.state[t] \in Pending
                 THEN [x \in Sem |-> RemoveFirst(@[x], t)] ELSE @]
Unlink_Sender(s, t) ==
    [s EXCEPT
        !.wait = IF s.state[t] \in Pending
                 THEN [x \in Sem |-> RemoveFirst(@[x], t)] ELSE @,
        !.delay = IF s.state[t] \in Timed THEN RemoveFirst(@, t) ELSE @]

\* RMP_List_Del of Run_Head or Dly_Head of a blocked thread: from whichever
\* wait list, and from the delay list, if its state says it is on one.
Unlink(s, t) ==
    [s EXCEPT
        !.snd = IF s.state[t] \in Sending
                THEN [r \in Thd |-> RemoveFirst(@[r], t)] ELSE @,
        !.wait = IF s.state[t] \in Pending
                 THEN [x \in Sem |-> RemoveFirst(@[x], t)] ELSE @,
        !.delay = IF s.state[t] \in Timed THEN RemoveFirst(@, t) ELSE @]

\* What every waker does to a blocked thread: unlink, RUNNING, _RMP_Run_Ins.
Wake(s, t) == Run_Ins([Unlink(s, t) EXCEPT !.state[t] = "RUNNING"], t)

\* The waking loops: one Wake for each thread of ts, in that order.
WakeAll(s, ts) ==
    LET done[i \in 0..Len(ts)] ==
            IF i = 0 THEN s ELSE Wake(done[i - 1], ts[i])
    IN  done[Len(ts)]

SetRetval(s, T, r) ==
    [s EXCEPT !.retval = [t \in Thd |-> IF t \in T THEN r ELSE @[t]]]

\* The blocking half of a call made by the current thread, with a timeout
\* of n slices (none if n >= RMP_SLICE_MAX).
Block(s, n, forever, timed) ==
    LET off == Run_Del([s EXCEPT !.retval[s.cur] = "ok"], s.cur)
    IN  IF n < SliceMax
        THEN [Dly_Ins(off, s.cur, n) EXCEPT !.state[s.cur] = timed]
        ELSE [off EXCEPT !.state[s.cur] = forever]

\* The end of a critical section: RMP_Sched_Unlock of the outermost level,
\* or the end of an interrupt handler, requests the pended switch.
Leave(s) ==
    IF s.lock = 0 /\ s.pend = 1 THEN [s EXCEPT !.soft = 1] ELSE s

----------------------------------------------------------------------------
(* The timer and the context switch.                                       *)

\* The threads _RMP_Tim_Proc wakes: it stops at the first timer that is
\* not overflown.
Expired(s) ==
    LET alive == {i \in DOMAIN s.delay : ~Overflown(s, s.delay[i])}
    IN  SubSeq(s.delay, 1, IF alive = {} THEN Len(s.delay) ELSE Min(alive) - 1)

\* _RMP_Tim_Proc: a timed-out call fails, a plain delay does not.
Tim_Proc(s) ==
    SetRetval(WakeAll(s, Expired(s)),
              {t \in ToSet(Expired(s)) : s.state[t] # "DELAYED"}, "err")

\* Mutant: an expired slice ends the handler before it looks at the timers.
Tim_Handler_Early(s, n) ==
    LET t == [s EXCEPT !.now = (@ + n) % W,
                       !.left[s.cur] = IF n >= @ THEN @ ELSE @ - n]
    IN  IF n >= s.left[s.cur] THEN [t EXCEPT !.pend = 1] ELSE Tim_Proc(t)

\* _RMP_Tim_Handler, without its exit.
Tim_Handler(s, n) ==
    Tim_Proc([s EXCEPT
        !.now = (@ + n) % W,
        !.pend = IF n >= s.left[s.cur] THEN 1 ELSE @,
        !.left[s.cur] = IF n >= @ THEN @ ELSE @ - n])

\* Mutant: the lowest level that is ready runs.
Run_High_Lowest(s) ==
    LET p == Min(s.bitmap)
        q == IF s.cur = Head(s.run[p])
             THEN Append(Tail(s.run[p]), s.cur) ELSE s.run[p]
    IN  [s EXCEPT !.pend = 0, !.soft = 0, !.run[p] = q,
                  !.left[s.cur] = s.slice[s.cur], !.cur = Head(q)]

\* _RMP_Run_High: the head of the highest level, after moving the current
\* thread to the tail if that is where it is.
Run_High(s) ==
    LET p == Max(s.bitmap)
        q == IF s.cur = Head(s.run[p])
             THEN Append(Tail(s.run[p]), s.cur) ELSE s.run[p]
    IN  [s EXCEPT !.pend = 0, !.soft = 0, !.run[p] = q,
                  !.left[s.cur] = s.slice[s.cur], !.cur = Head(q)]

----------------------------------------------------------------------------
VARIABLES
    k,      \* the kernel's memory, of type Kernel
    rcv,    \* the threads between the two critical sections of RMP_Thd_Rcv
    got     \* the mail RMP_Thd_Rcv took out last: <<receiver, data>>

vars == <<k, rcv, got>>

\* The memory main leaves behind, in RMP_Init, which holds the lock.
BootMail == CHOOSE m \in Mail : TRUE
Boot ==
    [state |-> [t \in Thd |-> IF t = Idle THEN "RUNNING" ELSE "FREE"],
     susp |-> {}, full |-> {},
     prio |-> [t \in Thd |-> 0],
     slice |-> [t \in Thd |-> IF t = Idle THEN IdleSlice ELSE 0],
     left |-> [t \in Thd |-> IF t = Idle THEN IdleSlice ELSE 0],
     timeout |-> [t \in Thd |-> 0],
     mailbox |-> [t \in Thd |-> BootMail],
     retval |-> [t \in Thd |-> "ok"],
     snd |-> [t \in Thd |-> <<>>],
     run |-> [p \in Prio |-> IF p = 0 THEN <<Idle>> ELSE <<>>],
     bitmap |-> {0}, delay |-> <<>>, now |-> 0,
     cur |-> Idle, lock |-> 1, pend |-> 0, soft |-> 0, panic |-> 0,
     used |-> {}, num |-> [x \in Sem |-> 0], wait |-> [x \in Sem |-> <<>>]]

Init == k = Boot /\ rcv = {} /\ got = <<>>

\* The current thread runs code of its own, not kernel code: no switch is
\* pending (it would be taken first) and no call is in progress.
User == k.panic = 0 /\ k.soft = 0 /\ k.cur \notin rcv

\* Interrupts that call the kernel are taken when the lock is free, also
\* between a request for a context switch and the switch.
Interrupt == k.panic = 0 /\ k.lock = 0

\* RMP_Sched_Lock
Sched_Lock ==
    /\ User
    /\ k.lock < LockMax
    /\ k' = [k EXCEPT !.lock = @ + 1]
    /\ UNCHANGED <<rcv, got>>

\* Mutant: a scheduler that is not locked is unlocked.
Sched_Unlock_Always ==
    /\ User
    /\ k' = Leave([k EXCEPT !.lock = @ - 1])
    /\ UNCHANGED <<rcv, got>>

\* RMP_Sched_Unlock
Sched_Unlock ==
    /\ User
    /\ k.lock > 0
    /\ k' = Leave([k EXCEPT !.lock = @ - 1])
    /\ UNCHANGED <<rcv, got>>

\* RMP_Yield
Yield ==
    /\ User
    /\ k' = IF k.lock = 0 THEN [k EXCEPT !.soft = 1]
                          ELSE [k EXCEPT !.pend = 1]
    /\ UNCHANGED <<rcv, got>>

\* The context switch handler.
Switch ==
    /\ Interrupt
    /\ k.soft = 1
    /\ k' = Run_High(k)
    /\ UNCHANGED <<rcv, got>>

\* The timer interrupt.
Tick(n) ==
    /\ Interrupt
    /\ k' = Leave(Tim_Handler(k, n))
    /\ UNCHANGED <<rcv, got>>

\* After a failed assertion the system spins with interrupts masked.
Halt == k.panic = 1 /\ UNCHANGED vars

CoreNext ==
    \/ Sched_Lock
    \/ Sched_Unlock
    \/ Yield
    \/ Switch
    \/ \E n \in Ticks : Tick(n)
    \/ Halt
============================================================================
