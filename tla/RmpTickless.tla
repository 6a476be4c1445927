---------------------------- MODULE RmpTickless ----------------------------
(***************************************************************************)
(* The tickless kernel: no periodic tick, but a hardware timer that is     *)
(* programmed for the next moment something has to happen (_RMP_Tim_Elapse,*)
(* _RMP_Tim_Future, _RMP_Tim_Idle of rmp_kernel.c), with the hooks and the *)
(* timer of src/Include/Test/Chip/rmp_test_msp430g2553.h, the port of the  *)
(* repository that runs so.  RMP_Timestamp then moves in bumps: by the     *)
(* handler, by every context switch and by every delay.  Real time is a    *)
(* step of its own, Pass.                                                  *)
(***************************************************************************)
EXTENDS RmpSem

\* Bound: how far the timestamp is carried past a timer before the handler
\* gets the processor.  Further, and the timer would seem to be still to come.
CONSTANT LagMax
ASSUME TicklessAssumption == LagMax \in Nat /\ 2 * (LagMax + SliceMax) <= W

VARIABLES
    tim,    \* the timer, of type Timer
    sleep,  \* the initial thread: "no" (awake), "to LPM3" or "to LPM4" (it has
            \* decided to sleep, interrupts masked), "LPM3" or "LPM4" (asleep)
    span    \* for each thread [age |-> slices that have really passed since
            \* its last timed wait began, asked |-> its timeout]

tvars == <<tim, sleep, span>>

\* The timer: on is its clock and its interrupt enable, last the value it was
\* programmed with (TA0CCR0, Slice_Last), at its counter (TA0R), ifg its
\* interrupt flag (CCIFG).
Timer == [on : BOOLEAN, last : Word, at : Word, ifg : BOOLEAN]

\* Mutant: what the timer was programmed with, not what it has counted.
Tim_Get_Last == tim.last

\* RMP_MSP430_Tim_Off, RMP_MSP430_Tim_Set and RMP_MSP430_Tim_Get
Tim_Off == [on |-> FALSE, last |-> 0, at |-> 0, ifg |-> FALSE]
Tim_Set(n) == [on |-> TRUE, last |-> n, at |-> 0, ifg |-> n = 0]
Tim_Get == IF tim.ifg THEN tim.last ELSE tim.at

\* _RMP_Tim_Elapse
Tim_Elapse(s, n) == [s EXCEPT !.now = (@ + n) % W]

\* Mutant: the slice of the current thread is forgotten.
Tim_Future_Delay(s) ==
    IF s.delay = <<>> THEN s.left[s.cur]
    ELSE IF Overflown(s, Head(s.delay)) THEN 1 ELSE Diff(s, Head(s.delay))

\* _RMP_Tim_Future: until the end of the current thread's slice or the first
\* timeout, whichever comes first.
Tim_Future(s) ==
    IF s.delay = <<>> THEN s.left[s.cur]
    ELSE IF Overflown(s, Head(s.delay)) THEN 1
    ELSE Min({Diff(s, Head(s.delay)), s.left[s.cur]})

\* _RMP_Tim_Idle: the lowest level holds the initial thread only, and no
\* timer is pending.
Tim_Idle == k.run[0] = <<Idle>> /\ k.delay = <<>>

TicklessInit ==
    /\ Init
    /\ tim = Tim_Off /\ sleep = "no"
    /\ span = [t \in Thd |-> [age |-> 0, asked |-> 0]]

----------------------------------------------------------------------------
(* Hardware.                                                               *)

\* A slice of real time passes.  The timer counts up to its programmed value,
\* raises the flag and starts again; in LPM4 its clock is off.
Pass ==
    /\ k.panic = 0
    /\ span' = [t \in Thd |-> [span[t] EXCEPT !.age = Min({@ + 1, SliceMax})]]
    /\ tim' = IF ~tim.on \/ sleep = "LPM4" THEN tim
              ELSE [tim EXCEPT !.at = IF @ = tim.last THEN 0 ELSE @ + 1,
                               !.ifg = @ \/ tim.at + 1 = tim.last]
    /\ UNCHANGED <<vars, sleep>>

Deciding == {"to LPM3", "to LPM4"}

\* Mutant: interrupts are not masked while the initial thread falls asleep.
Int_Load_Unmasked == sleep' = IF sleep \in Deciding THEN sleep ELSE "no"

\* An interrupt that calls the kernel.  It is not taken while they are masked,
\* and RMP_MSP430_INT_LOAD_NONE, its exit, clears the low-power bits of the
\* status it returns to: whoever slept is awake.
Int_Load == sleep \notin Deciding /\ sleep' = "no"

\* _RMP_MSP430_Tickless_Handler with _RMP_Tim_Handler and RMP_Tim_Hook, which
\* leaves the timer off if a context switch will program it.
Timer_Handler ==
    /\ Interrupt
    /\ tim.on /\ tim.ifg
    /\ LET s == Tim_Handler(k, tim.last)
       IN  /\ k' = Leave(s)
           /\ tim' = IF s.pend = 1 THEN Tim_Off ELSE Tim_Set(Tim_Future(s))
    /\ Int_Load
    /\ UNCHANGED <<rcv, got, span>>

----------------------------------------------------------------------------
(* The kernel with its hooks.                                              *)

\* The context switch, which ends with RMP_Sched_Hook.
Switch_Hook ==
    /\ Interrupt
    /\ k.soft = 1
    /\ LET s == Tim_Elapse(Run_High(k), Tim_Get)
       IN  k' = s /\ tim' = Tim_Set(Tim_Future(s))
    /\ Int_Load
    /\ UNCHANGED <<rcv, got, span>>

\* The current thread runs: it is awake.
Awake(A) == sleep = "no" /\ A /\ UNCHANGED tvars

\* An interrupt that leaves the timer alone.
Rousing(A) == A /\ Int_Load /\ UNCHANGED <<tim, span>>

\* RMP_Dly_Hook at the beginning of _RMP_Dly_Ins: the memory with the
\* timestamp brought up to date, and then the timer off.
Stamp == Tim_Elapse(k, Tim_Get)
Dly_Hook(n) ==
    /\ sleep = "no"
    /\ tim' = Tim_Off
    /\ span' = [span EXCEPT ![k.cur] = [age |-> 0, asked |-> n]]
    /\ UNCHANGED sleep

\* RMP_Thd_Delay
Delay(n) ==
    /\ MayBlock
    /\ n # 0 /\ n < SliceMax
    /\ k' = Leave(Block(Stamp, n, "DELAYED", "DELAYED"))
    /\ Dly_Hook(n)
    /\ UNCHANGED <<rcv, got>>

\* RMP_Sem_Pend with a timeout when the semaphore is not free; any other is
\* Sem_Pend.
Pend(x, n) ==
    /\ MayBlock
    /\ x \in k.used
    /\ k.num[x] = 0 /\ n # 0 /\ n < SliceMax
    /\ k' = Pend_Core(Stamp, x, n)
    /\ Dly_Hook(n)
    /\ UNCHANGED <<rcv, got>>

\* RMP_Init_Idle, which RMP_Init calls again and again: the initial thread
\* masks interrupts and looks which clocks it can do without.
Init_Idle ==
    /\ User
    /\ k.cur = Idle /\ k.lock = 0
    /\ sleep = "no"
    /\ sleep' = IF Tim_Idle THEN "to LPM4" ELSE "to LPM3"
    /\ UNCHANGED <<vars, tim, span>>

\* Its end: the low-power bits and the interrupt enable are set at once.
Fall_Asleep ==
    /\ k.panic = 0
    /\ sleep \in Deciding
    /\ sleep' = IF sleep = "to LPM4" THEN "LPM4" ELSE "LPM3"
    /\ UNCHANGED <<vars, tim, span>>

\* The same at the end of RMP_Sem_Pend_Unlock, which releases the caller's lock.
Pend_Unlock(x, n) ==
    /\ User
    /\ k.lock = 1 /\ k.cur # Idle
    /\ x \in k.used
    /\ k.num[x] = 0 /\ n # 0 /\ n < SliceMax
    /\ k' = Pend_Core([Stamp EXCEPT !.lock = 0], x, n)
    /\ Dly_Hook(n)
    /\ UNCHANGED <<rcv, got>>

Timing ==
    \/ Pass \/ Timer_Handler \/ Switch_Hook \/ Init_Idle \/ Fall_Asleep
    \/ \E n \in Waits : \/ Delay(n)
                        \/ \E x \in Sem : Pend(x, n) \/ Pend_Unlock(x, n)

\* The calls that start no timer, and the interrupts.
Untimed(x, n) ==
    n = 0 \/ n >= SliceMax \/ x \notin k.used \/ k.num[x] # 0 \/ k.lock > 1

Calls ==
    \/ Sched_Lock \/ Sched_Unlock \/ Yield
    \/ \E t \in Thd : \/ Thd_Del(t) \/ Thd_Suspend(t) \/ Thd_Resume(t)
                      \/ Thd_Cancel(t) \/ Sem_Abort(t)
    \/ \E t \in Thd, p \in Prio, n \in Slices : Thd_Crt(t, p, n)
    \/ \E t \in Thd, p \in 0..PrioNum, n \in Slices : Thd_Set(t, p, n)
    \/ \E x \in Sem : Sem_Del(x) \/ Sem_Bcst(x)
    \/ \E x \in Sem, n \in Posts : Sem_Crt(x, n) \/ Sem_Post(x, n)
    \/ \E x \in Sem, n \in Waits :
          Untimed(x, n) /\ (Sem_Pend(x, n) \/ Sem_Pend_Unlock(x, n))

Signals ==
    \E x \in Sem : Sem_Bcst_ISR(x) \/ \E n \in Posts : Sem_Post_ISR(x, n)

TicklessNext == Timing \/ Awake(Calls) \/ Rousing(Signals)
TicklessSpec == TicklessInit /\ [][TicklessNext]_<<vars, tvars>>

----------------------------------------------------------------------------
(* What makes the tickless kernel correct.                                 *)

Settled == k.pend = 0 /\ k.soft = 0

\* Unless a context switch is on its way, which will program the timer, it
\* runs and ends no later than the first timeout (one slice late if that is
\* due already) and than the slice of a thread other than the initial one,
\* although switches, delays and wake-ups reprogram it in any order.
TimerCovers ==
    Settled =>
      /\ k.delay # <<>> =>
            /\ tim.on /\ sleep # "LPM4"
            /\ tim.last <= IF Overflown(k, Head(k.delay)) THEN 1
                           ELSE Diff(k, Head(k.delay))
      /\ k.cur # Idle => tim.on /\ tim.last <= k.left[k.cur]

\* How many slices ago timer t was due; negative if that is still to come.
Lag(s, t) == IF Overflown(s, t) THEN (s.now - s.timeout[t]) % W ELSE -Diff(s, t)

\* The timer interrupt comes before the clock is carried further past a timer
\* than LagMax, by switches and delays of threads that keep the processor.
Punctual == \A t \in ToSet(k.delay) : Lag(k, t) <= LagMax

\* The bumps of the timestamp outside the tick handler can carry it past
\* timers that the handler has not seen.  The delay list stays sorted by
\* timeout all the same, whatever is inserted behind overflown timers, so
\* that the handler, which stops at the first timer to come, misses none.
DelaySorted ==
    \A m, n \in DOMAIN k.delay :
       m < n => Lag(k, k.delay[m]) >= Lag(k, k.delay[n])

\* All clocks are off only if there is nothing to time: no timer is pending,
\* no context switch is on its way, and no other thread is ready, not even one
\* of level 0 that waits for its turn; whatever interrupts do around the
\* decision to sleep.
IdleSafe ==
    sleep = "LPM4" =>
      /\ k.delay = <<>> /\ Settled
      /\ \A p \in Prio : k.run[p] = IF p = 0 THEN <<Idle>> ELSE <<>>

\* A wait with a timeout does not end by timeout before that many slices have
\* really passed, wherever in between the timestamp was brought up to date.
NotEarly ==
    [][\A t \in Thd :
          Timer_Handler /\ k.state[t] \in Timed /\ k'.state[t] = "RUNNING" =>
             span[t].age >= span[t].asked]_<<vars, tvars>>
============================================================================
