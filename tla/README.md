# RMP kernel: specification, model checking and proofs

This directory models the kernel of RMP, a real-time operating system for
microcontrollers whose kernel is one file, `src/Source/Kernel/rmp_kernel.c`, and
one header, `src/Include/Kernel/rmp_kernel.h`. Every name below that starts with
`RMP_` is a function, macro or variable of those files.

## The system

| Component | State it keeps | Operations | What makes it correct |
|---|---|---|---|
| Scheduler core | run queues `RMP_Run`, `RMP_Bitmap`, `RMP_Thd_Cur`, lock count, pend flag | lock, unlock, yield, `_RMP_Run_High` | queues and bitmap hold exactly the ready threads; the highest level runs; no pended switch is forgotten |
| Timer | `RMP_Timestamp`, delay list, slices left | `_RMP_Tim_Handler`, `_RMP_Dly_Ins` | waits end exactly on time, also when the clock wraps |
| Tickless support | the timer's counter and programmed value, the sleep mode | `_RMP_Tim_Elapse`, `_Future`, `_Idle`, the hooks of the MSP430G2553 | the timer comes before the next timeout, no wait ends early in real time, clocks stop only when nothing is to be timed |
| Threads | one control block each | `RMP_Thd_Crt`, `_Del`, `_Set`, `_Suspend`, `_Resume`, `_Delay`, `_Cancel` | a control block is on the lists its state names and on no other |
| Mailboxes | one word, a full flag, a list of blocked senders per thread | `RMP_Thd_Snd`, `_Snd_ISR`, `_Rcv` | mails arrive unchanged, in order, once |
| Semaphores | count, list of waiting threads | `RMP_Sem_Crt`, `_Del`, `_Post`, `_Bcst` (both also `_ISR`), `_Pend`, `_Pend_Unlock`, `_Abort` | no post is lost, nobody waits beside a positive count, first come first served |
| FIFOs, message queues, blocking queues | node list and count, plus one or two semaphores | `RMP_Fifo_*`, `RMP_Msgq_*`, `RMP_Bmq_*` | items and slots are neither lost nor invented across several critical sections |
| Memory | two-level free lists with bitmaps in the pool | `RMP_Mem_Init`, `RMP_Malloc`, `RMP_Free`, `RMP_Realloc` | blocks tile the pool, are never handed out twice, and merge |
| Library | none | list primitives, bit scans and reversal, CRC, debug printing | lists stay rings; the functions compute what their names say |
| Graphics | the display, through `RMP_POINT` | lines, circles, matrices, widgets | pictures without holes or traces |
| Ports | registers, stacks, interrupt flag, `*_Yield_Pend` | `_RMP_Stack_Init`, `_RMP_Yield`, the pended switch, interrupt entry and exit | a thread comes back to its own registers, no request to switch is lost |
| lwIP glue | pool of mailbox nodes `Msg_List` | `sys_mbox_*`, `sys_arch_mbox_fetch` | an accepted message is the one received |
| Hooks, tests, projects | none of the kernel's | user callbacks, benchmarks, build files | not modelled |

How they interact. A system call runs between `RMP_Sched_Lock`, which masks the
interrupts that may call the kernel, and `RMP_Sched_Unlock`, which requests a
context switch if one was pended. Interrupt handlers (the tick, and user handlers
that send or post) touch the same memory without a lock, because they run only
while the lock is free. The switch itself is an interrupt that is taken later, so
other interrupts come between the request and the switch. Threads, mailboxes and
semaphores meet in the control block: one list node (`Run_Head`) links a thread
into a run queue, a sender list or a semaphore's list, another (`Dly_Head`) into
the delay list, and one word holds both the state and two flags.

What is hard: a blocked thread can be ended by a post or a mail, a timeout, a
cancel or abort, a deletion of the thread or of the object, while it is suspended
or not, at any moment; `RMP_Thd_Rcv` has two critical sections with arbitrary
steps between; timestamps wrap; switches are requested and taken at different
moments. A call of a queue is several critical sections with nothing held between
them. Without a periodic tick the clock moves in bumps. A register saved in one
way may be loaded in another. `PROJECT.json` lists these hazards at their lines.

## Modules

| Module | Models |
|---|---|
| `RmpCore` | the kernel's memory as one record `k`, the static helpers as operators from record to record, and the scheduler's actions: lock, unlock, yield, switch, tick |
| `RmpThread` | the thread calls |
| `RmpMail` | the mailbox calls |
| `RmpSem` | the semaphore calls |
| `RmpKernel` | threads, mailboxes and semaphores together, and their properties |
| `AbsMail` | what the mailboxes promise: a queue of mails per thread |
| `RmpList` | doubly linked lists and FIFOs as the pointers the code writes |
| `AbsFifo` | what the FIFOs promise: nodes are read in the order in which they were written |
| `RmpQueue` | FIFOs, message queues and blocking message queues, over `RmpSem` and `RmpList` |
| `RmpTickless` | the tickless kernel over `RmpSem`, with the timer and hooks of the MSP430G2553 and real time as a step of its own |
| `RmpMem` | the allocator |
| `RmpLib` | bit scans, bit reversal, CRC16, printing |
| `RmpDraw` | drawing primitives and widgets on a map of pixels |
| `RmpContext` | the context switch of the ports: one state machine, each port as data (its frames, its order of pushes and pops, its way to request a switch) |
| `RmpLwip` | the mailboxes of the lwIP glue, over `RmpList`, with one step for each access of shared memory outside the lock |
| `MCThread`, `MCMail`, `MCSem`, `MCLive`, `MCQueue`, `MCTickless`, `MCLib`, `MCContext`, `MCLwip` | instances for TLC |
| `RmpListProofs` | lemmas: insertion and removal in sequences, the least number principle |
| `RmpCoreProofs` | lemmas: what the helpers do to run queues, delay list and wait lists, that waking one or all threads of a list keeps every list exact; blocking, rotation, the context switch, the timer, the end of a critical section |
| `RmpKernelProofs` | the inductive invariant of the kernel: lists, queues, bitmap, switch; what the wait lists mean: full mailboxes, counts of zero, receivers; the order in which a semaphore is granted, and the conservation of its count |
| `RmpMailProofs` | the mailboxes implement `AbsMail` |
| `RmpTicklessProofs` | the order of the delay list, and timeouts exactly on time; the tickless kernel: order under bumps of the clock, the timer, LPM4, real time |
| `RmpQueueProofs` | the queues: lists as rings of pointers, grants, items, slots, limits; the FIFOs implement `AbsFifo` |
| `RmpMemProofs` | the allocator: size classes, the search, cutting and joining blocks, the free lists |
| `RmpContextProofs` | the context switch: frames, saving and loading, registers, interrupt flags, requests |

One critical section is one action, since nothing that touches the kernel's
memory can run inside it. `User` (a thread runs code of its own) and `Interrupt`
(the lock is free) say who may act; `k.soft` is the pending context switch
interrupt. A port whose `_RMP_Yield` switches at once is the special case in
which `Switch` follows immediately. A list is the sequence of its threads.
Operators that end in a name like `_Quiet` or `_Lifo` and are commented as
mutants are deliberate errors: nothing uses them; each shows, when it replaces
the definition below it, that a property notices.

In `RmpQueue`, `call[t]` says which critical section thread `t` has to do next, and
a call may find its queue deleted, or deleted and created again; the history field
`fresh` remembers that. Deletion of a thread in a call ends the call where it is.
A node is given to a send only while it is on no list (the caller's obligation).
`QueueSpec` has the queues among all other calls of the kernel but those on mailboxes;
`MCSpec` of `MCQueue` is a bounded part of it.

In `RmpTickless`, `Pass` is a slice of real time: the timer counts and raises its
flag. The handler, every context switch and every delay bring `RMP_Timestamp` up to
date and program the timer again, as the hooks do; `span` measures each wait in
real time. Its actions wrap those of the kernel: `Awake` is a call by a thread
while the processor is awake. An interrupt that calls the kernel ends the sleep, for
the port's exit clears the low-power bits of the status it returns to (`Int_Load`),
and `RMP_Init` then calls `RMP_Init_Idle` again. That function masks interrupts,
decides (`Init_Idle`) and sets the low-power bits and the interrupt enable at once
(`Fall_Asleep`); time passes in between. `Timing` holds the steps that move the clock or set
the timer, `Calls` and `Signals` all other calls; `TicklessSpec` has all of them, the
run a part of `Calls`. `Punctual` says that the timer interrupt is served before
any timer is more than `LagMax` slices overdue.

In `RmpMem` each helper of the source (`_RMP_Mem_Ins`, `_Del`, `_Block`, `_Search`)
is an operator on the pool; addresses are offsets, payload bytes are left out.
`RmpLib` and `RmpDraw` are pure: a word is a function from byte positions, a
picture a function from points to colours.

In `RmpContext` a value is a triple of owner, version and register, so that loading
another thread's, an older or another register's word is told apart. The FPU is
active in version `b` of a thread. `Port` holds the 31 configurations; the stack
frames come from the `_Stack` structures and `_RMP_Stack_Init`, the orders of pushes
and pops from the assembly. `_RMP_Run_High` is any choice of a thread there.
`Switchable`, `Reopens` and `Prompt` are what a port must see to; `MCContext` evaluates
them on the configurations it runs.

`rcv` holds the threads between the two critical sections of `RMP_Thd_Rcv`; `got`
remembers the mail taken out last. A failed `RMP_ASSERT` sets `k.panic` and the
system halts, as in a build with assertions on.

Caller obligations that the kernel does not check are guards: the initial thread
is never deleted, suspended or blocked, and calls that block are not made under a
lock the caller holds (except `RMP_Sem_Pend_Unlock`, which is meant for that), and
nobody unlocks more often than was locked (the kernel would stop with
`RMP_ASSERT(0)`, 894-898, which `Sched_Unlock` does not have). In
`RmpQueue`, nobody uses the semaphores of a queue but the queue, and a thread does
not delete itself under a lock it holds.

Left out of the data: stacks, entry points, and return values other than
`Retval`, of which only success or failure matters. NULL arguments and refused
calls change nothing and are stuttering steps.

## Runs

| Run | What it shows |
|---|---|
| `thread` | three threads beside the initial one make every thread call, nest the lock to depth 2, yield, and ticks of one or two slices come at any unlocked moment: queues, bitmap and delay list are exact, the highest level runs, no blocked thread does, every wait ends exactly on time |
| `mail` | two clients, one server and an interrupt handler; life cycle and suspension of all three: lists exact, no pended switch forgotten, and the mailboxes implement `AbsMail` |
| `sem` | three threads, two semaphores, posts of 1 and 2 from threads and interrupts: first come first served, no post lost, nobody waits beside a positive count |
| `live` | under fairness, every timed wait ends and a thread above all others runs |
| `queue` | two threads, interrupts and the initial thread on a message queue, a blocking queue of limit 2 and a FIFO, with deletion and creation under calls in progress: lists are rings and implement `AbsFifo`, a granted item is there, items and slots are conserved |
| `tickless` | two threads, one of them also of the level of the initial one, and interrupts: the timer covers the first timeout and the slice, the delay list stays sorted under bumps of the clock, no wait ends early, LPM4 only if nothing is to be timed and no other thread is ready, whatever interrupts come around the decision |
| `library` | the allocator under every order of calls with boundary sizes; the pure functions against references |
| `context` | 28 configurations of the ports, three threads: own registers, interrupts enabled outside the lock on all but RL78, no lost switch on all but Linux |
| `mail_late` | violation: a late mail breaks the assertion of `RMP_Thd_Rcv` |
| `starve` | violation: a ready thread starves although its level gets slices |
| `context_rvm` | violation: the RISC-V guest's switch does not load a context |
| `lwip` | violation: a fetch races with a post on the pool of nodes |

Six more configurations are kept beside the runs, each a counterexample to one
sentence: `MCMailAny.cfg` (mails overwrite each other without the role discipline
of `mail`), `MCSemWrap.cfg` (a huge post wraps the count), `MCQueueLimit.cfg` (a
blocking queue that is created again under a receive exceeds its limit),
`MCContextRl78.cfg` (RL78 goes on with interrupts masked after a yield),
`MCLibZero.cfg` (the scan for the lowest bit of 0) and `MCTicklessStart.cfg` (the
tickless kernel sleeps without a timer before the first switch).

Bounds. `SliceMax` 3 and `W` 6 (`thread`) make delays of one and two slices, ticks
that jump over a timeout, and a clock that wraps after six slices; `2 * SliceMax <= W`
is the condition under which the half-range test of `RMP_DIFF_OVF` can work. Two
priority levels with three threads give preemption, equal priority and round
robin. In `mail`, two senders make the order of the sender list visible and two
mail words tell mails apart. In `sem`, posts of 2 against up to three waiting
threads leave both a rest of the count and a rest of the list.

In `queue`, limit 2 with three nodes lets a queue be full while a send holds the
third node; two threads beside interrupts give two calls in progress on a queue
that a third actor deletes. `bq` is used alone, `fifo` and `mq` side by side. In
`tickless`, waits of 1, 3 and 4 slices with `SliceMax` 4 lie before, at and beyond
the slice of 2, and a thread of level 0 beside the initial one shows that LPM4 waits
for it too; `LagMax` 3 bounds how far the clock is carried past a timer before
the handler runs, and `W` 16 satisfies `2 * (LagMax + SliceMax) <= W`, the condition
under which such a lag is not taken for a time to come. In `library`, a pool of 2048 bytes has two first-level classes,
and the requests straddle the class of a whole pool; numbers lie around the powers
of ten and the ends of 16 bits; every value of a byte at every place of words of 2,
4 and 8 bytes; lines of all slopes, circles of radius 0 to 14. In `context`, the
second version of a thread has an active FPU, so that every pair of with and
without occurs between two threads; a third thread shows words left behind by the
other two. In `lwip`, three nodes and a mailbox; posts stop while the pool is empty
(the code does not check, see below).

Views. The safety runs compare states with the clock set to 0, timeouts relative
to it, and words that are written before they are next read cleared (a mailbox
that is not full, the return value of a thread that is not blocked, the fields of
a free thread). Arithmetic on time is modulo `W` and only differences are tested,
so states that are equal under the view have the same futures. `live` and
`starve` use no view and no symmetry; `context` and `lwip` neither.

Fairness (`MCLive`). The hardware takes a pending switch interrupt (WF of
`Switch`); a thread that locked the scheduler unlocks it (WF of `Sched_Unlock`,
an obligation of user code); a tick that becomes due while interrupts are masked
stays latched and is taken when they are not (strong fairness of the timer, with
its enabling condition written out). Nothing else is fair: threads may compute
for ever. The safety runs need no fairness. `tickless` states `NotEarly` and
`TimerCovers` instead of a liveness property: the timer is set in time, and real
time passes by itself.

To run: `tlc -config MCThread.cfg MCThread` (module and configuration of each run
are in `PROJECT.json`); `tlapm RmpKernelProofs.tla` and the other proof modules in
turn. The longest run takes two and a half minutes, all proofs together about half an hour.

## Disagreements found

Those of the runs:

1. `mail_late`: between its timeout and its next run, a receiver looks like any
   running thread with an empty mailbox. A send in that window succeeds, and the
   receiver then finds mail together with the error code; the assertion at line
   2294 fails.
2. `starve`: goal 3 of `src/Proof/rmp_sched.v` does not hold: a thread preempted
   before its slice ends keeps the head of its level and gets a new slice.
3. `context_rvm`: `RMP_Ctx_Handler` (`rmp_platform_rv32p_rvm.c:754-784`) stores the
   registers of the old thread where it should load those of the new one. It also
   decides by `if(MSTATUS)` whether the FPU is in use, and asks for a macro of
   another port (413, 640), so that RVF registers are never saved.
4. `lwip`: `sys_arch_mbox_fetch` returns its node to `Msg_List` without the lock
   (`sys_arch.c:334`). With the insertion in one step the property holds.

Those of the configurations beside them:

5. `MCMailAny.cfg`: a blocked sender parks its data in its own mailbox word (line
   2050). Mail sent to it in the meantime and the parked data overwrite each
   other. The `mail` run shows that mail is intact as long as nobody sends to a
   thread that itself sends with a timeout.
6. `MCSemWrap.cfg`: the limit test at line 2635 adds modulo the word width.
7. `MCQueueLimit.cfg`: "there is no possibility that the FIFO will (even
   transiently) contain more elements than the limit" (5136-5138) fails if the
   queue is deleted and created again between the two sections of a receive.
   `LimitCorrect` proves the sentence for queues that are not deleted.
8. `MCContextRl78.cfg`: "the routine will unmask interrupts at its end anyway"
   (880-882) does not hold for RL78, whose yield stores PSW with IE clear. `Preemptible`
   leaves this port out.
9. `MCLibZero.cfg`: "0 will be returned for 0", says the comment of `RMP_LSB_Generic`
   (214), as that of `RMP_MSB_Generic` does (48). The former returns 8, 24 or 56 by word
   size. No caller scans 0; `FunctionsExact` states what the code returns.
10. `MCTicklessStart.cfg`: `RMP_Start_Hook` of the MSP430G2553 (216) leaves the timer
   off, and only a context switch turns it on. If the initial thread makes only
   threads of its own level, its slice never ends and it sleeps in LPM3 beside them.

Met while reading, and modelled as the code has them:

- `RMP_Malloc` rounds a size within seven bytes of 2^w to the minimum
  (`AllocSound` excepts it).
- The border of `RMP_Circle` corrects its error without the constant 10 (line
  5721), `RMP_Round_Rect` draws the circles of its left and top corners one pixel
  further in, `RMP_Lineedit_Clr` erases the shadow row, and anti-aliasing paints
  nothing for a pixel with four set neighbours.
- A radio button of an even length has a circle one pixel wider than the length, which
  the comments call its width too (6687, 6813): it paints one column and one row
  outside its box. `WidgetsExact` states this exactly; every other widget stays in its box.
- The glue ignores the size of a mailbox, and takes the head of the pool for a node
  when the pool is empty (`sys_arch.c:233`); the model stops posting before that.
- `sys_arch_mbox_tryfetch` passes a timeout of 0, which waits for ever; a fetch of the
  model may end at any time, which covers both.
- On the Linux port `RMP_INT_MASK` is empty and the FPU is not saved; a signal may
  serve two requests, so `NoLostYield` excepts it.

## Proofs

The theorems hold for every number of threads, semaphores and priorities, every
word size and every depth of lock nesting.

| Theorem | Property |
|---|---|
| `TypeCorrect` | `TypeOK`: fields keep their types |
| `RunQueuesCorrect` | `RunQueuesExact`: queues and bitmap show exactly the ready threads |
| `DelayCorrect` | `DelayExact`: the delay list holds exactly the threads with a timeout |
| `WaitersCorrect` | `WaitersExact`: wait lists hold exactly the blocked threads, each once |
| `HighestCorrect` | `HighestRuns`: unless a switch is pended, the highest ready thread runs |
| `PendCorrect` | `PendRequested`: no pended switch is carried back to unlocked code |
| `CurCorrect` | `CurRuns`: no blocked or deleted thread runs |
| `AlwaysReady` | `IdleReady`: the initial thread is ready, so there is a thread to run |
| `SendersCorrect` | `SendersNeedFull`: senders wait only at a full mailbox |
| `CountCorrect` | `NoIdleCount`: nobody waits on a semaphore that could be taken |
| `RcvCorrect` | `RcvConsistent`: a waiting receiver has no mail and is inside its call |
| `SemFifoCorrect` | `SemFifo`: semaphores are granted in the order of waiting |
| `PostCorrect` | `PostConserves`, if no post can wrap the count: posts are granted or counted |
| `TimersCorrect` | `TimersAlive`, for ticks up to half the clock: timers lie ahead, in order |
| `TimeoutCorrect` | `TimeoutExact`, for the same ticks: a wait ends exactly at its time |
| `IdleCorrect` | `IdleSafe`: clocks stop only if nothing is to be timed and no other thread is ready |
| `EarlyCorrect` | `NotEarly`: no timed wait ends early in real time |
| `SortedCorrect` | `DelaySorted`, while the timer is `Punctual` |
| `CoversCorrect` | `TimerCovers`, while the timer is `Punctual` |
| `ListsCorrect` | `ListsExact`: the pointers of every FIFO and queue form rings that share no node |
| `GrantsCorrect` | `GrantHasItem`: a thread that was granted an item finds one |
| `NoPanicCorrect` | `NoPanic`: no assertion fails in a call on a queue |
| `CountsCorrect` | `CountBelowMax`: the number a queue reads from `RMP_Sem_Pend` is no error |
| `ItemsCorrect` | `ItemsConserved`: a node is stranded only by the deletion of the thread it was granted to |
| `SlotsCorrect` | `SlotsConserved`: slots are neither lost nor made, but by deletions |
| `SendCorrect` | `SlotMeansSend`: as long as slots add up, a sender with a slot can send |
| `LimitCorrect` | `BelowLimit`, if no blocking queue and no thread within a call is deleted |
| `FifoRefines` | `FifoImplements`: the rings of pointers are queues of nodes, first in, first out |
| `PoolCorrect` | `PoolExact`: the blocks tile the pool, the lists hold exactly the free ones |
| `CoalescedCorrect` | `Coalesced`: no two free blocks are neighbours |
| `AllocCorrect` | `AllocSound`: what the user holds are the used blocks, each as large as asked for |
| `ScarceCorrect` | `FailsOnlyIfScarce`: a request fails only if no free block is as large as its class |
| `OwnCorrect` | `OwnContext`: a thread comes back to its own registers and stack |
| `PreemptCorrect` | `Preemptible`: outside the lock interrupts are enabled, but for RL78 |
| `LostCorrect` | `NoLostYield`: no thread computes between a request to switch and the switch |
| `MailRefines` | `MailImplements`, if servers do not wait to send: the mailboxes are queues |

The first eight follow from `Invariance`, `Spec => []IInv` (`RmpKernelProofs`); the
others from the invariants that are described below.

Assumptions. The named ones of `RmpCore`, `RmpSem`, `RmpList` and `RmpQueue`
(`CoreAssumption`, `SemAssumption`, `ListAssumption`, `QueueAssumption`): constants
have their types, there is at least one level, one mail and a nonempty word,
`2 * SliceMax <= W`, threads and nodes are finitely many, heads are not nodes, each
queue has semaphores of its own, and `0 < Limit < SemMax`. `MemAssumption` of `RmpMem`
is what `RMP_Mem_Init` checks (3269-3281), with words of 16 or 32 bits and pointers of 1,
2 or 4 chars, as on the ports. The three results about the context switch say of each port
in `Ports` that it is `Switchable` (loads pop what saves push, the way back; all switches
share the frame of a new thread; the status word lies where the load looks for it) and, as
far as they need it, `Reopens` or `Prompt`. These are conditions on data, which
`PortsAssumption` of `MCContext` evaluates on 28 configurations; the guest on RISC-V is not
`Switchable` (`context_rvm`), and RL78 does not reopen (`Masked`). Five other results need more, and the runs
satisfy it:

- `PostsFit`, `SemMax + n <= W` for every post of `n`. The test of line 2635 adds
  modulo the word, so that without it the count can wrap (`MCSemWrap.cfg`). The
  ports set `RMP_SEM_CNT_MAX` to between 100 and 1000, and programs post one by one.
- `TicksFit`, `2 * n <= W` for every tick of `n` slices: a longer one carries the
  clock past the half range in which `RMP_DIFF_OVF` tells past from future. Ports
  with a periodic tick call `_RMP_Tim_Handler(1U)`.
- `TicklessAssumption`, `2 * (LagMax + SliceMax) <= W`, and `[]Punctual`. With
  words of 16 bits and `RMP_SLICE_MAX` 10000 the interrupt may be up to 22768 slices
  late. `IdleCorrect` and `EarlyCorrect` do without `Punctual`.
- `ServedSpec(S)` in place of `Spec`: mail is sent only to the threads of a set S of
  servers, any such set, and these do not wait to send. The word `Mailbox` of a
  control block holds the mail a thread was sent or, while it is blocked, the mail it
  is sending, and without the discipline one overwrites the other (`MCMailAny.cfg`).
  `MCSpec` of `MCMail` is the case of one server.

The invariant. None of the properties is inductive alone: deciding whether a
removal empties a level needs the queues exact, waking a thread needs it to be on
the list its state names, and a missed switch is found only by relating the pend
flag to the lock, the requested switch and the queues together. `IInv` therefore
conjoins

- `KInv`: the lists agree with the states, `HighestRuns`, the initial thread is
  ready, and `Owners`: threads wait only to send to a thread that exists and only
  on a semaphore in use. `Owners` is needed because `RMP_Thd_Crt` and
  `RMP_Sem_Crt` reset a list without looking at it, which loses nobody only if it
  is empty;
- `PendRequested` and `CurRuns`.

The code changes a list, a state and the pend flag one after another, so within a
critical section the lists do not agree with the states. `Good(s, R, D, S, P)`
says what the lists hold (run queues `R`, delay list `D`, sender lists `S`,
semaphore lists `P`) without mentioning states; every helper has a lemma that
takes one `Good` to another, with a thread more or less in one of the sets. A
call's proof chains these lemmas and ends by comparing the sets with the states.
`Inner` is what holds just before the end of a critical section, and `LeaveSafe`
shows that `RMP_Sched_Unlock` turns it into `Safe`, the invariant of the memory.

Loops that wake every thread of a list (deletion, broadcast, post, the timer) are
recursive functions over the length of the list. That such a function exists is
itself proved (`ChainExists`, with the least number principle in place of an
induction theorem), and then that every step of it keeps the lists exact.

`IpcInv` (`RmpKernelProofs`) adds to `IInv` what the lists mean. `SendersNeedFull` and
`NoIdleCount` are two of its conjuncts, and each needs others: a receiver that waits
is in its call and its mailbox is empty, or else `RMP_Thd_Snd` would hand mail to a
thread that does not take it; a free thread has no flag left, or else a new one
would be born with mail; the return value of a blocked thread is the one of
success, since a post leaves it as it is and ends the wait with it; and a count is 0 or below
`SemMax`, which is what makes a post that is accepted leave no waiting thread
beside a rest of the count. The effect of waking, which every call shares, is
`Eased`; a lemma for each call shows that it does that and blocks at most its caller.

`SemFifoCorrect` and `PostCorrect` (`RmpKernelProofs`) are about steps. In both a post
wakes a prefix of the wait list (`ServePrefix`), any other step wakes the whole
list, one thread that it names, or those whose time has come, with a return value
that tells them from threads that were granted the semaphore.

`TimerInv` (`RmpTicklessProofs`) adds the order of the delay list: every timer lies 1 to
`SliceMax - 1` slices ahead, and earlier places are earlier times. The clock is
modular, so all of it is said with `Diff`, the distance from now. `PlaceOf`
says where `_RMP_Dly_Ins` stops, `ExpiredPrefix` what the handler takes off, and
`Thin` is what all other steps do to the list: take timers off it, if anything.

In the tickless kernel `TimerInv` is false, because the clock is carried past timers.
`RealInv` (`RmpTicklessProofs`) says of it, beside `IInv`, that every thread has a slice
and some of it left (or the timer would be set to 0), that the timer has counted
no further than it was set, that since the initial thread decided to stop the clocks
no switch was requested and the queues are what they were, and,
for each timer, that the time its timestamp shows plus what the timer has counted
is no more than the time that has really passed. `TicklessInv` adds `Lags`, the order
of the list by a signed distance (`LagOf` relates it to the modular one), `Brief`, that
the timer is never set further than a call may ask for, so that one bump is
bounded, and `Covers`. `Brief` and `Lags` need each other: the list stays in order
because bumps are small, and these are small because the timer is set by the head.

`RoleInv` (`RmpMailProofs`) adds to `IpcInv` that only servers have mail and none of
them waits to send. The queue of a thread (`Mails`) is the word in its mailbox and then the
words of the threads on its sender list. Most calls change none of these words
and take senders off the lists at most (`Fewer`), which withdraws mails without
changing the order of the others; that is one lemma for each call. Sending appends a mail,
whether to an empty mailbox (`SendStep`) or to the sender list (`SendBlockStep`);
receiving takes the first mail, and the word of the first sender moves into the
mailbox (`ReceiveStep`); deleting a thread clears its queue and withdraws its own mail
from another one (`DeleteStep`).

`QInv` (`RmpQueueProofs`) is about two layers at once, the pointers and the calls in
progress. `ListsOk` says that the pointers of every head in use form a ring: a
sequence of distinct nodes exists whose neighbours are what `next` and `prev` say
(`Ring`), as long as the count says, and disjoint from the others. `RingWrite`,
`RingRead` and `RingFrame` show what the assignments of `RMP_Fifo_Write`, `RMP_Fifo_Read`
and of the other heads' calls do to it, and that `Nodes`, which follows the pointers,
returns it.
The other conjuncts tie a call to its queue:

- `UsedOk`: a FIFO of a queue and its semaphores are in use exactly as long as the
  queue is, which is what the assertions in creation and deletion ask for;
- `CallsOk`: who waits on a semaphore of a queue is in a call on that queue, at the
  step that waits; otherwise a post could wake a thread that does not take the item;
- `NodesOk`: the node of a send is on no list and in no other send, between the
  sections too;
- `FreshOk`: the queue of a call is in use, unless it was deleted under that call;
- `GrantsOk`: the count of items and the threads that were granted one are together
  no more than the nodes of the FIFO. `GrantHasItem` follows, and only this stronger
  form survives a receive by someone else.

All other steps of the kernel are summarised once: `Moves` says what they do to the
threads in calls (leave them blocked, or end the wait with a return value that
tells a grant from a refusal), `Calm` that they leave the semaphores of queues alone, and each queue step is proved from it. `Balance`, which
compares items, slots and grants before and after a step, gives the three action
properties. `LimitCorrect` needs one more invariant, `SlotsFull`: free slots, nodes and
slots held by calls add up to exactly the limit. It is lost where the run says so,
when a queue or a thread in a call is deleted, hence the hypothesis `Lossless`.

`FifoRefines` maps the pointers to sequences (`Contents`, which follows `next` from each
head in use). `CallFifo` reduces every call to one of four operations under the condition
it has checked (`FifoStep`): a FIFO created was free, one deleted counts no node, a node
written is on no list, one read is there. `FifoMaps` shows with the lemmas about rings
that each is the step of `AbsFifo` of the same name, and that the other sequences stay.

`MemIInv` (`RmpMemProofs`) says of the pool that there is a set `H` of heads such that

- `Tiles`: the first block begins at the base, each other one where a block ends, the
  last ends with the pool, heads and tails lead to each other;
- `Filed`: each level holds the free blocks of its size, each once, and the bitmap
  shows the levels that hold any;
- `Apart`: no two free blocks touch;
- `Held`: the user holds exactly the used blocks, each large enough.

Inside a call some blocks are between two lives: taken off the lists and not yet filed
again, cut, or joined. `Loose(s, H, h, e)` says so of the blocks from `h` to the border
`e`, and `Retile` that any new division of that stretch tiles the pool again.
`_RMP_Mem_Block` is then `CutStep` or `JoinStep`, and `RMP_Malloc`, `RMP_Free` and both
ways of `RMP_Realloc` are chains of these with `DelStep` and `InsStep`. That the search finds a block
(`SearchFinds`) and fails for cause (`SearchFails`) rests on `LevelOrder`: a larger block has no
lower level, and the blocks of a level above that of the rounded size are all large enough.
`BlocksAre` shows that `Blocks`, which walks through the pool, computes `H`.

`Inv` (`RmpContextProofs`) says what is on every stack, since `OwnContext` speaks of the
current thread alone. `Own`: a thread that was switched out has on its stack the frame of a
switch, in which each register that it needs has its value, and below it what was there
before; one that was interrupted has the frame of an interrupt, and the registers that
are not in it are still in the processor. What a thread needs depends on its FPU, and the
load must find that out from the frame before it knows which frame it is: `StatusFacts` shows
that it does. `SaveStep` and `LoadStep` are inverse to each other for every path,
`ResumeStep` and `SwitchStep` put a switch together. `FlagInv` adds that the frames have
the interrupt flag set, and `Requests` where a request may wait: pended, with interrupts
masked and its thread about to leave the lock. The number of threads, the frames and the
order of steps are arbitrary.

Only model-checked, not proved: the property of `RmpLwip`, which the code violates; `RmpLib` and `RmpDraw`, which compute by recursion over data (`RmpLib` also
uses `Bitwise`, and no module with a theorem reaches it); and the liveness properties, for which fairness and ENABLED would be needed.

## Not modelled

- The cursor (`RMP_Cursor`): its macro `RMP_CUR_YPOS` names X instead of its
  parameter (`rmp_kernel.h:170`), so that it does not compile; the widgets share its
  `#if` and are modelled as they are meant to be compiled. No project defines
  `RMP_POINT`.
- The ports A8M (stale), M6502 and LINT (stubs), and XMEGA, whose frames are those of
  the AVR but whose masking goes through the interrupt controller. Start-up, clock,
  cache and timer set-up of all chips is hardware access.
- `sys_thread_new` and the semaphores of the lwIP glue (calls of the kernel's one for
  one), the Ethernet drivers, lwIP itself.
- Hooks, tests, benchmarks, the Coq files (goals without proofs), IDE projects.
- Coverage markers, and the `RMP_*_Cnt` calls, which change nothing.
