----------------------------- MODULE RmpContext -----------------------------
(***************************************************************************)
(* The context switch of the ports (src/Source/Platform and                *)
(* src/Include/Platform): what _RMP_Stack_Init puts on the stack of a new  *)
(* thread, in which order _RMP_Yield, the pended switch and the interrupt  *)
(* entries save the registers and load them again, and when a requested    *)
(* switch is carried out.  One state machine runs every port: the port is  *)
(* data, chosen by the initial state.  Which thread _RMP_Run_High picks is *)
(* the business of RmpCore; here it is any.                                *)
(*                                                                         *)
(* A value is <<owner, version, register>>, so that a register that holds  *)
(* another thread's, an older or another register's value is told apart.   *)
(* Version "new" is what _RMP_Stack_Init wrote; a thread that runs changes *)
(* between "a" and "b", and its FPU is active in "b".  A word of a stack   *)
(* also carries the interrupt flag, which only the status word uses.       *)
(***************************************************************************)
EXTENDS Naturals, SequencesExt

CONSTANTS
    Ports,  \* the ports that are checked, by name
    Start,  \* the thread that _RMP_Start enters
    Others  \* the threads that _RMP_Stack_Init prepares
Threads == {Start} \cup Others
ASSUME StartAssumption == Start \notin Others

VARIABLES
    port,   \* the port: see Port below
    m,      \* the machine: cpu (register -> value), stk (thread -> words, the
            \* one at the stack pointer first), ie (kernel-aware interrupts
            \* enabled), cur (RMP_Thd_Cur)
    mode,   \* "thread", or "isr" inside a kernel-aware interrupt
    pend,   \* a switch is pended (Yield_Pend, PendSV, SSI, the soft interrupt)
    asked,  \* a switch was requested and none has happened since
    lk,     \* scheduler lock of each thread: "free", "locked", or "leaving"
            \* between _RMP_Yield and RMP_INT_UNMASK of RMP_Sched_Unlock
    ver     \* version of each thread
vars == <<port, m, mode, pend, asked, lk, ver>>

----------------------------------------------------------------------------
(* Frames.  A register is <<name, number>>.  The words of a frame are      *)
(* listed from the stack pointer outwards; a save lists what it pushes in  *)
(* the order of the pushes, a load what it pops in the order of the pops.  *)
R(p, i, j) == [n \in 1 .. j + 1 - i |-> <<p, i + n - 1>>]
Down(p, j, i) == Reverse(R(p, i, j))
Regs(names) == [n \in DOMAIN names |-> <<names[n], 0>>]

\* A way in and out of a thread.  x tells whether its FPU is active.
Path(push(_), pop(_)) == [push |-> [x \in BOOLEAN |-> push(x)],
                          pop |-> [x \in BOOLEAN |-> pop(x)]]
\* Block stores and loads, or the same offsets in both directions.
Mirror(frame(_)) == LET push(x) == Reverse(frame(x)) IN Path(push, frame)
Bare(x) == <<>>

\* A port.  kind tells what _RMP_Yield does: "flag" switches in a thread and
\* sets Yield_Pend in an interrupt; "pend" raises the software interrupt;
\* "fast" does the one in threads and the other in interrupts; "signal" asks
\* the host.  mask: RMP_INT_MASK masks.  force: a load enables interrupts
\* whatever the status word holds.  new: the frame of _RMP_Stack_Init, over:
\* its words that stay on the stack, entry: those that a new thread needs,
\* with stat the status word.  on: the interrupt flag in the status word of a
\* new frame and of a yield's.  yield, ctx, int: the paths of _RMP_Yield, of
\* the pended switch and of an interrupt.
Made(kind, force, new, entry, stat, yield, ctx, int) ==
    [kind |-> kind, mask |-> TRUE, force |-> force, new |-> new, over |-> <<>>,
     entry |-> entry \cup {stat}, stat |-> stat,
     on |-> [new |-> TRUE, yield |-> TRUE],
     yield |-> yield, ctx |-> ctx, int |-> int]
Flagged(force, new, entry, stat, path) ==
    Made("flag", force, new, entry, stat, path, path, path)
Pended(force, new, entry, stat, path, int) ==
    Made("pend", force, new, entry, stat, path, path, int)

----------------------------------------------------------------------------
(* ARMv6-M, ARMv7-M and ARMv7-R.  The hardware stacks R0-R3, R12, LR, PC   *)
(* and XPSR, and S0-S15 and FPSCR for an active FPU; LR_EXC is its EXC_-   *)
(* RETURN word, which tells whether it did.                                *)
A7M_Hard(x) == R("R", 0, 3) \o Regs(<<"R12", "LR", "PC", "XPSR">>)
               \o (IF x THEN R("S", 0, 15) \o Regs(<<"FPSCR">>) ELSE <<>>)
A6M_Hard(x) == A7M_Hard(FALSE)
A6M_Stack == R("R", 4, 11) \o Regs(<<"LR_EXC">>) \o A6M_Hard(FALSE)
A6M_PendSV(x) == A6M_Stack
A7M_Stack == R("R", 4, 11) \o Regs(<<"LR_EXC">>) \o A7M_Hard(FALSE)
A7M_PendSV(x) == R("R", 4, 11) \o Regs(<<"LR_EXC">>)
                 \o (IF x THEN R("S", 16, 31) ELSE <<>>) \o A7M_Hard(x)

ARM(stack, pendsv(_), hard(_)) ==
    Pended(TRUE, stack, {<<"R", 0>>, <<"PC", 0>>}, <<"LR_EXC", 0>>,
           Mirror(pendsv), Mirror(hard))
A6M == ARM(A6M_Stack, A6M_PendSV, A6M_Hard)
A7M(fpu) == LET pendsv(x) == A7M_PendSV(x /\ fpu)
                hard(x) == A7M_Hard(x /\ fpu)
            IN  ARM(A7M_Stack, pendsv, hard)

\* The interrupts run on stacks of their own.
A7R_Stack == R("R", 0, 12) \o Regs(<<"LR", "PC", "CPSR">>)
A7R_Save(x) == Regs(<<"CPSR", "PC", "LR">>) \o Down("R", 12, 0)
A7R_Load(x) == R("R", 0, 12) \o Regs(<<"LR", "PC", "CPSR">>)
A7R == Pended(FALSE, A7R_Stack, {<<"R", 0>>, <<"PC", 0>>}, <<"CPSR", 0>>,
              Path(A7R_Save, A7R_Load), Mirror(Bare))

----------------------------------------------------------------------------
(* RISC-V, MIPS and x86.                                                   *)
RV32P_Stack == Regs(<<"MSTATUS", "PC">>) \o R("X", 1, 1) \o R("X", 3, 31)
RV32P_FPU(cop) == CASE cop = "NONE" -> <<>>
                    [] cop = "RVF" -> R("F", 0, 31) \o Regs(<<"FCSR">>)
                    [] cop = "RVD" -> R("F", 0, 31) \o R("FH", 0, 31) \o Regs(<<"FCSR">>)
RV32P(cop) ==
    LET frame(x) == Regs(<<"MSTATUS">>) \o (IF x THEN RV32P_FPU(cop) ELSE <<>>)
                    \o Tail(RV32P_Stack)
    IN  Flagged(TRUE, RV32P_Stack, {<<"X", 10>>, <<"PC", 0>>}, <<"MSTATUS", 0>>,
                Mirror(frame))

MP32P_Stack == R("R", 1, 19) \o R("R", 24, 25) \o R("R", 30, 31) \o R("R", 26, 28)
               \o Regs(<<"LO", "HI", "STATUS", "PC">>) \o R("R", 20, 23)
MP32P_Context(x) == MP32P_Stack
MP32P == Pended(FALSE, MP32P_Stack, {<<"R", 4>>, <<"PC", 0>>}, <<"STATUS", 0>>,
                Mirror(MP32P_Context), Mirror(MP32P_Context))

\* The kernel is the parent process, which stops the user's; the masks are
\* empty.  The argument stays on the stack.
X86_Save(x) == Regs(<<"xss", "eflags", "xcs", "eip", "orig_eax", "xgs", "xfs",
                      "xes", "xds", "eax", "ebp", "edi", "esi", "edx", "ecx", "ebx">>)
X86_Load(x) == Regs(<<"ebx", "ecx", "edx", "esi", "edi", "ebp", "eax", "xds", "xes",
                      "xfs", "xgs", "orig_eax", "eip", "xcs", "eflags", "xss">>)
X86_Stack == X86_Load(FALSE) \o Regs(<<"Param">>)
X86_LINUX ==
    LET path == Path(X86_Save, X86_Load)
    IN  [Made("signal", TRUE, X86_Stack, {<<"eip", 0>>, <<"xcs", 0>>, <<"xss", 0>>},
              <<"eflags", 0>>, path, path, Mirror(Bare))
         EXCEPT !.over = Regs(<<"Param">>), !.mask = FALSE]

----------------------------------------------------------------------------
(* The small microcontrollers: interrupts enter and leave with the frame   *)
(* of _RMP_Yield.                                                          *)
MSP430_NONE_Stack == R("R", 4, 15) \o Regs(<<"SR", "PC">>)
MSP430_NONE_Save(x) == Regs(<<"PC", "SR">>) \o Down("R", 15, 4)
MSP430_NONE_Load(x) == R("R", 4, 15) \o Regs(<<"SR", "PC">>)
MSP430_NONE ==
    [Flagged(TRUE, MSP430_NONE_Stack, {<<"R", 12>>, <<"PC", 0>>}, <<"SR", 0>>,
             Path(MSP430_NONE_Save, MSP430_NONE_Load))
     EXCEPT !.on.yield = FALSE]

\* PUSHM.A and POPM.A; the program counter's upper bits share the word of SR.
MSP430_430X_Stack == R("R", 4, 15) \o Regs(<<"PCSR">>)
MSP430_430X_Frame(x) == MSP430_430X_Stack
MSP430_430X ==
    [Flagged(TRUE, MSP430_430X_Stack, {<<"R", 12>>}, <<"PCSR", 0>>,
             Mirror(MSP430_430X_Frame))
     EXCEPT !.on.yield = FALSE]

AVR_Extra(cop) == (IF cop = "EIND" THEN Regs(<<"EIND">>) ELSE <<>>)
                  \o (IF cop = "MEGA" THEN <<>>
                      ELSE Regs(<<"RAMPD", "RAMPX", "RAMPY", "RAMPZ">>))
AVR_PC(cop) == Regs(IF cop = "EIND" THEN <<"PCU", "PCH", "PCL">> ELSE <<"PCH", "PCL">>)
AVR_Stack(cop) == AVR_Extra(cop) \o R("R", 0, 28) \o Regs(<<"SREG">>)
                  \o R("R", 29, 31) \o AVR_PC(cop)
\* Without XMEGA the flag is clear in the frames and RETI sets it.
AVR(cop) ==
    LET push(x) == Reverse(AVR_PC(cop)) \o Down("R", 31, 29) \o Regs(<<"SREG">>)
                   \o Down("R", 28, 0) \o Reverse(AVR_Extra(cop))
        pop(x) == AVR_Extra(cop) \o R("R", 0, 28) \o Regs(<<"SREG">>)
                  \o R("R", 29, 31) \o AVR_PC(cop)
    IN  [Flagged(TRUE, AVR_Stack(cop), ToSet(AVR_PC(cop)) \cup {<<"R", 24>>, <<"R", 25>>},
                 <<"SREG", 0>>, Path(push, pop))
         EXCEPT !.on = [new |-> FALSE, yield |-> FALSE]]

RL78_Stack == Regs(<<"CSES", "HL", "DE", "BC", "AX", "PC", "PSWPCH">>)
RL78_Save(x) == Regs(<<"PSWPCH", "PC", "AX", "BC", "DE", "HL", "CSES">>)
RL78_Load(x) == Regs(<<"CSES", "HL", "DE", "BC", "AX", "PC", "PSWPCH">>)
\* The new frame and the yield's have the flag clear, and RETI restores it.
RL78 == [Flagged(FALSE, RL78_Stack, {<<"AX", 0>>, <<"PC", 0>>}, <<"PSWPCH", 0>>,
                 Path(RL78_Save, RL78_Load))
         EXCEPT !.on = [new |-> FALSE, yield |-> FALSE]]

\* The argument stays on the stack.  SPV2 has the registers R8 to R15.
UNSP_Stack(upper) == upper \o R("R", 1, 5) \o Regs(<<"SR_CSDS", "PC", "Param">>)
UNSP(upper) ==
    LET push(x) == Regs(<<"PC", "SR_CSDS">>) \o Down("R", 5, 1) \o Reverse(upper)
        pop(x) == upper \o R("R", 1, 5) \o Regs(<<"SR_CSDS", "PC">>)
    IN  [Flagged(TRUE, UNSP_Stack(upper), {<<"PC", 0>>}, <<"SR_CSDS", 0>>, Path(push, pop))
         EXCEPT !.over = Regs(<<"Param">>)]

\* Stacks that grow upwards: the structure lists the frame in push order.
C28X_Low == Regs(<<"T_ST0", "ACC", "P", "AR1_AR0", "DP_ST1", "DBGSTAT_IER", "PC",
                   "RPC", "AR1H_AR0H">>) \o R("XAR", 2, 7) \o Regs(<<"XT">>)
C28X_FPU(cop) ==
    IF cop = "NONE" THEN <<>>
    ELSE Regs(<<"STF", "RB">>)
         \o (IF cop = "FPU32" THEN R("RH", 0, 7)
             ELSE [n \in 1 .. 16 |-> <<IF n % 2 = 1 THEN "RL" ELSE "RH", (n - 1) \div 2>>])
C28X_Stack(cop) == Reverse(C28X_Low \o C28X_FPU(cop))
C28X(cop) ==
    LET push(x) == C28X_Low \o C28X_FPU(cop)
        pop(x) == Reverse(C28X_FPU(cop)) \o Regs(<<"XT">>) \o Down("XAR", 7, 2)
                  \o Regs(<<"AR1H_AR0H", "RPC", "PC", "DBGSTAT_IER", "DP_ST1",
                            "AR1_AR0", "P", "ACC", "T_ST0">>)
    IN  Flagged(FALSE, C28X_Stack(cop), {<<"ACC", 0>>, <<"PC", 0>>}, <<"DP_ST1", 0>>,
                Path(push, pop))

DSPIC_Low == Regs(<<"PCL", "PCHSRL", "SR", "CORCON">>) \o R("W", 0, 14)
             \o Regs(<<"RCOUNT", "TBLPAG">>)
DSPIC_Psv(eds) == Regs(IF eds THEN <<"DSRPAG", "DSWPAG">> ELSE <<"PSVPAG">>)
DSPIC_Dsp(dsp) ==
    IF ~dsp THEN <<>>
    ELSE Regs(<<"ACCAL", "ACCAH", "ACCAU", "ACCBL", "ACCBH", "ACCBU", "MODCON",
                "XMODSRT", "XMODEND", "YMODSRT", "YMODEND", "XBREV">>)
DSPIC_Stack(eds, dsp) == Reverse(DSPIC_Low \o DSPIC_Psv(eds) \o DSPIC_Dsp(dsp))
DSPIC(eds, dsp) ==
    LET push(x) == DSPIC_Low \o DSPIC_Psv(eds) \o DSPIC_Dsp(dsp)
        pop(x) == Reverse(DSPIC_Dsp(dsp)) \o Reverse(DSPIC_Psv(eds))
                  \o Regs(<<"TBLPAG", "RCOUNT">>) \o Down("W", 14, 0)
                  \o Regs(<<"CORCON", "SR", "PCHSRL", "PCL">>)
    IN  Flagged(FALSE, DSPIC_Stack(eds, dsp), {<<"W", 0>>, <<"PCL", 0>>}, <<"PCHSRL", 0>>,
                Path(push, pop))

----------------------------------------------------------------------------
(* Guests of the hypervisor: PendSV_Handler is a C function that works on  *)
(* the registers the hypervisor holds for the guest (RVM_REG), with the    *)
(* hypercall words in front; an interrupt leaves the thread's stack alone. *)
Hypercall == Regs(<<"Number">>) \o R("Param", 0, 3)
Guest(fast, stack, entry, stat, yield, ctx) ==
    Made(IF fast THEN "fast" ELSE "pend", TRUE, stack, entry, stat, yield, ctx, Mirror(Bare))

AxM_RVM_Stack == Hypercall \o A7M_Stack
AxM_RVM(fast, fpu) ==
    LET pend_push(x) == Reverse(A7M_Hard(x /\ fpu))
                        \o (IF x /\ fpu THEN Down("S", 31, 16) ELSE <<>>)
                        \o Regs(<<"LR_EXC">>) \o Down("R", 11, 4)
                        \o Down("Param", 3, 0) \o Regs(<<"Number">>)
        pend_pop(x) == Regs(<<"Number">>) \o R("Param", 0, 3) \o R("R", 4, 11)
                       \o Regs(<<"LR_EXC">>)
                       \o (IF x /\ fpu THEN R("S", 16, 31) ELSE <<>>) \o A7M_Hard(x /\ fpu)
    IN  Guest(fast, AxM_RVM_Stack, {<<"R", 0>>, <<"PC", 0>>}, <<"LR_EXC", 0>>,
              Mirror(LAMBDA x : Hypercall \o A7M_PendSV(x /\ fpu)), Path(pend_push, pend_pop))
A6M_RVM(fast) == AxM_RVM(fast, FALSE)
A7M_RVM(fast, fpu) == AxM_RVM(fast, fpu)

\* The handler asks whether MSTATUS is zero, which it never is, not whether the
\* FPU is active, and the branch for RVF asks for a macro that does not exist.
RV32P_RVM_FPU_Push(cop) == IF cop = "RVD" THEN Reverse(RV32P_FPU(cop)) ELSE <<>>
RV32P_RVM_FPU_Pop(cop) == IF cop = "RVD" THEN RV32P_FPU(cop) ELSE <<>>
RV32P_RVM_Stack == Hypercall \o RV32P_Stack
RV32P_RVM_Front == Regs(<<"MSTATUS">>) \o Down("Param", 3, 0) \o Regs(<<"Number">>)
RV32P_RVM_Save(cop) == Down("X", 31, 3) \o R("X", 1, 1) \o Regs(<<"PC">>)
                       \o RV32P_RVM_FPU_Push(cop) \o RV32P_RVM_Front
\* Its load pops the hypercall words and MSTATUS, and then writes the registers
\* of the old thread over the frame of the new one.
RV32P_RVM_Load(cop) == Reverse(RV32P_RVM_Front) \o RV32P_RVM_FPU_Pop(cop)
                       \o [n \in 1 .. 31 |-> <<"Skip", 0>>]
RV32P_RVM_Fast(x, cop) == Hypercall \o Regs(<<"MSTATUS">>)
                          \o (IF x THEN RV32P_FPU(cop) ELSE <<>>) \o Tail(RV32P_Stack)
RV32P_RVM(fast, cop) ==
    Guest(fast, RV32P_RVM_Stack, {<<"X", 10>>, <<"PC", 0>>}, <<"MSTATUS", 0>>,
          Mirror(LAMBDA x : RV32P_RVM_Fast(x, cop)),
          Path(LAMBDA x : RV32P_RVM_Save(cop), LAMBDA x : RV32P_RVM_Load(cop)))

Port(name) ==
    CASE name = "A6M"          -> A6M
      [] name = "A7M"          -> A7M(FALSE)
      [] name = "A7M_FPU"      -> A7M(TRUE)
      [] name = "A7R"          -> A7R
      [] name = "RV32P"        -> RV32P("NONE")
      [] name = "RV32P_RVF"    -> RV32P("RVF")
      [] name = "RV32P_RVD"    -> RV32P("RVD")
      [] name = "MP32P"        -> MP32P
      [] name = "X86_LINUX"    -> X86_LINUX
      [] name = "MSP430"       -> MSP430_NONE
      [] name = "MSP430_430X"  -> MSP430_430X
      [] name = "AVR"          -> AVR("MEGA")
      [] name = "AVR_RAMP"     -> AVR("RAMP")
      [] name = "AVR_EIND"     -> AVR("EIND")
      [] name = "RL78"         -> RL78
      [] name = "UNSP_SPV1"    -> UNSP(<<>>)
      [] name = "UNSP_SPV2"    -> UNSP(R("R", 8, 15))
      [] name = "C28X"         -> C28X("NONE")
      [] name = "C28X_FPU32"   -> C28X("FPU32")
      [] name = "C28X_FPU64"   -> C28X("FPU64")
      [] name = "DSPIC_24F"    -> DSPIC(FALSE, FALSE)
      [] name = "DSPIC_24E"    -> DSPIC(TRUE, FALSE)
      [] name = "DSPIC_30F"    -> DSPIC(FALSE, TRUE)
      [] name = "DSPIC_33E"    -> DSPIC(TRUE, TRUE)
      [] name = "A6M_RVM"      -> A6M_RVM(FALSE)
      [] name = "A6M_RVM_FAST" -> A6M_RVM(TRUE)
      [] name = "A7M_RVM"      -> A7M_RVM(FALSE, TRUE)
      [] name = "A7M_RVM_FAST" -> A7M_RVM(TRUE, TRUE)
      [] name = "RV32P_RVM"    -> RV32P_RVM(FALSE, "NONE")
      [] name = "RV32P_RVM_RVD" -> RV32P_RVM(FALSE, "RVD")
      [] name = "RV32P_RVM_FAST" -> RV32P_RVM(TRUE, "RVD")

----------------------------------------------------------------------------
(* The machine.                                                            *)
Junk == <<"junk", "junk", <<"junk", 0>>>>
File(p) == (ToSet(p.new) \cup ToSet(p.yield.push[TRUE]) \cup ToSet(p.ctx.push[TRUE]))
           \ ToSet(p.over)
\* The registers that only an active FPU has.
FPU(p) == File(p) \ (ToSet(p.new) \cup ToSet(p.yield.push[FALSE]))
Active(value) == value[2] = "b"

\* _RMP_Stack_Init
Stack_Init(p, t) == [n \in DOMAIN p.new |-> [v |-> <<t, "new", p.new[n]>>, ie |-> p.on.new]]

\* A save pushes the registers; the kernel then uses them.
Save(s, path, on) ==
    LET list == path.push[Active(s.cpu[port.stat])]
        words == [n \in DOMAIN list |-> [v |-> s.cpu[list[n]], ie |-> on]]
    IN  [s EXCEPT !.stk[s.cur] = Reverse(words) \o @,
                  !.cpu = [r \in DOMAIN @ |-> IF r \in ToSet(list) THEN Junk ELSE @[r]]]

\* The word of register r in a frame on the stack of the current thread.
Word(s, list, r) ==
    LET stk == s.stk[s.cur]
        n == CHOOSE i \in DOMAIN list : list[i] = r
    IN  IF n <= Len(stk) THEN stk[n] ELSE [v |-> Junk, ie |-> FALSE]
Pop(s, list, on) ==
    [s EXCEPT !.stk[s.cur] = SubSeq(@, Len(list) + 1, Len(@)),
              !.cpu = [r \in DOMAIN @ |-> IF r \in ToSet(list) THEN Word(s, list, r).v
                                          ELSE @[r]],
              !.ie = on]

\* A load pops the registers again.  Whether there are FPU registers to pop is
\* read from the status word, if it is on the stack.
Status(s, path) ==
    IF port.stat \in ToSet(path.pop[FALSE]) THEN Word(s, path.pop[FALSE], port.stat)
    ELSE [v |-> s.cpu[port.stat], ie |-> s.ie]
\* Mutant: the FPU registers stay on the stack.
Load_Flat(s, path) == Pop(s, path.pop[FALSE], port.force \/ Status(s, path).ie)
\* Mutant: the status word is loaded as it was saved.
Load_Keep(s, path) ==
    LET status == Status(s, path) IN Pop(s, path.pop[Active(status.v)], status.ie)
Load(s, path) ==
    LET status == Status(s, path)
    IN  Pop(s, path.pop[Active(status.v)], port.force \/ status.ie)

\* _RMP_Run_High with the stack pointers: any thread.
Run_High(s, t) == [s EXCEPT !.cur = t]

Init ==
    \E name \in Ports :
       /\ port = Port(name)
       /\ m = [cpu |-> [r \in File(port) |-> <<Start, "a", r>>],
               stk |-> [t \in Threads |-> IF t = Start THEN <<>> ELSE Stack_Init(port, t)],
               ie |-> ~port.mask, cur |-> Start]
       /\ mode = "thread" /\ pend = FALSE /\ asked = FALSE
       /\ lk = [t \in Threads |-> IF t = Start THEN "locked" ELSE "free"]
       /\ ver = [t \in Threads |-> IF t = Start THEN "a" ELSE "new"]

\* The pended switch is taken as soon as interrupts are enabled; the host's
\* signal may be late (one signal serves one of several requests).
Due == pend /\ m.ie /\ mode = "thread"
InThread == mode = "thread" /\ (Due => port.kind = "signal")

\* A switch happened.
Served == asked' = FALSE /\ UNCHANGED <<port, ver>>

\* The thread computes, with or without its FPU.
Run ==
    /\ InThread /\ lk[m.cur] # "leaving"
    /\ \E v \in {"a", "b"} \ {ver[m.cur]} :
          /\ ver' = [ver EXCEPT ![m.cur] = v]
          /\ m' = [m EXCEPT !.cpu = [r \in DOMAIN @ |-> <<m.cur, v, r>>]]
    /\ UNCHANGED <<port, mode, pend, asked, lk>>

\* RMP_Sched_Lock, outermost
Sched_Lock ==
    /\ InThread /\ lk[m.cur] = "free"
    /\ lk' = [lk EXCEPT ![m.cur] = "locked"]
    /\ m' = [m EXCEPT !.ie = @ /\ ~port.mask]
    /\ UNCHANGED <<port, mode, pend, asked, ver>>

\* The end of RMP_Sched_Unlock: RMP_INT_UNMASK
Sched_Unlock ==
    /\ InThread /\ lk[m.cur] # "free"
    /\ lk' = [lk EXCEPT ![m.cur] = "free"]
    /\ m' = [m EXCEPT !.ie = TRUE]
    /\ UNCHANGED <<port, mode, pend, asked, ver>>

\* RMP_Yield, or the call of _RMP_Yield in RMP_Sched_Unlock.
Yield ==
    /\ InThread /\ lk[m.cur] # "leaving"
    /\ lk' = [lk EXCEPT ![m.cur] = IF @ = "locked" THEN "leaving" ELSE @]

\* Mutant: the flag is set in threads as well.
Yield_Switch_Flag ==
    /\ Yield /\ port.kind \in {"flag", "fast"}
    /\ pend' = TRUE /\ asked' = TRUE
    /\ UNCHANGED <<port, m, mode, ver>>

\* _RMP_Yield of the ports that switch at once.
Yield_Switch ==
    /\ Yield /\ port.kind \in {"flag", "fast"}
    /\ \E t \in Threads :
          m' = Load(Run_High(Save(m, port.yield, port.on.yield), t), port.yield)
    /\ Served /\ UNCHANGED <<mode, pend>>

\* _RMP_Yield of the others.
Yield_Pend ==
    /\ Yield /\ port.kind \in {"pend", "signal"}
    /\ pend' = TRUE /\ asked' = TRUE
    /\ UNCHANGED <<port, m, mode, ver>>

\* PendSV_Handler: the pended switch.
PendSV ==
    /\ Due /\ port.kind # "flag"
    /\ pend' = FALSE
    /\ \E t \in Threads : m' = Load(Run_High(Save(m, port.ctx, m.ie), t), port.ctx)
    /\ Served /\ UNCHANGED <<mode, lk>>

\* An interrupt that calls the kernel.
Int_Enter ==
    /\ mode = "thread" /\ m.ie
    /\ mode' = "isr"
    /\ m' = Save(m, port.int, m.ie)
    /\ UNCHANGED <<port, pend, asked, lk, ver>>

\* _RMP_Yield in an interrupt.
Int_Yield ==
    /\ mode = "isr"
    /\ pend' = TRUE /\ asked' = TRUE
    /\ UNCHANGED <<port, m, mode, lk, ver>>

\* The end of an interrupt: a port with the flag serves it there.
Int_Exit ==
    /\ mode = "isr" /\ ~(port.kind = "flag" /\ pend)
    /\ mode' = "thread"
    /\ m' = Load(m, port.int)
    /\ UNCHANGED <<port, pend, asked, lk, ver>>
Int_Exit_Switch ==
    /\ mode = "isr" /\ port.kind = "flag" /\ pend
    /\ mode' = "thread" /\ pend' = FALSE
    /\ \E t \in Threads : m' = Load(Run_High(m, t), port.int)
    /\ Served /\ UNCHANGED lk

Next == \/ Run \/ Sched_Lock \/ Sched_Unlock \/ Yield_Switch \/ Yield_Pend
        \/ PendSV \/ Int_Enter \/ Int_Yield \/ Int_Exit \/ Int_Exit_Switch
Spec == Init /\ [][Next]_vars

----------------------------------------------------------------------------
(* What the assembly of a port must see to, whatever threads and           *)
(* interrupts do.                                                          *)

Registers(p) ==
    /\ {p.mask, p.force, p.on.new, p.on.yield} \subseteq BOOLEAN
    /\ p.over \in Seq(ToSet(p.new))
    /\ \A path \in {p.yield, p.ctx, p.int} :
          \A x \in BOOLEAN : path.push[x] \in Seq(File(p))

\* Loads pop what saves push, the way back; the switches and the interrupts
\* that switch use one frame, which is the one of a new thread.  The FPU only
\* adds registers, and leaves the status word, by which a load finds out about
\* it, in its place.
Switchable(p) ==
    LET frame == p.yield.pop
    IN  /\ Registers(p)
        /\ \A path \in {p.yield, p.ctx, p.int} :
              /\ \A x \in BOOLEAN : /\ path.pop[x] = Reverse(path.push[x])
                                    /\ IsInjective(path.pop[x])
              /\ \/ p.stat \notin ToSet(path.pop[FALSE]) \cup ToSet(path.pop[TRUE])
                 \/ \E n \in DOMAIN path.pop[FALSE] \cap DOMAIN path.pop[TRUE] :
                       path.pop[FALSE][n] = p.stat /\ path.pop[TRUE][n] = p.stat
        /\ p.ctx.pop = frame /\ (p.kind = "flag" => p.int.pop = frame)
        /\ p.new = frame[FALSE] \o p.over
        /\ p.stat \in p.entry /\ p.entry \subseteq ToSet(frame[FALSE])
        /\ ToSet(frame[FALSE]) \subseteq ToSet(frame[TRUE])

\* A load enables interrupts: always, or because every frame says so.
Reopens(p) == p.force \/ (p.on.new /\ p.on.yield)

\* A switch comes at once, or as soon as interrupts are enabled again.
Prompt(p) == p.kind \in {"flag", "signal"} \/ (p.mask /\ Reopens(p))

----------------------------------------------------------------------------
(* Properties.                                                             *)

\* Code of a thread finds every register with the value it left there, an
\* inactive FPU aside, and its stack pointer where it was, however it was
\* switched out and in (yield, pended switch, end of an interrupt; with or
\* without FPU); a new thread finds its entry, its argument and its status.
Needed(t) == CASE ver[t] = "new" -> port.entry
               [] ver[t] = "a"   -> File(port) \ FPU(port)
               [] ver[t] = "b"   -> File(port)
Rest(t) == IF t = Start THEN <<>>
           ELSE SubSeq(Stack_Init(port, t), Len(port.new) - Len(port.over) + 1, Len(port.new))
OwnContext ==
    mode = "thread" =>
       /\ m.stk[m.cur] = Rest(m.cur)
       /\ \A r \in Needed(m.cur) : m.cpu[r] = <<m.cur, ver[m.cur], r>>

\* A thread does not go on between a request to switch and the switch, be it
\* its own or one of an interrupt: the flag, the fast path and the software
\* interrupt lose none, whatever the order of locks, interrupts and yields.
\* (The Linux port's signals may be late.)
NoLostYield == [][ver' # ver => ~asked \/ port.kind = "signal"]_vars

\* Code outside the scheduler lock runs with interrupts enabled, whichever
\* way its thread was switched in: the routines that switch "will unmask
\* interrupts at [their] end anyway" (rmp_kernel.c:880-882).
Interruptible == mode = "thread" /\ lk[m.cur] = "free" => m.ie
\* RL78 is the port whose load restores a word with the flag clear.
Masked == {Port("RL78")}
Preemptible == port \notin Masked => Interruptible
=============================================================================
