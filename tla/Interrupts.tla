----------------------------- MODULE Interrupts -----------------------------
(***************************************************************************)
(* Segments, gates and interrupts of the kernel, one instruction a step:   *)
(* init_cpu (src/x86.c) loads the GDT, reloads the segment registers       *)
(* through an iretq and fills the IDT, and main2 is entered on a stack of  *)
(* its own.  An interrupt may come between any two instructions, also      *)
(* those of the vectors (generated by test/gen-vectors.c), of              *)
(* interrupt_handler_stub (src/stubs.S) and of interrupt_handler           *)
(* (src/interrupts.c).                                                     *)
(*                                                                         *)
(* The assembly is data (Text, Vector), read by one action per kind of     *)
(* instruction.  What the processor does when it delivers an interrupt or  *)
(* executes iretq is external.  The stack is counted in words of 8 bytes;  *)
(* an even word is aligned to 16 bytes.                                    *)
(***************************************************************************)
EXTENDS Integers, Sequences, FiniteSets

CONSTANTS
    StackWords,     \* the stack's size: PAGE_SIZE / 8 in the kernel
    Scratch,        \* words a C function uses below its return address
    Irqs,           \* numbers of the maskable interrupts of devices
    Faults,         \* <<routine, exception>>: what the kernel's C code may raise, where
    MaxInterrupts   \* bound on the interrupts of devices, NMIs and stray jumps

EXC_NMI == 2
EXC_BP == 3
N_INTERRUPTS == 256
Exceptions == {f[2] : f \in Faults}
Numbers == Irqs \cup Exceptions \cup {EXC_NMI, EXC_BP, 40}

\* Registers in the order of struct x86_64_registers.
Registers == <<"rdi", "rsi", "rbp", "rsp", "rbx", "rdx", "rcx", "rax", "r8", "r9",
               "r10", "r11", "r12", "r13", "r14", "r15">>

\* What one interrupt takes of the stack: alignment, the processor's five words
\* and error code, the number, the registers and the return address.
InterruptWords == 1 + 5 + 1 + 1 + Len(Registers) + 1

\* The stack holds what the kernel and two interrupts use, and the kernel runs
\* with none of the features on whose faults have an error code that
\* EXC_HAS_ERROR_CODE does not know.
ASSUME InterruptsAssumption ==
    /\ Scratch \in Nat /\ MaxInterrupts \in Nat
    /\ StackWords \in Nat /\ StackWords >= 8 + 2 * InterruptWords + Scratch
    /\ Numbers \subseteq 0 .. N_INTERRUPTS - 1
    /\ \A n \in Irqs : n >= 32
    /\ Faults \subseteq {"kernel", "main2"} \X (0 .. 31 \ {21, 29, 30})
Reg == {Registers[k] : k \in DOMAIN Registers}
CallerSaved == {"rdi", "rsi", "rdx", "rcx", "rax", "r8", "r9", "r10", "r11"}

\* Words: what a register, a stack slot or rip can hold.
Imm(n) == <<"imm", n>>
Addr(a) == <<"stack", a>>
Code(routine, k) == <<"code", routine, k>>
VectorCode(n, k) == <<"vector", n, k>>
Flags(enabled) == <<"flags", enabled>>
Value(r) == <<"value", r>>      \* whatever the kernel has in r
Junk == <<"junk">>              \* whatever a C function leaves behind
Magic == <<"magic">>
Fault == <<"fault">>            \* in rip: the processor shuts down

VARIABLES
    reg, rip, cs, ss, data,     \* data: the selector in ds, es, fs and gs
    enabled,                    \* rflags.IF
    nmi_blocked,                \* between the delivery of an NMI and an iretq
    stack,
    gdtr, idtr, idt,            \* the tables in effect, and the IDT in memory
    saved,                      \* history: the contexts interrupted
    budget,
    faulting        \* once C code has faulted: in which routine, which exception

vars == <<reg, rip, cs, ss, data, enabled, nmi_blocked, stack, gdtr, idtr, idt, saved, budget,
          faulting>>
segments == <<cs, ss, data>>
tables == <<gdtr, idtr, idt>>
control == <<enabled, nmi_blocked>>

rsp == reg["rsp"][2]
-----------------------------------------------------------------------------
(***************************************************************************)
(* Tables.  A uint64_t is a sequence of four 16-bit parts, lowest first.   *)
(***************************************************************************)
GDTI_KERNEL_CODE == 1
GDTI_KERNEL_DATA == 2

\* The flags of the descriptors; index 0 is the null descriptor.
gdt ==
    [i \in 0 .. 2 |->
        CASE i = 0 -> {}
          [] i = GDTI_KERNEL_CODE -> {"S", "L", "P", "G", "X", "XR"}
          [] i = GDTI_KERNEL_DATA -> {"S", "P", "G", "RW"}]

\* Addresses of the vectors, in the upper half, all parts different.
vector_table == [n \in Numbers |-> <<4096 + 16 * n, 17, 33024, 65535>>]

SEGDESC_P == 2 ^ (47 - 32)
\* Mutant: trap gates.
SDT_INTR_Trap == 15 * 2 ^ (40 - 32)
SDT_INTR == 14 * 2 ^ (40 - 32)

\* Mutant: the index is not shifted.
Gate_IndexAsSelector(n) ==
    LET v == vector_table[n]
    IN  <<v[1], GDTI_KERNEL_CODE, SEGDESC_P + SDT_INTR, v[2], v[3], v[4], 0, 0>>

\* An entry made by init_idt: the low word's parts, then the high word's.
Gate(n) ==
    LET v == vector_table[n]
        code_segment_selector == GDTI_KERNEL_CODE * 8
    IN  <<v[1], code_segment_selector, SEGDESC_P + SDT_INTR, v[2], v[3], v[4], 0, 0>>

\* What the processor reads out of an entry.
Offset(gate) == <<gate[1], gate[4], gate[5], gate[6]>>
Present(gate) == gate[3] \div 2 ^ 15 = 1
Masks(gate) == (gate[3] \div 2 ^ 8) % 16 = 14
Stays(gate) == (gate[3] \div 2 ^ 8) % 16 = 15

\* A selector that the processor accepts for cs, and for ss.
Descriptor(sel) == IF sel \div 8 \in DOMAIN gdtr THEN gdtr[sel \div 8] ELSE {}
IsCode(sel) == sel % 8 = 0 /\ {"P", "S", "X", "L"} \subseteq Descriptor(sel)
IsData(sel) == /\ sel % 8 = 0 /\ {"P", "S", "RW"} \subseteq Descriptor(sel)
               /\ "X" \notin Descriptor(sel)

\* Exceptions for which the processor pushes an error code.
PushesError(n) == n \in {8, 10, 11, 12, 13, 14, 17, 21, 29, 30}
-----------------------------------------------------------------------------
(***************************************************************************)
(* The code.                                                               *)
(***************************************************************************)
I(op, arg) == [op |-> op, arg |-> arg]
Pushes(regs) == [k \in DOMAIN regs |-> I("push", regs[k])]
Pops(regs) == [k \in DOMAIN regs |-> I("pop", regs[k])]

EXC_HAS_ERROR_CODE(n) == n \in {8, 10, 11, 12, 13, 14, 17}

Vector(n) ==
    (IF EXC_HAS_ERROR_CODE(n) THEN <<>> ELSE <<I("pushi", 0)>>)
    \o <<I("pushi", n), I("jmp", "interrupt_handler_stub")>>

\* Mutant: two registers pushed in the wrong order.
pushaq_RdxBeforeRcx ==
    <<I("push", "r15"), I("lea", "r15")>>
    \o Pushes(<<"r14", "r13", "r12", "r11", "r10", "r9", "r8",
                "rax", "rdx", "rcx", "rbx", "r15", "rbp", "rsi", "rdi">>)

\* push r15; lea 8(%rsp), %r15; ...: the slot of rsp is pushed from r15.
pushaq ==
    <<I("push", "r15"), I("lea", "r15")>>
    \o Pushes(<<"r14", "r13", "r12", "r11", "r10", "r9", "r8",
                "rax", "rcx", "rdx", "rbx", "r15", "rbp", "rsi", "rdi">>)

\* Mutant: two registers popped in the wrong order.
popaq_RcxBeforeRdx ==
    Pops(<<"rdi", "rsi", "rbp">>) \o <<I("add", 1)>>
    \o Pops(<<"rbx", "rcx", "rdx", "rax",
              "r8", "r9", "r10", "r11", "r12", "r13", "r14", "r15">>)

popaq ==
    Pops(<<"rdi", "rsi", "rbp">>) \o <<I("add", 1)>>
    \o Pops(<<"rbx", "rdx", "rcx", "rax",
              "r8", "r9", "r10", "r11", "r12", "r13", "r14", "r15">>)

interrupt_handler_stub ==
    pushaq \o <<I("magic", "rsi"), I("movrsp", "rdi"), I("call", "interrupt_handler")>>
    \o popaq \o <<I("add", 2), I("iretq", 0)>>

\* Mutant: rsp is saved before the return address is popped.
init_segment_selectors_RspBeforePop ==
    <<I("null", 0), I("movrsp", "rax"), I("pop", "rcx"), I("shl", "rdi"), I("shl", "rsi"),
      I("push", "rdi"), I("push", "rax"), I("pushfq", 0), I("push", "rsi"),
      I("push", "rcx"), I("iretq", 0)>>

init_segment_selectors ==
    <<I("null", 0), I("pop", "rcx"), I("shl", "rdi"), I("movrsp", "rax"), I("shl", "rsi"),
      I("push", "rdi"), I("push", "rax"), I("pushfq", 0), I("push", "rsi"),
      I("push", "rcx"), I("iretq", 0)>>

setup_new_stack ==
    <<I("newstack", 0), I("zero", "rbp"), I("push", "rbp"), I("jmp", "main2")>>

\* init_cpu and the rest of kernel_main, then main2, as far as they matter here;
\* "work" is init_apic and the C code that follows it.
kernel ==
    <<I("lgdt", 0), I("call", "init_segment_selectors"), I("init_idt", 0), I("lidt", 0),
      I("work", 0), I("call", "setup_new_stack")>>
main2 == <<I("work", 0), I("int", 40), I("int", EXC_BP), I("hang", 0)>>

Text ==
    [kernel |-> kernel,
     main2 |-> main2,
     setup_new_stack |-> setup_new_stack,
     init_segment_selectors |-> init_segment_selectors,
     interrupt_handler_stub |-> interrupt_handler_stub,
     interrupt_handler |-> <<I("check", 0), I("dispatch", 0), I("ret", 0)>>,
     halt |-> <<I("cli", 0), I("hang", 0)>>]

Fetch == IF rip[1] = "vector" THEN Vector(rip[2])[rip[3]] ELSE Text[rip[2]][rip[3]]
Following == [rip EXCEPT ![3] = @ + 1]
Op(op) == rip # Fault /\ Fetch.op = op
arg == Fetch.arg

Working == Op("work")
NoFault == <<"none", 0>>
FaultsHere == Working /\ faulting[1] = rip[2]
ShutDown == rip = Code("main2", 4)
Halted == rip = Code("halt", 2)
-----------------------------------------------------------------------------
(***************************************************************************)
(* kernel_main runs on the loader's stack, aligned or not, and with what   *)
(* the firmware left in IF and in the segment registers.                   *)
(***************************************************************************)
Init ==
    /\ \E top \in {StackWords - 2, StackWords - 3} :
           reg = [r \in Reg |-> IF r = "rsp" THEN Addr(top) ELSE Value(r)]
    /\ rip = Code("kernel", 1)
    /\ cs = 56 /\ ss = 48 /\ data = 48
    /\ enabled \in BOOLEAN /\ nmi_blocked = FALSE
    /\ stack = [a \in 0 .. StackWords - 1 |-> Junk]
    /\ gdtr = [i \in {6, 7} |-> {}] /\ idtr = "firmware"
    /\ idt = [n \in Numbers |-> <<0, 0, 0, 0, 0, 0, 0, 0>>]
    /\ saved = <<>>
    /\ budget = MaxInterrupts
    /\ faulting = NoFault

\* The words of ws are pushed, the first of them first, below word a.
Pushed(a, ws) ==
    [b \in DOMAIN stack |-> IF b \in a - Len(ws) .. a - 1 THEN ws[a - b] ELSE stack[b]]
Push(w) ==
    /\ stack' = Pushed(rsp, <<w>>)
    /\ reg' = [reg EXCEPT !["rsp"] = Addr(rsp - 1)]
Set(r, w) == reg' = [reg EXCEPT ![r] = w]

\* The instructions that only move words.
Move ==
    /\ \/ Op("push") /\ Push(reg[arg])
       \/ Op("pushi") /\ Push(Imm(arg))
       \/ Op("pushfq") /\ Push(Flags(enabled))
       \/ /\ Op("pop") /\ stack' = stack
          /\ reg' = [reg EXCEPT ![arg] = stack[rsp], !["rsp"] = Addr(rsp + 1)]
       \/ Op("add") /\ Set("rsp", Addr(rsp + arg)) /\ stack' = stack
       \/ Op("lea") /\ Set(arg, Addr(rsp + 1)) /\ stack' = stack
       \/ Op("movrsp") /\ Set(arg, Addr(rsp)) /\ stack' = stack
       \/ Op("shl") /\ Set(arg, Imm(8 * reg[arg][2])) /\ stack' = stack
       \/ Op("magic") /\ Set(arg, Magic) /\ stack' = stack
       \/ Op("zero") /\ Set(arg, Imm(0)) /\ stack' = stack
    /\ rip' = Following
    /\ UNCHANGED <<segments, control, tables, saved, budget, faulting>>

\* lea PAGE_SIZE(%rsi), %rsp: the page just allocated becomes the stack, and the
\* loader's is not used again.
NewStack ==
    /\ Op("newstack")
    /\ Set("rsp", Addr(StackWords)) /\ stack' = [a \in DOMAIN stack |-> Junk]
    /\ rip' = Following
    /\ UNCHANGED <<segments, control, tables, saved, budget, faulting>>

\* xor %ax, %ax, and the four segment registers set from it.
Null ==
    /\ Op("null") /\ data' = 0 /\ Set("rax", Junk)
    /\ rip' = Following
    /\ UNCHANGED <<cs, ss, control, tables, stack, saved, budget, faulting>>

\* The kernel passes the indexes of its segments to init_segment_selectors, and
\* main2 and the new page to setup_new_stack.
Call ==
    /\ Op("call")
    /\ stack' = Pushed(rsp, <<Following>>)
    /\ reg' = [reg EXCEPT !["rsp"] = Addr(rsp - 1),
                          !["rdi"] = CASE arg = "init_segment_selectors" -> Imm(GDTI_KERNEL_DATA)
                                       [] arg = "setup_new_stack" -> Code("main2", 1)
                                       [] OTHER -> @,
                          !["rsi"] = CASE arg = "init_segment_selectors" -> Imm(GDTI_KERNEL_CODE)
                                       [] arg = "setup_new_stack" -> Addr(0)
                                       [] OTHER -> @]
    /\ rip' = Code(arg, 1)
    /\ UNCHANGED <<segments, control, tables, saved, budget, faulting>>

Ret ==
    /\ Op("ret") /\ rip' = stack[rsp] /\ Set("rsp", Addr(rsp + 1))
    /\ UNCHANGED <<segments, control, tables, stack, saved, budget, faulting>>

Jmp ==
    /\ Op("jmp") /\ rip' = Code(arg, 1)
    /\ UNCHANGED <<reg, segments, control, tables, stack, saved, budget, faulting>>

\* What iretq finds on the stack is a frame that the processor accepts.
IsFrame(a) ==
    /\ a + 4 < StackWords
    /\ stack[a][1] \in {"code", "vector"}
    /\ stack[a + 1][1] = "imm" /\ IsCode(stack[a + 1][2])
    /\ stack[a + 2][1] = "flags"
    /\ stack[a + 3][1] = "stack"
    /\ stack[a + 4][1] = "imm" /\ IsData(stack[a + 4][2])

\* iretq also ends the blocking of NMIs.
Iretq ==
    /\ Op("iretq")
    /\ IF IsFrame(rsp)
       THEN /\ rip' = stack[rsp] /\ cs' = stack[rsp + 1][2]
            /\ enabled' = stack[rsp + 2][2]
            /\ Set("rsp", stack[rsp + 3]) /\ ss' = stack[rsp + 4][2]
       ELSE rip' = Fault /\ UNCHANGED <<reg, cs, ss, enabled>>
    /\ nmi_blocked' = FALSE
    /\ saved' = IF saved = <<>> THEN saved ELSE SubSeq(saved, 1, Len(saved) - 1)
    /\ UNCHANGED <<data, tables, stack, budget, faulting>>

LoadTables ==
    /\ \/ Op("lgdt") /\ gdtr' = gdt /\ UNCHANGED <<idtr, idt>>
       \/ Op("init_idt") /\ idt' = [n \in Numbers |-> Gate(n)] /\ UNCHANGED <<gdtr, idtr>>
       \/ Op("lidt") /\ idtr' = "kernel" /\ UNCHANGED <<gdtr, idt>>
    /\ rip' = Following
    /\ UNCHANGED <<reg, segments, control, stack, saved, budget, faulting>>

\* The C code of the kernel between init_cpu and interrupt(40).
Work ==
    /\ Op("work") /\ ~FaultsHere /\ rip' = Following
    /\ UNCHANGED <<reg, segments, control, tables, stack, saved, budget, faulting>>

-----------------------------------------------------------------------------
(***************************************************************************)
(* interrupt_handler and halt.                                             *)
(***************************************************************************)
\* if (magic != interrupt_magic) halt();
CheckMagic ==
    /\ Op("check")
    /\ rip' = IF reg["rsi"] = Magic THEN Following ELSE Code("halt", 1)
    /\ UNCHANGED <<reg, segments, control, tables, stack, saved, budget, faulting>>

\* Mutant: all but a breakpoint hang.
Dispatch_HangsAtBreak ==
    /\ Op("dispatch")
    /\ rip' = IF stack[reg["rdi"][2] + 16] = Imm(EXC_BP) THEN Following ELSE rip
    /\ UNCHANGED <<reg, segments, control, tables, stack, saved, budget, faulting>>

\* A breakpoint returns, any other interrupt passes the debugger's break point
\* and returns.  The compiled function saves what the ABI tells it to save.
Dispatch ==
    /\ Op("dispatch") /\ rip' = Following
    /\ reg' = [r \in Reg |-> IF r \in CallerSaved THEN Junk ELSE reg[r]]
    /\ stack' = Pushed(rsp, [k \in 1 .. Scratch |-> Junk])
    /\ UNCHANGED <<segments, control, tables, saved, budget, faulting>>

Cli ==
    /\ Op("cli") /\ rip' = Following /\ enabled' = FALSE
    /\ UNCHANGED <<reg, segments, nmi_blocked, tables, stack, saved, budget, faulting>>

\* HANG() of halt, or the machine is off.
Hang == (rip = Fault \/ Op("hang")) /\ UNCHANGED vars
-----------------------------------------------------------------------------
(***************************************************************************)
(* Delivery by the processor, through the kernel's IDT: rsp is aligned,    *)
(* the frame pushed, and an interrupt gate clears IF.  next is the rip     *)
(* that the frame gets.                                                    *)
(***************************************************************************)
Deliver(n, error, next) ==
    LET base == (rsp \div 2) * 2
        frame == <<Imm(ss), reg["rsp"], Flags(enabled), Imm(cs), next>> \o error
        gate == idt[n]
        entry == {v \in Numbers : vector_table[v] = Offset(gate)}
        valid == Present(gate) /\ (Masks(gate) \/ Stays(gate)) /\ IsCode(gate[2]) /\ entry # {}
    IN  /\ idtr = "kernel"
        /\ stack' = Pushed(base, frame)
        /\ reg' = [reg EXCEPT !["rsp"] = Addr(base - Len(frame))]
        /\ rip' = IF valid THEN VectorCode(CHOOSE v \in entry : TRUE, 1) ELSE Fault
        /\ cs' = gate[2]
        /\ enabled' = (enabled /\ ~Masks(gate))
        /\ nmi_blocked' = (nmi_blocked \/ n = EXC_NMI)
        /\ saved' = Append(saved,
               [reg |-> reg, rip |-> next, cs |-> cs, ss |-> ss, enabled |-> enabled,
                live |-> [a \in rsp .. StackWords - 1 |-> stack[a]], number |-> n,
                error |-> IF error = <<>> THEN Imm(0) ELSE error[1]])
        /\ UNCHANGED <<ss, data, tables>>

\* Before set_idt the firmware's IDT is in effect, which the loader's page tables
\* do not map: the processor cannot deliver anything and shuts down.
Early ==
    /\ idtr = "firmware" /\ rip' = Fault
    /\ UNCHANGED <<reg, segments, control, stack, tables, saved>>

ErrorCode(n) == IF PushesError(n) THEN <<Value("error code")>> ELSE <<>>

\* interrupt(40) and int3() of main2.
SoftwareInterrupt ==
    Op("int") /\ Deliver(arg, <<>>, Following) /\ UNCHANGED <<budget, faulting>>

\* The C code comes to an instruction that faults.  The frame gets its address, so
\* that it is executed again after the iretq and faults again: interrupt_handler
\* does nothing about the cause.
Exception ==
    /\ Working
    /\ \E n \in Exceptions :
           /\ <<rip[2], n>> \in Faults /\ faulting \in {NoFault, <<rip[2], n>>}
           /\ faulting' = <<rip[2], n>>
           /\ Deliver(n, ErrorCode(n), rip)
    /\ UNCHANGED budget

Irq ==
    /\ budget > 0 /\ budget' = budget - 1
    /\ enabled /\ rip # Fault /\ ~ShutDown
    /\ Early \/ \E n \in Irqs : Deliver(n, <<>>, rip)
    /\ UNCHANGED faulting

Nmi ==
    /\ budget > 0 /\ budget' = budget - 1
    /\ ~nmi_blocked /\ rip # Fault /\ ~ShutDown
    /\ Early \/ Deliver(EXC_NMI, <<>>, rip)
    /\ UNCHANGED faulting

\* "to catch when gdb jumps here for odd reasons"
GdbJump ==
    /\ budget > 0 /\ budget' = budget - 1
    /\ Working /\ idtr = "kernel"
    /\ rip' = Code("interrupt_handler", 1)
    /\ UNCHANGED <<reg, segments, control, tables, stack, saved, faulting>>

Execute ==
    \/ Move \/ NewStack \/ Null \/ Call \/ Ret \/ Jmp \/ Iretq \/ LoadTables \/ Work
    \/ CheckMagic \/ Dispatch \/ Cli \/ Hang \/ SoftwareInterrupt

Next == Execute \/ Exception \/ Irq \/ Nmi \/ GdbJump

\* The processor executes instructions, the one that faults among them.
Spec == Init /\ [][Next]_vars /\ WF_vars(Execute \/ Exception)
-----------------------------------------------------------------------------
(***************************************************************************)
(* Properties.                                                             *)
(***************************************************************************)
Routine == DOMAIN Text

\* rip points into the code or the processor has shut down, and the stack
\* pointer stays within the stack.
TypeOK ==
    /\ rip # Fault =>
           \/ rip[1] = "code" /\ rip[2] \in Routine /\ rip[3] \in DOMAIN Text[rip[2]]
           \/ rip[1] = "vector" /\ rip[2] \in Numbers /\ rip[3] \in DOMAIN Vector(rip[2])
    /\ DOMAIN reg = Reg /\ rsp \in 0 .. StackWords
    /\ cs \in Nat /\ ss \in Nat /\ data \in Nat
    /\ enabled \in BOOLEAN /\ nmi_blocked \in BOOLEAN
    /\ DOMAIN stack = 0 .. StackWords - 1
    /\ idtr \in {"firmware", "kernel"} /\ DOMAIN idt = Numbers
    /\ budget \in 0 .. MaxInterrupts
    /\ faulting \in Faults \cup {NoFault}

\* An interrupt is invisible to what it interrupts, be it the kernel or the
\* entry or exit of another interrupt: after the iretq of the stub every
\* register, the segments, IF, rip and every word of the stack at or above
\* the stack pointer are as they were (src/stubs.S, src/asm-util.h).
Transparent ==
    [][Len(saved') < Len(saved) =>
           LET c == saved[Len(saved)]
           IN  /\ reg' = c.reg /\ rip' = c.rip /\ cs' = c.cs /\ ss' = c.ss
               /\ enabled' = c.enabled
               /\ \A a \in DOMAIN c.live : stack'[a] = c.live[a]]_vars

\* When interrupt_handler looks at *frame it is the struct interrupt_frame of
\* the interrupt in progress: the registers in the order of struct
\* x86_64_registers (the slot of rsp holding the address of
\* interrupt_number), the number, the error code or 0, and the processor's
\* words (include/opsys/x86.h).
FrameIsStruct ==
    rip = Code("interrupt_handler", 2) =>
        /\ saved # <<>>
        /\ LET c == saved[Len(saved)]
               frame == reg["rdi"][2]
               number == frame + Len(Registers)
           IN  /\ reg["rdi"][1] = "stack"
               /\ \A k \in DOMAIN Registers :
                      stack[frame + k - 1] =
                          IF Registers[k] = "rsp" THEN Addr(number) ELSE c.reg[Registers[k]]
               /\ [k \in 0 .. 6 |-> stack[number + k]] =
                      [k \in 0 .. 6 |->
                          <<Imm(c.number), c.error, c.rip, Imm(c.cs), Flags(c.enabled),
                            c.reg["rsp"], Imm(c.ss)>>[k + 1]]

\* Gates mask interrupts and iretq restores IF, so that at most two
\* interrupts are in progress, the second an NMI, and the stack, a single
\* page with nothing to guard its end, holds no more than two frames below
\* what the kernel itself uses (src/stubs.S, src/x86.c).
NestingBounded ==
    /\ Len(saved) <= 2
    /\ Len(saved) = 2 => saved[2].number = EXC_NMI
    /\ rsp >= StackWords - 8 - Len(saved) * InterruptWords

\* After init_segment_selectors the kernel runs on its own descriptors, with
\* the null selector in the data registers, on the stack and with the
\* preserved registers it called from; main2 starts on its page as a function
\* that was called does, aligned and below a null frame pointer (src/stubs.S).
SegmentsLoaded ==
    /\ rip[1] = "code" /\ (rip[2] = "main2" \/ (rip[2] = "kernel" /\ rip[3] > 2)) =>
           /\ IsCode(cs) /\ IsData(ss) /\ data = 0
           /\ \A r \in Reg \ (CallerSaved \cup {"rsp", "rbp"}) : reg[r] = Value(r)
    /\ rip[1] = "code" /\ rip[2] = "kernel" =>
           rsp \in {StackWords - 2, StackWords - 3} /\ reg["rbp"] = Value("rbp")
    /\ rip[1] = "code" /\ rip[2] = "main2" =>
           rsp = StackWords - 1 /\ reg["rbp"] = Imm(0) /\ stack[rsp] = Imm(0)

\* Once set_idt is done no interrupt and no iretq meets a gate, a selector or
\* a frame that the processor rejects; before, one that comes is the end of
\* it (src/x86.c, init_cpu and init_idt; src/gdt.c).
NeverFaults == rip = Fault => idtr = "firmware"

\* The machine gets to ResetSystem through its two interrupts, unless a stray
\* entry into the handler halted it, an interrupt came before set_idt, or an
\* instruction of the C code faults.  With a fault it never gets there: the
\* exception is dismissed to the instruction that raised it, which is executed
\* and faults for ever (src/interrupts.c).
Stopped == Halted \/ (rip = Fault /\ idtr = "firmware")
ShutsDown ==
    \/ <>[]((ShutDown /\ faulting = NoFault) \/ Stopped)
    \/ []<>FaultsHere
=============================================================================
