-------------------------- MODULE InterruptsProofs --------------------------
(***************************************************************************)
(* Interrupts are invisible to what they interrupt, for any stack that     *)
(* holds two of them, any devices and exceptions, and however many come.   *)
(*                                                                         *)
(* The invariant looks at the stack as a row of activities, each described *)
(* relative to the context it interrupted: Setup and Running describe      *)
(* kernel_main and main2, Handles an interrupt's way through vector, stub  *)
(* and handler.  A step of the uppermost activity changes no word of those *)
(* below it, and the iretq of the stub gives back what was interrupted.    *)
(***************************************************************************)
EXTENDS Interrupts, SequenceTheorems, TLAPS

KernelCode == GDTI_KERNEL_CODE * 8
KernelData == GDTI_KERNEL_DATA * 8
Preserved == Reg \ (CallerSaved \cup {"rsp", "rbp"})

\* A register file and the stack are functions.
IsRegisters(r) == r = [x \in Reg |-> r[x]]
IsStack(s) == s = [a \in 0 .. StackWords - 1 |-> s[a]]
Tops == {StackWords - 2, StackWords - 3}
-----------------------------------------------------------------------------
(***************************************************************************)
(* The kernel's own code.                                                  *)
(***************************************************************************)
\* In init_segment_selectors, with registers r, data selector d, IF e and the
\* stack's words st; top is the stack pointer of its caller.
InitDepth(k) ==
    CASE k \in 1 .. 2 -> 1
      [] k \in 3 .. 6 -> 0
      [] k \in 7 .. 11 -> k - 6

InInit(k, top, r, d, e, st) ==
    /\ k \in 1 .. 11
    /\ r["rsp"] = Addr(top - InitDepth(k))
    /\ k < 3 => st[top - 1] = Code("kernel", 3)
    /\ k > 1 => d = 0
    /\ k > 2 => r["rcx"] = Code("kernel", 3)
    /\ r["rdi"] = Imm(IF k > 3 THEN KernelData ELSE GDTI_KERNEL_DATA)
    /\ k > 4 => r["rax"] = Addr(top)
    /\ r["rsi"] = Imm(IF k > 5 THEN KernelCode ELSE GDTI_KERNEL_CODE)
    /\ k > 6 => st[top - 1] = Imm(KernelData)
    /\ k > 7 => st[top - 2] = Addr(top)
    /\ k > 8 => st[top - 3] = Flags(e)
    /\ k > 9 => st[top - 4] = Imm(KernelCode)
    /\ k > 10 => st[top - 5] = Code("kernel", 3)

\* What kernel_main keeps in registers.
OwnRegisters(r) ==
    /\ \A x \in Preserved : r[x] = Value(x)
    /\ r["rbp"] = Value("rbp") /\ r["rsi"] # Magic

\* kernel_main itself, up to set_idt.
InKernel(k, top) ==
    /\ rip = Code("kernel", k)
    /\ reg["rsp"] = Addr(top)
    /\ k > 1 => gdtr = gdt
    /\ k > 2 => cs = KernelCode /\ ss = KernelData /\ data = 0
    /\ k > 3 => idt = [n \in Numbers |-> Gate(n)]

\* kernel_main up to set_idt, or the processor has shut down.
Setup ==
    /\ saved = <<>> /\ idtr = "firmware"
    /\ IsRegisters(reg) /\ IsStack(stack)
    /\ \/ rip = Fault /\ \E a \in StackWords - 8 .. StackWords : reg["rsp"] = Addr(a)
       \/ /\ OwnRegisters(reg)
          /\ \E top \in Tops :
                \/ \E k \in 1 .. 4 : InKernel(k, top)
                \/ /\ \E k \in 1 .. 11 : /\ rip = Code("init_segment_selectors", k)
                                         /\ InInit(k, top, reg, data, enabled, stack)
                   /\ gdtr = gdt

\* The tables are in effect and complete.
Ready ==
    /\ idtr = "kernel" /\ gdtr = gdt
    /\ idt = [n \in Numbers |-> Gate(n)]
    /\ data = 0
    /\ IsRegisters(reg) /\ IsStack(stack)

\* From set_idt on, with registers r, rip p and the stack's words st.
Running(r, p, st) ==
    /\ \A x \in Preserved : r[x] = Value(x)
    /\ r["rsi"] # Magic
    /\ \/ /\ p \in {Code("kernel", 5), Code("kernel", 6)}
          /\ \E top \in Tops : r["rsp"] = Addr(top)
          /\ r["rbp"] = Value("rbp")
       \/ /\ p = Code("setup_new_stack", 1)
          /\ \E top \in Tops : r["rsp"] = Addr(top - 1)
       \/ p = Code("setup_new_stack", 2) /\ r["rsp"] = Addr(StackWords)
       \/ /\ p = Code("setup_new_stack", 3) /\ r["rsp"] = Addr(StackWords)
          /\ r["rbp"] = Imm(0)
       \/ /\ p \in {Code("setup_new_stack", 4)} \cup {Code("main2", k) : k \in 1 .. 4}
          /\ r["rsp"] = Addr(StackWords - 1)
          /\ r["rbp"] = Imm(0) /\ st[StackWords - 1] = Imm(0)
       \/ /\ p \in {Code("interrupt_handler", 1), Code("halt", 1), Code("halt", 2)}
          /\ \E a \in StackWords - 8 .. StackWords : r["rsp"] = Addr(a)
-----------------------------------------------------------------------------
(***************************************************************************)
(* An interrupt of context c.                                              *)
(***************************************************************************)
\* What the stub pushes in the slots below the number.
Slots == <<"r15", "r14", "r13", "r12", "r11", "r10", "r9", "r8",
           "rax", "rcx", "rdx", "rbx", "rsp", "rbp", "rsi", "rdi">>

SP(c) == c.reg["rsp"][2]
Base(c) == (SP(c) \div 2) * 2

\* Word j below the aligned stack pointer, from the processor's frame to the
\* return address of interrupt_handler.
Word(c, j) ==
    CASE j = 1 -> Imm(c.ss)
      [] j = 2 -> c.reg["rsp"]
      [] j = 3 -> Flags(c.enabled)
      [] j = 4 -> Imm(c.cs)
      [] j = 5 -> c.rip
      [] j = 6 -> c.error
      [] j = 7 -> Imm(c.number)
      [] j \in 8 .. 23 -> IF j = 20 THEN Addr(Base(c) - 7) ELSE c.reg[Slots[j - 7]]
      [] j = 24 -> Code("interrupt_handler_stub", 21)

\* How many of these words there are when the stub is at instruction k.
StubDepth(k) ==
    CASE k = 1 -> 7
      [] k = 2 -> 8
      [] k \in 3 .. 18 -> k + 5
      [] k \in 19 .. 20 -> 23
      [] k \in 21 .. 37 -> 44 - k
      [] k = 38 -> 5

\* The registers that still have, or have again, the values of c.
Intact(k) ==
    CASE k \in 1 .. 2 -> Reg \ {"rsp"}
      [] k \in 3 .. 18 -> Reg \ {"rsp", "r15"}
      [] k = 19 -> Reg \ {"rsp", "r15", "rsi"}
      [] k = 20 -> Reg \ {"rsp", "r15", "rsi", "rdi"}
      [] k \in 21 .. 38 -> (Reg \ (CallerSaved \cup {"rsp", "r15"}))
                           \cup {Slots[i] : i \in {i \in 1 .. 16 \ {13} : i + 7 > StubDepth(k)}}

InVector(c, k, r, p, st) ==
    LET text == Vector(c.number)
        depth == 7 - Len(text) + k
    IN  /\ k \in 1 .. Len(text)
        /\ p = VectorCode(c.number, k)
        /\ r["rsp"] = Addr(Base(c) - depth)
        /\ \A x \in Reg \ {"rsp"} : r[x] = c.reg[x]
        /\ \A j \in 1 .. depth : st[Base(c) - j] = Word(c, j)

InStub(c, k, r, p, st) ==
    /\ k \in 1 .. 38
    /\ p = Code("interrupt_handler_stub", k)
    /\ r["rsp"] = Addr(Base(c) - StubDepth(k))
    /\ \A x \in Intact(k) : r[x] = c.reg[x]
    /\ k \in 3 .. 18 => r["r15"] = Addr(Base(c) - 7)
    /\ k \in 19 .. 20 => r["rsi"] = Magic
    /\ k = 20 => r["rdi"] = Addr(Base(c) - 23)
    /\ \A j \in 1 .. StubDepth(k) : st[Base(c) - j] = Word(c, j)

InHandler(c, k, r, p, st) ==
    /\ k \in 1 .. 3
    /\ p = Code("interrupt_handler", k)
    /\ r["rsp"] = Addr(Base(c) - 24)
    /\ \A x \in Reg \ (CallerSaved \cup {"rsp", "r15"}) : r[x] = c.reg[x]
    /\ k \in 1 .. 2 => r["rsi"] = Magic /\ r["rdi"] = Addr(Base(c) - 23)
    /\ \A j \in 1 .. 24 : st[Base(c) - j] = Word(c, j)

Handles(c, r, p, st) ==
    /\ \/ \E k \in 1 .. 3 : InVector(c, k, r, p, st)
       \/ \E k \in 1 .. 38 : InStub(c, k, r, p, st)
       \/ \E k \in 1 .. 3 : InHandler(c, k, r, p, st)
    /\ \A a \in SP(c) .. StackWords - 1 : st[a] = c.live[a]

\* What the processor saved can be given back.
IsContext(c) ==
    /\ IsRegisters(c.reg)
    /\ SP(c) \in Int /\ c.reg["rsp"] = Addr(SP(c))
    /\ c.rip[1] \in {"code", "vector"}
    /\ c.cs = KernelCode /\ c.ss = KernelData
    /\ c.enabled \in BOOLEAN
    /\ c.number \in Numbers
    /\ DOMAIN c.live = SP(c) .. StackWords - 1
    /\ ~EXC_HAS_ERROR_CODE(c.number) => c.error = Imm(0)

SegmentsSet == cs = KernelCode /\ ss = KernelData

Level0 ==
    /\ saved = <<>>
    /\ Running(reg, rip, stack)

Level1 ==
    /\ Len(saved) = 1 /\ saved = <<saved[1]>>
    /\ IsContext(saved[1]) /\ Running(saved[1].reg, saved[1].rip, saved[1].live)
    /\ Handles(saved[1], reg, rip, stack)
    /\ enabled = FALSE
    /\ saved[1].number = EXC_NMI => nmi_blocked

Level2 ==
    /\ Len(saved) = 2 /\ saved = <<saved[1], saved[2]>>
    /\ IsContext(saved[1]) /\ Running(saved[1].reg, saved[1].rip, saved[1].live)
    /\ IsContext(saved[2]) /\ Handles(saved[1], saved[2].reg, saved[2].rip, saved[2].live)
    /\ saved[2].enabled = FALSE
    /\ saved[1].number # EXC_NMI
    /\ Handles(saved[2], reg, rip, stack)
    /\ enabled = FALSE
    /\ saved[2].number = EXC_NMI /\ nmi_blocked

IInv ==
    /\ enabled \in BOOLEAN /\ nmi_blocked \in BOOLEAN
    /\ \/ Setup
       \/ Ready /\ SegmentsSet /\ (Level0 \/ Level1 \/ Level2)
-----------------------------------------------------------------------------
(***************************************************************************)
(* Words, registers and tables.                                            *)
(***************************************************************************)
\* A word tells what it is and what of.
LEMMA WordParts ==
    /\ \A r, k : Code(r, k)[1] = "code" /\ Code(r, k)[2] = r /\ Code(r, k)[3] = k
    /\ \A n, k : VectorCode(n, k)[1] = "vector" /\ VectorCode(n, k)[2] = n /\ VectorCode(n, k)[3] = k
    /\ \A a : Addr(a)[1] = "stack" /\ Addr(a)[2] = a
    /\ \A n : Imm(n)[1] = "imm" /\ Imm(n)[2] = n
    /\ \A e : Flags(e)[1] = "flags" /\ Flags(e)[2] = e
    /\ \A r : Value(r)[1] = "value"
    /\ Magic[1] = "magic" /\ Junk[1] = "junk" /\ Fault[1] = "fault"
  BY DEF Code, VectorCode, Addr, Imm, Flags, Value, Magic, Junk, Fault

\* The register file.
LEMMA RegIs ==
    /\ Reg = {"rdi", "rsi", "rbp", "rsp", "rbx", "rdx", "rcx", "rax", "r8", "r9",
              "r10", "r11", "r12", "r13", "r14", "r15"}
    /\ Len(Registers) = 16 /\ DOMAIN Registers = 1 .. 16
    /\ InterruptWords = 25
<1>1. DOMAIN Registers = 1 .. 16 /\ Len(Registers) = 16
  BY DEF Registers
<1>2. Reg = {"rdi", "rsi", "rbp", "rsp", "rbx", "rdx", "rcx", "rax", "r8", "r9",
             "r10", "r11", "r12", "r13", "r14", "r15"}
  BY <1>1 DEF Reg, Registers
<1> QED BY <1>1, <1>2 DEF InterruptWords

\* Selectors of the kernel's GDT.
LEMMA SelectorsAccepted ==
    /\ KernelCode = 8 /\ KernelData = 16
    /\ gdtr = gdt => IsCode(KernelCode) /\ IsData(KernelData)
<1>1. KernelCode = 8 /\ KernelData = 16
  BY DEF KernelCode, KernelData, GDTI_KERNEL_CODE, GDTI_KERNEL_DATA
<1>2. ASSUME gdtr = gdt PROVE IsCode(8) /\ IsData(16)
  <2>1. DOMAIN gdt = 0 .. 2 /\ gdt[1] = {"S", "L", "P", "G", "X", "XR"} /\ gdt[2] = {"S", "P", "G", "RW"}
    BY DEF gdt, GDTI_KERNEL_CODE, GDTI_KERNEL_DATA
  <2>2. 8 \div 8 = 1 /\ 16 \div 8 = 2 /\ 8 % 8 = 0 /\ 16 % 8 = 0
    OBVIOUS
  <2>3. Descriptor(8) = gdt[1] /\ Descriptor(16) = gdt[2]
    BY <1>2, <2>1, <2>2 DEF Descriptor
  <2> QED BY <2>1, <2>2, <2>3 DEF IsCode, IsData
<1> QED BY <1>1, <1>2

\* The gates that init_idt fills are accepted, mask interrupts, and lead to the
\* vectors they are for.
LEMMA GatesAccepted ==
    ASSUME NEW n \in Numbers
    PROVE  /\ Present(Gate(n)) /\ Masks(Gate(n)) /\ Gate(n)[2] = KernelCode
           /\ {v \in Numbers : vector_table[v] = Offset(Gate(n))} = {n}
<1>1. SEGDESC_P = 32768 /\ SDT_INTR = 3584
  BY DEF SEGDESC_P, SDT_INTR
<1>2. /\ Gate(n)[1] = vector_table[n][1] /\ Gate(n)[2] = KernelCode
      /\ Gate(n)[3] = 32768 + 3584
      /\ Gate(n)[4] = vector_table[n][2] /\ Gate(n)[5] = vector_table[n][3]
      /\ Gate(n)[6] = vector_table[n][4]
  BY <1>1 DEF Gate, KernelCode
<1>3. Present(Gate(n))
  <2>1. 2 ^ 15 = 32768 /\ (32768 + 3584) \div 32768 = 1
    OBVIOUS
  <2> QED BY <1>2, <2>1 DEF Present
<1>4. Masks(Gate(n))
  <2>1. 2 ^ 8 = 256 /\ (32768 + 3584) \div 256 = 142 /\ 142 % 16 = 14
    OBVIOUS
  <2> QED BY <1>2, <2>1 DEF Masks
<1>5. \A v \in Numbers : vector_table[v] = <<4096 + 16 * v, 17, 33024, 65535>>
  BY DEF vector_table
<1>6. Offset(Gate(n)) = <<4096 + 16 * n, 17, 33024, 65535>>
  BY <1>2, <1>5 DEF Offset
<1>7. ASSUME NEW v \in Numbers, vector_table[v] = Offset(Gate(n)) PROVE v = n
  <2>1. v \in Int /\ n \in Int
    BY InterruptsAssumption DEF N_INTERRUPTS
  <2>2. 4096 + 16 * v = 4096 + 16 * n
    BY <1>5, <1>6, <1>7
  <2> QED BY <2>1, <2>2
<1> QED BY <1>2, <1>3, <1>4, <1>5, <1>6, <1>7
-----------------------------------------------------------------------------
(***************************************************************************)
(* The code, instruction by instruction.                                   *)
(***************************************************************************)
\* Every instruction of the vectors.
LEMMA VectorText ==
    ASSUME NEW n
    PROVE  /\ Len(Vector(n)) = (IF EXC_HAS_ERROR_CODE(n) THEN 2 ELSE 3)
           /\ EXC_HAS_ERROR_CODE(n) => /\ Vector(n)[1] = I("pushi", n)
                                       /\ Vector(n)[2] = I("jmp", "interrupt_handler_stub")
           /\ ~EXC_HAS_ERROR_CODE(n) => /\ Vector(n)[1] = I("pushi", 0)
                                        /\ Vector(n)[2] = I("pushi", n)
                                        /\ Vector(n)[3] = I("jmp", "interrupt_handler_stub")
<1> DEFINE a == I("pushi", 0)
           b == I("pushi", n)
           d == I("jmp", "interrupt_handler_stub")
<1> HIDE DEF a, b, d
<1>1. CASE EXC_HAS_ERROR_CODE(n)
  <2>1. Vector(n) = << >> \o <<b, d>>
    BY <1>1 DEF Vector, b, d
  <2>2. Len(Vector(n)) = 2 /\ Vector(n)[1] = b /\ Vector(n)[2] = d
    BY <2>1
  <2> QED BY <1>1, <2>2 DEF b, d
<1>2. CASE ~EXC_HAS_ERROR_CODE(n)
  <2>1. Vector(n) = <<a>> \o <<b, d>>
    BY <1>2 DEF Vector, a, b, d
  <2>2. Len(Vector(n)) = 3 /\ Vector(n)[1] = a /\ Vector(n)[2] = b /\ Vector(n)[3] = d
    BY <2>1
  <2> QED BY <1>2, <2>2 DEF a, b, d
<1> QED BY <1>1, <1>2

\* A sequence is a function on 1 .. n.
LEMMA IsSequence ==
    ASSUME NEW T, NEW n \in Nat, NEW s, s = [k \in 1 .. n |-> s[k]], \A k \in 1 .. n : s[k] \in T
    PROVE  s \in Seq(T) /\ Len(s) = n
  OBVIOUS

\* Concatenation, with sequences as functions.
IsTuple(s, n) == s = [k \in 1 .. n |-> s[k]]
Joined(r, l, s, n, t, m) ==
    /\ IsTuple(r, l)
    /\ \A k \in 1 .. n : r[k] = s[k]
    /\ \A k \in n + 1 .. l : r[k] = t[k - n]

\* Concatenating two tuples joins them.
LEMMA Concatenation ==
    ASSUME NEW n \in Nat, NEW m \in Nat, NEW s, NEW t, IsTuple(s, n), IsTuple(t, m),
           NEW l \in Nat, l = n + m,
           NEW r, r = s \o t
    PROVE  Joined(r, l, s, n, t, m)
<1> DEFINE T == {s[k] : k \in 1 .. n} \cup {t[k] : k \in 1 .. m}
<1>1. s \in Seq(T) /\ Len(s) = n
  <2>1. \A k \in 1 .. n : s[k] \in T
    OBVIOUS
  <2> HIDE DEF T
  <2> QED BY <2>1, IsSequence DEF IsTuple
<1>2. t \in Seq(T) /\ Len(t) = m
  <2>1. \A k \in 1 .. m : t[k] \in T
    OBVIOUS
  <2> HIDE DEF T
  <2> QED BY <2>1, IsSequence DEF IsTuple
<1> HIDE DEF T
<1>3. /\ s \o t \in Seq(T) /\ Len(s \o t) = n + m
      /\ \A k \in 1 .. n + m : (s \o t)[k] = IF k <= n THEN s[k] ELSE t[k - n]
  BY <1>1, <1>2, ConcatProperties, Zenon
<1>4. /\ r \in Seq(T) /\ Len(r) = l
      /\ \A k \in 1 .. l : r[k] = IF k <= n THEN s[k] ELSE t[k - n]
  BY <1>3, Zenon
<1>5. r = [k \in 1 .. l |-> r[k]]
  BY <1>4, LenProperties
<1> QED BY <1>4, <1>5 DEF IsTuple, Joined

\* Every instruction of interrupt_handler_stub.
LEMMA StubText ==
    LET stub == interrupt_handler_stub IN
    /\ stub[1] = I("push", "r15") /\ stub[2] = I("lea", "r15")
    /\ \A k \in 3 .. 17 : stub[k] = I("push", IF k = 14 THEN "r15" ELSE Slots[k - 1])
    /\ stub[18] = I("magic", "rsi") /\ stub[19] = I("movrsp", "rdi")
    /\ stub[20] = I("call", "interrupt_handler")
    /\ \A k \in 21 .. 36 : k # 24 => stub[k] = I("pop", Slots[37 - k])
    /\ stub[24] = I("add", 1) /\ stub[37] = I("add", 2) /\ stub[38] = I("iretq", 0)
<1> DEFINE saves == <<"r14", "r13", "r12", "r11", "r10", "r9", "r8",
                      "rax", "rcx", "rdx", "rbx", "r15", "rbp", "rsi", "rdi">>
           restores == <<"rbx", "rdx", "rcx", "rax",
                         "r8", "r9", "r10", "r11", "r12", "r13", "r14", "r15">>
           first == <<"rdi", "rsi", "rbp">>
           S == Pushes(saves)
           R == Pops(restores)
           F == Pops(first)
           enter == <<I("push", "r15"), I("lea", "r15")>>
           middle == <<I("magic", "rsi"), I("movrsp", "rdi"), I("call", "interrupt_handler")>>
           add == <<I("add", 1)>>
           leave == <<I("add", 2), I("iretq", 0)>>
<1>1. /\ S = [k \in 1 .. 15 |-> S[k]] /\ R = [k \in 1 .. 12 |-> R[k]]
      /\ F = [k \in 1 .. 3 |-> F[k]]
      /\ \A k \in 1 .. 15 : S[k] = I("push", saves[k])
      /\ \A k \in 1 .. 12 : R[k] = I("pop", restores[k])
      /\ \A k \in 1 .. 3 : F[k] = I("pop", first[k])
  <2>1. DOMAIN saves = 1 .. 15 /\ DOMAIN restores = 1 .. 12 /\ DOMAIN first = 1 .. 3
    OBVIOUS
  <2> HIDE DEF saves, restores, first
  <2> QED BY <2>1 DEF Pushes, Pops
<1>2. interrupt_handler_stub = (enter \o S) \o middle \o (F \o add \o R) \o leave
  BY DEF interrupt_handler_stub, pushaq, popaq
<1>3. \A k \in 3 .. 17 : saves[k - 2] = IF k = 14 THEN "r15" ELSE Slots[k - 1]
  BY DEF Slots
<1>4. /\ \A k \in 25 .. 36 : restores[k - 24] = Slots[37 - k]
      /\ \A k \in 21 .. 23 : first[k - 20] = Slots[37 - k]
  BY DEF Slots
<1> HIDE DEF saves, restores, first, S, R, F
<1>5. /\ enter[1] = I("push", "r15") /\ enter[2] = I("lea", "r15")
      /\ middle[1] = I("magic", "rsi") /\ middle[2] = I("movrsp", "rdi")
      /\ middle[3] = I("call", "interrupt_handler")
      /\ add[1] = I("add", 1)
      /\ leave[1] = I("add", 2) /\ leave[2] = I("iretq", 0)
      /\ enter = [k \in 1 .. 2 |-> enter[k]] /\ middle = [k \in 1 .. 3 |-> middle[k]]
      /\ add = [k \in 1 .. 1 |-> add[k]] /\ leave = [k \in 1 .. 2 |-> leave[k]]
  OBVIOUS
<1> HIDE DEF enter, middle, add, leave
<1>t. /\ IsTuple(S, 15) /\ IsTuple(R, 12) /\ IsTuple(F, 3)
      /\ IsTuple(enter, 2) /\ IsTuple(middle, 3) /\ IsTuple(add, 1) /\ IsTuple(leave, 2)
  BY <1>1, <1>5 DEF IsTuple
<1> DEFINE A == enter \o S
           FA == F \o add
           B == FA \o R
           AM == A \o middle
           AMB == AM \o B
           stub == AMB \o leave
<1>d. /\ A = enter \o S /\ FA = F \o add /\ B = FA \o R /\ AM = A \o middle
      /\ AMB = AM \o B /\ stub = AMB \o leave
  OBVIOUS
<1>12. interrupt_handler_stub = stub
  BY <1>2
<1> HIDE DEF A, FA, B, AM, AMB, stub
<1>6. /\ IsTuple(A, 17)
      /\ \A k \in 1 .. 2 : A[k] = enter[k]
      /\ \A k \in 2 + 1 .. 17 : A[k] = S[k - 2]
  <2>1. 2 \in Nat /\ 15 \in Nat /\ 17 \in Nat /\ 17 = 2 + 15
    OBVIOUS
  <2>2. Joined(A, 17, enter, 2, S, 15)
    BY <2>1, <1>t, <1>d, Concatenation
  <2> QED BY <2>2 DEF Joined
<1>7. /\ IsTuple(FA, 4)
      /\ \A k \in 1 .. 3 : FA[k] = F[k]
      /\ \A k \in 3 + 1 .. 4 : FA[k] = add[k - 3]
  <2>1. 3 \in Nat /\ 1 \in Nat /\ 4 \in Nat /\ 4 = 3 + 1
    OBVIOUS
  <2>2. Joined(FA, 4, F, 3, add, 1)
    BY <2>1, <1>t, <1>d, Concatenation
  <2> QED BY <2>2 DEF Joined
<1>8. /\ IsTuple(B, 16)
      /\ \A k \in 1 .. 4 : B[k] = FA[k]
      /\ \A k \in 4 + 1 .. 16 : B[k] = R[k - 4]
  <2>1. 4 \in Nat /\ 12 \in Nat /\ 16 \in Nat /\ 16 = 4 + 12
    OBVIOUS
  <2>2. Joined(B, 16, FA, 4, R, 12)
    BY <2>1, <1>t, <1>7, <1>d, Concatenation
  <2> QED BY <2>2 DEF Joined
<1>9. /\ IsTuple(AM, 20)
      /\ \A k \in 1 .. 17 : AM[k] = A[k]
      /\ \A k \in 17 + 1 .. 20 : AM[k] = middle[k - 17]
  <2>1. 17 \in Nat /\ 3 \in Nat /\ 20 \in Nat /\ 20 = 17 + 3
    OBVIOUS
  <2>2. Joined(AM, 20, A, 17, middle, 3)
    BY <2>1, <1>t, <1>6, <1>d, Concatenation
  <2> QED BY <2>2 DEF Joined
<1>10. /\ IsTuple(AMB, 36)
       /\ \A k \in 1 .. 20 : AMB[k] = AM[k]
       /\ \A k \in 20 + 1 .. 36 : AMB[k] = B[k - 20]
  <2>1. 20 \in Nat /\ 16 \in Nat /\ 36 \in Nat /\ 36 = 20 + 16
    OBVIOUS
  <2>2. Joined(AMB, 36, AM, 20, B, 16)
    BY <2>1, <1>8, <1>9, <1>d, Concatenation
  <2> QED BY <2>2 DEF Joined
<1>11. /\ \A k \in 1 .. 36 : stub[k] = AMB[k]
       /\ \A k \in 36 + 1 .. 38 : stub[k] = leave[k - 36]
  <2>1. 36 \in Nat /\ 2 \in Nat /\ 38 \in Nat /\ 38 = 36 + 2
    OBVIOUS
  <2>2. Joined(stub, 38, AMB, 36, leave, 2)
    BY <2>1, <1>t, <1>10, <1>d, Concatenation
  <2> QED BY <2>2 DEF Joined
<1>13. /\ stub[1] = I("push", "r15") /\ stub[2] = I("lea", "r15")
       /\ stub[18] = I("magic", "rsi") /\ stub[19] = I("movrsp", "rdi")
       /\ stub[20] = I("call", "interrupt_handler")
       /\ stub[24] = I("add", 1) /\ stub[37] = I("add", 2) /\ stub[38] = I("iretq", 0)
  BY <1>5, <1>6, <1>7, <1>8, <1>9, <1>10, <1>11
<1>14. ASSUME NEW k \in 3 .. 17
       PROVE  stub[k] = I("push", IF k = 14 THEN "r15" ELSE Slots[k - 1])
  <2>1. stub[k] = S[k - 2] /\ k - 2 \in 1 .. 15
    BY <1>6, <1>9, <1>10, <1>11
  <2> QED BY <2>1, <1>1, <1>3
<1>15. ASSUME NEW k \in 21 .. 23 PROVE stub[k] = I("pop", Slots[37 - k])
  <2>1. stub[k] = F[k - 20] /\ k - 20 \in 1 .. 3
    BY <1>7, <1>8, <1>10, <1>11
  <2> QED BY <2>1, <1>1, <1>4
<1>16. ASSUME NEW k \in 25 .. 36 PROVE stub[k] = I("pop", Slots[37 - k])
  <2>1. stub[k] = R[k - 24] /\ k - 24 \in 1 .. 12
    BY <1>8, <1>10, <1>11
  <2> QED BY <2>1, <1>1, <1>4
<1>17. \A k \in 21 .. 36 : k # 24 => k \in 21 .. 23 \/ k \in 25 .. 36
  OBVIOUS
<1> QED
  BY <1>12, <1>13, <1>14, <1>15, <1>16, <1>17

\* Every instruction of the kernel's own code and of interrupt_handler.
LEMMA OtherText ==
    /\ /\ kernel[1] = I("lgdt", 0) /\ kernel[2] = I("call", "init_segment_selectors")
       /\ kernel[3] = I("init_idt", 0) /\ kernel[4] = I("lidt", 0)
       /\ kernel[5] = I("work", 0) /\ kernel[6] = I("call", "setup_new_stack")
    /\ /\ main2[1] = I("work", 0) /\ main2[2] = I("int", 40) /\ main2[3] = I("int", 3)
       /\ main2[4] = I("hang", 0)
    /\ /\ setup_new_stack[1] = I("newstack", 0) /\ setup_new_stack[2] = I("zero", "rbp")
       /\ setup_new_stack[3] = I("push", "rbp") /\ setup_new_stack[4] = I("jmp", "main2")
    /\ LET s == init_segment_selectors
       IN  /\ s[1] = I("null", 0) /\ s[2] = I("pop", "rcx") /\ s[3] = I("shl", "rdi")
           /\ s[4] = I("movrsp", "rax") /\ s[5] = I("shl", "rsi") /\ s[6] = I("push", "rdi")
           /\ s[7] = I("push", "rax") /\ s[8] = I("pushfq", 0) /\ s[9] = I("push", "rsi")
           /\ s[10] = I("push", "rcx") /\ s[11] = I("iretq", 0)
    /\ LET s == Text["interrupt_handler"]
       IN  s[1] = I("check", 0) /\ s[2] = I("dispatch", 0) /\ s[3] = I("ret", 0)
    /\ LET s == Text["halt"] IN s[1] = I("cli", 0) /\ s[2] = I("hang", 0)
<1>1. /\ Text["interrupt_handler"] = <<I("check", 0), I("dispatch", 0), I("ret", 0)>>
      /\ Text["halt"] = <<I("cli", 0), I("hang", 0)>>
  BY DEF Text
<1> QED
  BY <1>1 DEF kernel, main2, setup_new_stack, init_segment_selectors, EXC_BP

\* What the processor reads at rip.
LEMMA Fetches ==
    /\ \A k : rip = Code("kernel", k) => Fetch = kernel[k]
    /\ \A k : rip = Code("main2", k) => Fetch = main2[k]
    /\ \A k : rip = Code("setup_new_stack", k) => Fetch = setup_new_stack[k]
    /\ \A k : rip = Code("init_segment_selectors", k) => Fetch = init_segment_selectors[k]
    /\ \A k : rip = Code("interrupt_handler_stub", k) => Fetch = interrupt_handler_stub[k]
    /\ \A k : rip = Code("interrupt_handler", k) => Fetch = Text["interrupt_handler"][k]
    /\ \A k : rip = Code("halt", k) => Fetch = Text["halt"][k]
    /\ \A n, k : rip = VectorCode(n, k) => Fetch = Vector(n)[k]
<1>1. /\ Text["kernel"] = kernel /\ Text["main2"] = main2
      /\ Text["setup_new_stack"] = setup_new_stack
      /\ Text["init_segment_selectors"] = init_segment_selectors
      /\ Text["interrupt_handler_stub"] = interrupt_handler_stub
  BY DEF Text
<1>2. \A r, k : rip = Code(r, k) => Fetch = Text[r][k]
  BY WordParts DEF Fetch
<1>3. \A n, k : rip = VectorCode(n, k) => Fetch = Vector(n)[k]
  BY WordParts DEF Fetch
<1> QED BY <1>1, <1>2, <1>3

\* The address of the next instruction.
LEMMA Follows ==
    ASSUME NEW k \in Int
    PROVE  /\ \A r : rip = Code(r, k) => Following = Code(r, k + 1)
           /\ \A n : rip = VectorCode(n, k) => Following = VectorCode(n, k + 1)
  BY DEF Following, Code, VectorCode

\* Addresses of code differ.
LEMMA CodeDiffers ==
    /\ \A r, k, s, l : Code(r, k) = Code(s, l) => r = s /\ k = l
    /\ \A n, k, m, l : VectorCode(n, k) = VectorCode(m, l) => n = m /\ k = l
    /\ \A n, k, s, l : VectorCode(n, k) # Code(s, l)
    /\ \A s, l : Code(s, l) # Fault
    /\ \A s, l : VectorCode(s, l) # Fault
  BY DEF Code, VectorCode, Fault

\* So do addresses on the stack.
LEMMA AddrDiffers == \A a, b : Addr(a) = Addr(b) => a = b
  BY DEF Addr

\* An instruction's parts.
LEMMA Parts == \A op, a : I(op, a).op = op /\ I(op, a).arg = a
  BY DEF I
-----------------------------------------------------------------------------
(***************************************************************************)
(* What each instruction does.                                             *)
(***************************************************************************)
Rest == <<cs, ss, data, enabled, nmi_blocked, gdtr, idtr, idt, saved, budget>>
ToRsp(a) == reg' = [reg EXCEPT !["rsp"] = Addr(a)]

\* The instructions that move words are straight-line code.
LEMMA Moves ==
    ASSUME Execute, rip # Fault
    PROVE  /\ \A x : Fetch = I("push", x) =>
                 /\ stack' = Pushed(rsp, <<reg[x]>>) /\ ToRsp(rsp - 1)
                 /\ rip' = Following /\ UNCHANGED Rest
           /\ \A x : Fetch = I("pushi", x) =>
                 /\ stack' = Pushed(rsp, <<Imm(x)>>) /\ ToRsp(rsp - 1)
                 /\ rip' = Following /\ UNCHANGED Rest
           /\ \A x : Fetch = I("pushfq", x) =>
                 /\ stack' = Pushed(rsp, <<Flags(enabled)>>) /\ ToRsp(rsp - 1)
                 /\ rip' = Following /\ UNCHANGED Rest
           /\ \A x : Fetch = I("pop", x) =>
                 /\ reg' = [reg EXCEPT ![x] = stack[rsp], !["rsp"] = Addr(rsp + 1)]
                 /\ rip' = Following /\ UNCHANGED <<stack, Rest>>
           /\ \A x : Fetch = I("add", x) =>
                 ToRsp(rsp + x) /\ rip' = Following /\ UNCHANGED <<stack, Rest>>
           /\ \A x : Fetch = I("lea", x) =>
                 /\ reg' = [reg EXCEPT ![x] = Addr(rsp + 1)]
                 /\ rip' = Following /\ UNCHANGED <<stack, Rest>>
           /\ \A x : Fetch = I("movrsp", x) =>
                 /\ reg' = [reg EXCEPT ![x] = Addr(rsp)]
                 /\ rip' = Following /\ UNCHANGED <<stack, Rest>>
           /\ \A x : Fetch = I("shl", x) =>
                 /\ reg' = [reg EXCEPT ![x] = Imm(8 * reg[x][2])]
                 /\ rip' = Following /\ UNCHANGED <<stack, Rest>>
           /\ \A x : Fetch = I("magic", x) =>
                 /\ reg' = [reg EXCEPT ![x] = Magic]
                 /\ rip' = Following /\ UNCHANGED <<stack, Rest>>
           /\ \A x : Fetch = I("zero", x) =>
                 /\ reg' = [reg EXCEPT ![x] = Imm(0)]
                 /\ rip' = Following /\ UNCHANGED <<stack, Rest>>
<1> USE Parts DEF Op, arg, ToRsp, Rest, segments, control, tables
<1>1. ASSUME Fetch.op \in {"push", "pushi", "pushfq", "pop", "add", "lea", "movrsp", "shl", "magic", "zero"}
      PROVE  Move
  BY <1>1 DEF Execute, NewStack, Null, Call, Ret, Jmp, Iretq, LoadTables, Work, CheckMagic, Dispatch,
              Cli, Hang, SoftwareInterrupt
<1> QED BY <1>1 DEF Move, Push, Set

\* The other instructions.
LEMMA Others ==
    ASSUME Execute, rip # Fault
    PROVE  /\ Fetch.op = "newstack" => NewStack
           /\ Fetch.op = "null" => Null
           /\ Fetch.op = "call" => Call
           /\ Fetch.op = "ret" => Ret
           /\ Fetch.op = "jmp" => Jmp
           /\ Fetch.op = "iretq" => Iretq
           /\ Fetch.op \in {"lgdt", "init_idt", "lidt"} => LoadTables
           /\ Fetch.op = "work" => Work
           /\ Fetch.op = "check" => CheckMagic
           /\ Fetch.op = "dispatch" => Dispatch
           /\ Fetch.op = "cli" => Cli
           /\ Fetch.op = "hang" => UNCHANGED vars
           /\ Fetch.op = "int" => SoftwareInterrupt
  BY DEF Op, Execute, Move, NewStack, Null, Call, Ret, Jmp, Iretq, LoadTables, Work, CheckMagic,
         Dispatch, Cli, Hang, SoftwareInterrupt

\* A processor that has shut down stays so.
LEMMA FaultStays ==
    ASSUME Execute, rip = Fault PROVE UNCHANGED vars
  BY DEF Op, Execute, Move, NewStack, Null, Call, Ret, Jmp, Iretq, LoadTables, Work, CheckMagic,
         Dispatch, Cli, Hang, SoftwareInterrupt

\* What pushing a word leaves as it was.
LEMMA PushWord ==
    ASSUME IsStack(stack), NEW a \in Int, NEW w, stack' = Pushed(a, <<w>>)
    PROVE  /\ IsStack(stack')
           /\ \A b \in 0 .. StackWords - 1 : b # a - 1 => stack'[b] = stack[b]
           /\ a - 1 \in 0 .. StackWords - 1 => stack'[a - 1] = w
<1>1. DOMAIN stack = 0 .. StackWords - 1 /\ StackWords \in Nat
  BY InterruptsAssumption DEF IsStack
<1>2. Len(<<w>>) = 1 /\ <<w>>[1] = w
  OBVIOUS
<1>3. stack' = [b \in 0 .. StackWords - 1 |-> IF b \in a - 1 .. a - 1 THEN <<w>>[a - b] ELSE stack[b]]
  BY <1>1, <1>2 DEF Pushed
<1>4. a - (a - 1) = 1
  OBVIOUS
<1>5. \A b \in Int : b \in a - 1 .. a - 1 <=> b = a - 1
  OBVIOUS
<1> QED BY <1>1, <1>2, <1>3, <1>4, <1>5 DEF IsStack

\* Pushing several words changes only words below.
LEMMA PushBelow ==
    ASSUME IsStack(stack), NEW a \in Int, NEW ws, Len(ws) \in Nat, stack' = Pushed(a, ws)
    PROVE  /\ IsStack(stack')
           /\ \A b \in 0 .. StackWords - 1 : b >= a => stack'[b] = stack[b]
<1>1. DOMAIN stack = 0 .. StackWords - 1 /\ StackWords \in Nat
  BY InterruptsAssumption DEF IsStack
<1>2. stack' = [b \in 0 .. StackWords - 1 |->
                   IF b \in a - Len(ws) .. a - 1 THEN ws[a - b] ELSE stack[b]]
  BY <1>1 DEF Pushed
<1>3. \A b \in Int : b >= a => b \notin a - Len(ws) .. a - 1
  OBVIOUS
<1> QED BY <1>1, <1>2, <1>3 DEF IsStack
-----------------------------------------------------------------------------
(***************************************************************************)
(* The way of an interrupt through the vector, the stub and the handler.   *)
(***************************************************************************)
\* There is room on the stack for an interrupt of c.
HasRoom(c) == SP(c) \in 25 .. StackWords

\* The aligned stack pointer.
LEMMA Aligned ==
    ASSUME NEW c, HasRoom(c)
    PROVE  Base(c) \in 24 .. SP(c) /\ Base(c) >= SP(c) - 1 /\ SP(c) \in Int
  BY InterruptsAssumption DEF HasRoom, Base

\* What a step of the interrupt's code does besides moving words.
Proceeds(c) ==
    /\ Handles(c, reg', rip', stack')
    /\ IsRegisters(reg') /\ IsStack(stack')
    /\ UNCHANGED Rest

\* Registers keep their names.
LEMMA RegistersKept ==
    ASSUME IsRegisters(reg), NEW x, NEW w, NEW v
    PROVE  /\ IsRegisters([reg EXCEPT ![x] = w])
           /\ IsRegisters([reg EXCEPT ![x] = w, !["rsp"] = v])
           /\ "rsp" \in Reg
           /\ \A y \in Reg : /\ [reg EXCEPT ![x] = w][y] = IF y = x THEN w ELSE reg[y]
                             /\ [reg EXCEPT ![x] = w, !["rsp"] = v][y] =
                                   IF y = "rsp" THEN v ELSE IF y = x THEN w ELSE reg[y]
<1>1. DOMAIN reg = Reg
  BY DEF IsRegisters
<1>2. "rsp" \in Reg
  BY RegIs
<1> QED BY <1>1, <1>2 DEF IsRegisters

\* Word d + 1 is pushed below words 1 to d.
LEMMA PushSlot ==
    ASSUME NEW c, HasRoom(c), IsStack(stack), NEW d \in 0 .. 23, NEW w,
           \A j \in 1 .. d : stack[Base(c) - j] = Word(c, j),
           \A a \in SP(c) .. StackWords - 1 : stack[a] = c.live[a],
           stack' = Pushed(Base(c) - d, <<w>>), w = Word(c, d + 1)
    PROVE  /\ \A j \in 1 .. d + 1 : stack'[Base(c) - j] = Word(c, j)
           /\ \A a \in SP(c) .. StackWords - 1 : stack'[a] = c.live[a]
           /\ IsStack(stack')
<1>1. Base(c) \in 24 .. SP(c) /\ SP(c) \in Int /\ SP(c) <= StackWords /\ StackWords \in Nat
  BY Aligned, InterruptsAssumption DEF HasRoom
<1>2. Base(c) - d \in Int /\ (Base(c) - d) - 1 = Base(c) - (d + 1)
  BY <1>1
<1>3. /\ IsStack(stack')
      /\ \A b \in 0 .. StackWords - 1 : b # Base(c) - (d + 1) => stack'[b] = stack[b]
      /\ Base(c) - (d + 1) \in 0 .. StackWords - 1 => stack'[Base(c) - (d + 1)] = w
  <2>1. /\ IsStack(stack')
        /\ \A b \in 0 .. StackWords - 1 : b # (Base(c) - d) - 1 => stack'[b] = stack[b]
        /\ (Base(c) - d) - 1 \in 0 .. StackWords - 1 => stack'[(Base(c) - d) - 1] = w
    BY <1>2, PushWord
  <2> QED BY <2>1, <1>2
<1>4. ASSUME NEW j \in 1 .. d + 1 PROVE stack'[Base(c) - j] = Word(c, j)
  <2>1. CASE j = d + 1
    <3>1. Base(c) - (d + 1) \in 0 .. StackWords - 1
      BY <1>1
    <3> QED BY <2>1, <3>1, <1>3
  <2>2. CASE j # d + 1
    <3>1. j \in 1 .. d /\ Base(c) - j \in 0 .. StackWords - 1 /\ Base(c) - j # Base(c) - (d + 1)
      BY <1>1, <2>2
    <3> QED BY <3>1, <1>3
  <2> QED BY <2>1, <2>2
<1>5. ASSUME NEW a \in SP(c) .. StackWords - 1 PROVE stack'[a] = c.live[a]
  <2>1. a \in 0 .. StackWords - 1 /\ a # Base(c) - (d + 1)
    BY <1>1
  <2> QED BY <2>1, <1>3
<1> QED BY <1>3, <1>4, <1>5

\* The words of the frame, one by one.
LEMMA Words ==
    ASSUME NEW c
    PROVE  /\ Word(c, 1) = Imm(c.ss) /\ Word(c, 2) = c.reg["rsp"] /\ Word(c, 3) = Flags(c.enabled)
           /\ Word(c, 4) = Imm(c.cs) /\ Word(c, 5) = c.rip /\ Word(c, 6) = c.error
           /\ Word(c, 7) = Imm(c.number)
           /\ \A j \in 8 .. 23 : j # 20 => Word(c, j) = c.reg[Slots[j - 7]]
           /\ Word(c, 20) = Addr(Base(c) - 7)
           /\ Word(c, 24) = Code("interrupt_handler_stub", 21)
  BY DEF Word

\* A word is pushed and the next instruction follows.
LEMMA Pushing ==
    ASSUME NEW c, HasRoom(c), IsRegisters(reg), IsStack(stack), NEW d \in 0 .. 23, NEW w,
           reg["rsp"] = Addr(Base(c) - d),
           \A j \in 1 .. d : stack[Base(c) - j] = Word(c, j),
           \A a \in SP(c) .. StackWords - 1 : stack[a] = c.live[a],
           stack' = Pushed(rsp, <<w>>), w = Word(c, d + 1), ToRsp(rsp - 1)
    PROVE  /\ \A j \in 1 .. d + 1 : stack'[Base(c) - j] = Word(c, j)
           /\ \A a \in SP(c) .. StackWords - 1 : stack'[a] = c.live[a]
           /\ IsStack(stack') /\ IsRegisters(reg')
           /\ reg'["rsp"] = Addr(Base(c) - (d + 1))
           /\ \A x \in Reg \ {"rsp"} : reg'[x] = reg[x]
<1>1. Base(c) \in Int
  BY Aligned
<1>2. rsp = Base(c) - d /\ rsp - 1 = Base(c) - (d + 1)
  <2>1. rsp = Base(c) - d
    BY WordParts DEF rsp
  <2> QED BY <1>1, <2>1
<1>3. /\ IsRegisters(reg') /\ reg'["rsp"] = Addr(Base(c) - (d + 1))
      /\ \A x \in Reg \ {"rsp"} : reg'[x] = reg[x]
  <2>1. reg' = [reg EXCEPT !["rsp"] = Addr(Base(c) - (d + 1))]
    BY <1>2 DEF ToRsp
  <2>2. DOMAIN reg = Reg /\ "rsp" \in Reg
    BY RegIs DEF IsRegisters
  <2> QED BY <2>1, <2>2 DEF IsRegisters
<1>4. stack' = Pushed(Base(c) - d, <<w>>)
  BY <1>2
<1> QED BY <1>3, <1>4, PushSlot

\* The vector pushes 0 for an error code that the processor has not pushed, and
\* the number, and jumps to the stub.
LEMMA VectorStep ==
    ASSUME Execute, NEW c, IsContext(c), HasRoom(c), IsRegisters(reg), IsStack(stack),
           NEW k \in 1 .. 3, InVector(c, k, reg, rip, stack),
           \A a \in SP(c) .. StackWords - 1 : stack[a] = c.live[a]
    PROVE  Proceeds(c)
<1> DEFINE n == c.number
           text == Vector(n)
           d == 7 - Len(text) + k
<1>1. /\ rip = VectorCode(n, k) /\ rip # Fault /\ Fetch = text[k]
      /\ Following = VectorCode(n, k + 1)
  BY Fetches, Follows, CodeDiffers DEF InVector
<1>2. CASE k < Len(text)
  <2>0. d \in 0 .. 23 /\ d + 1 = 7 - Len(text) + (k + 1) /\ k + 1 \in 1 .. Len(text) /\ k + 1 \in 1 .. 3
    <3>1. PICK l \in 2 .. 3 : Len(text) = l
      BY VectorText
    <3> HIDE DEF text
    <3>2. k < l /\ d = 7 - l + k
      BY <1>2, <3>1
    <3>3. k \in 1 .. 3
      OBVIOUS
    <3> HIDE DEF d
    <3>4. d \in 0 .. 23 /\ d + 1 = 7 - l + (k + 1) /\ k + 1 \in 1 .. l /\ k + 1 \in 1 .. 3
      BY <3>2, <3>3
    <3> QED BY <3>1, <3>4
  <2>1. PICK x : Fetch = I("pushi", x) /\ Imm(x) = Word(c, d + 1)
    <3>1. CASE EXC_HAS_ERROR_CODE(n)
      <4>1. Len(text) = 2 /\ text[1] = I("pushi", n)
        BY <3>1, VectorText
      <4>2. k = 1 /\ d + 1 = 7
        BY <4>1, <1>2
      <4> QED BY <4>1, <4>2, <1>1, Words
    <3>2. CASE ~EXC_HAS_ERROR_CODE(n)
      <4>1. Len(text) = 3 /\ text[1] = I("pushi", 0) /\ text[2] = I("pushi", n)
        BY <3>2, VectorText
      <4>2. (k = 1 /\ d + 1 = 6) \/ (k = 2 /\ d + 1 = 7)
        BY <4>1, <1>2
      <4>3. c.error = Imm(0)
        BY <3>2 DEF IsContext
      <4> QED BY <4>1, <4>2, <4>3, <1>1, Words
    <3> QED BY <3>1, <3>2
  <2>2. /\ stack' = Pushed(rsp, <<Imm(x)>>) /\ ToRsp(rsp - 1)
        /\ rip' = VectorCode(n, k + 1) /\ UNCHANGED Rest
    BY <1>1, <2>1, Moves
  <2>3. /\ reg["rsp"] = Addr(Base(c) - d)
        /\ \A y \in Reg \ {"rsp"} : reg[y] = c.reg[y]
        /\ \A j \in 1 .. d : stack[Base(c) - j] = Word(c, j)
    BY DEF InVector
  <2> HIDE DEF d
  <2>4. /\ \A j \in 1 .. d + 1 : stack'[Base(c) - j] = Word(c, j)
        /\ \A a \in SP(c) .. StackWords - 1 : stack'[a] = c.live[a]
        /\ IsStack(stack') /\ IsRegisters(reg')
        /\ reg'["rsp"] = Addr(Base(c) - (d + 1))
        /\ \A y \in Reg \ {"rsp"} : reg'[y] = reg[y]
    BY <2>0, <2>1, <2>2, <2>3, Pushing
  <2>5. InVector(c, k + 1, reg', rip', stack')
    BY <2>0, <2>2, <2>3, <2>4 DEF InVector
  <2> QED BY <2>0, <2>2, <2>4, <2>5 DEF Proceeds, Handles
<1>3. CASE ~ (k < Len(text))
  <2>1. k = Len(text) /\ d = 7
    BY <1>3, VectorText DEF InVector
  <2>2. Fetch = I("jmp", "interrupt_handler_stub")
    BY <2>1, <1>1, VectorText
  <2>3. /\ rip' = Code("interrupt_handler_stub", 1)
        /\ UNCHANGED <<reg, stack>> /\ UNCHANGED Rest
    BY <2>2, <1>1, Others, Parts DEF Jmp, arg, segments, control, tables, Rest
  <2>4. InStub(c, 1, reg', rip', stack')
    <3>1. StubDepth(1) = 7 /\ Intact(1) = Reg \ {"rsp"}
      BY DEF StubDepth, Intact
    <3> QED BY <2>1, <2>3, <3>1 DEF InStub, InVector
  <2>5. 1 \in 1 .. 38
    OBVIOUS
  <2> QED BY <2>3, <2>4, <2>5 DEF Proceeds, Handles
<1> QED BY <1>2, <1>3

\* The registers in the stub's slots.
LEMMA SlotRegisters ==
    /\ \A i \in 1 .. 16 : Slots[i] \in Reg
    /\ \A i \in 1 .. 16 \ {13} : Slots[i] # "rsp"
    /\ \A i \in 2 .. 16 : Slots[i] # "r15"
    /\ Slots[1] = "r15" /\ Slots[13] = "rsp"
    /\ Reg \ {"rsp"} = {Slots[i] : i \in 1 .. 16 \ {13}}
<1>1. /\ Slots[1] = "r15" /\ Slots[2] = "r14" /\ Slots[3] = "r13" /\ Slots[4] = "r12"
      /\ Slots[5] = "r11" /\ Slots[6] = "r10" /\ Slots[7] = "r9" /\ Slots[8] = "r8"
      /\ Slots[9] = "rax" /\ Slots[10] = "rcx" /\ Slots[11] = "rdx" /\ Slots[12] = "rbx"
      /\ Slots[13] = "rsp" /\ Slots[14] = "rbp" /\ Slots[15] = "rsi" /\ Slots[16] = "rdi"
  BY DEF Slots
<1>2. 1 .. 16 = {1, 2, 3, 4, 5, 6, 7, 8, 9, 10, 11, 12, 13, 14, 15, 16}
  OBVIOUS
<1> QED BY <1>1, <1>2, RegIs

\* pushaq: one register after the other is pushed into its slot, that of rsp
\* with the address of the number.
LEMMA PushaqStep ==
    ASSUME Execute, NEW c, IsContext(c), HasRoom(c), IsRegisters(reg), IsStack(stack),
           NEW k \in {1} \cup 3 .. 17, InStub(c, k, reg, rip, stack),
           \A a \in SP(c) .. StackWords - 1 : stack[a] = c.live[a]
    PROVE  Proceeds(c)
<1> DEFINE d == StubDepth(k)
           x == IF k = 14 \/ k = 1 THEN "r15" ELSE Slots[k - 1]
<1>1. /\ d \in 0 .. 23 /\ StubDepth(k + 1) = d + 1
      /\ k = 1 => d = 7
      /\ k # 1 => d = k + 5
      /\ k + 1 \in 1 .. 38 /\ ~ (k + 1 \in 19 .. 20) /\ k + 1 # 20
  BY DEF StubDepth
<1>2. /\ rip = Code("interrupt_handler_stub", k) /\ rip # Fault
      /\ Fetch = I("push", x)
      /\ Following = Code("interrupt_handler_stub", k + 1)
  <2>1. interrupt_handler_stub[k] = I("push", x)
    BY StubText
  <2> QED BY <2>1, Fetches, Follows, CodeDiffers DEF InStub
<1>3. /\ stack' = Pushed(rsp, <<reg[x]>>) /\ ToRsp(rsp - 1)
      /\ rip' = Code("interrupt_handler_stub", k + 1) /\ UNCHANGED Rest
  BY <1>2, Moves
<1>4. reg[x] = Word(c, d + 1)
  <2>1. CASE k = 14
    BY <2>1, <1>1, Words DEF InStub
  <2>2. CASE k = 1
    <3>1. "r15" \in Intact(1) /\ Word(c, 8) = c.reg["r15"]
      BY RegIs, Words, SlotRegisters DEF Intact
    <3> QED BY <2>2, <3>1, <1>1 DEF InStub
  <2>3. CASE k # 14 /\ k # 1
    <3>1. /\ k - 1 \in 2 .. 16 /\ k - 1 # 13 /\ d + 1 \in 8 .. 23 /\ d + 1 # 20
          /\ (d + 1) - 7 = k - 1 /\ x = Slots[k - 1] /\ k \in 3 .. 18
      BY <2>3, <1>1
    <3>2. Word(c, d + 1) = c.reg[Slots[k - 1]]
      BY <3>1, Words
    <3>3. Slots[k - 1] \in Intact(k)
      BY <3>1, SlotRegisters DEF Intact
    <3> QED BY <3>1, <3>2, <3>3 DEF InStub
  <2> QED BY <2>1, <2>2, <2>3
<1>5. /\ reg["rsp"] = Addr(Base(c) - d)
      /\ \A j \in 1 .. d : stack[Base(c) - j] = Word(c, j)
  BY DEF InStub
<1> HIDE DEF d, x
<1>6. /\ \A j \in 1 .. d + 1 : stack'[Base(c) - j] = Word(c, j)
      /\ \A a \in SP(c) .. StackWords - 1 : stack'[a] = c.live[a]
      /\ IsStack(stack') /\ IsRegisters(reg')
      /\ reg'["rsp"] = Addr(Base(c) - (d + 1))
      /\ \A y \in Reg \ {"rsp"} : reg'[y] = reg[y]
  BY <1>1, <1>3, <1>4, <1>5, Pushing
<1>7. /\ Intact(k + 1) = Intact(k) /\ Intact(k) \subseteq Reg \ {"rsp"}
      /\ k + 1 \in 3 .. 18 => k \in 3 .. 18
  BY DEF Intact
<1>8. k \in 3 .. 18 => reg'["r15"] = Addr(Base(c) - 7)
  <2>1. "r15" \in Reg \ {"rsp"}
    BY RegIs
  <2> QED BY <2>1, <1>6 DEF InStub
<1>9. InStub(c, k + 1, reg', rip', stack')
  BY <1>1, <1>3, <1>6, <1>7, <1>8 DEF InStub
<1> QED BY <1>1, <1>3, <1>6, <1>9 DEF Proceeds, Handles

\* The instructions between pushaq and popaq.
LEMMA MiddleStep ==
    ASSUME Execute, NEW c, IsContext(c), HasRoom(c), IsRegisters(reg), IsStack(stack),
           NEW k \in {2, 18, 19, 20}, InStub(c, k, reg, rip, stack),
           \A a \in SP(c) .. StackWords - 1 : stack[a] = c.live[a]
    PROVE  Proceeds(c)
<1>0. Base(c) \in Int
  BY Aligned
<1>1. /\ rip = Code("interrupt_handler_stub", k) /\ rip # Fault
      /\ Fetch = interrupt_handler_stub[k]
      /\ Following = Code("interrupt_handler_stub", k + 1)
  BY Fetches, Follows, CodeDiffers DEF InStub
<1>r. {"rsp", "r15", "rsi", "rdi"} \subseteq Reg /\ DOMAIN reg = Reg
  BY RegIs DEF IsRegisters
<1>2. CASE k = 2
  <2>1. Fetch = I("lea", "r15")
    BY <1>1, <1>2, StubText
  <2>2. /\ reg' = [reg EXCEPT !["r15"] = Addr(rsp + 1)]
        /\ rip' = Code("interrupt_handler_stub", 3) /\ UNCHANGED <<stack, Rest>>
    BY <1>1, <1>2, <2>1, Moves
  <2>3. /\ StubDepth(2) = 8 /\ StubDepth(3) = 8
        /\ Intact(2) = Reg \ {"rsp"} /\ Intact(3) = Reg \ {"rsp", "r15"}
    BY DEF StubDepth, Intact
  <2>4. reg["rsp"] = Addr(Base(c) - 8) /\ rsp + 1 = Base(c) - 7
    BY <1>0, <1>2, <2>3, WordParts DEF InStub, rsp
  <2>5. /\ IsRegisters(reg') /\ reg'["r15"] = Addr(Base(c) - 7)
        /\ \A y \in Reg \ {"r15"} : reg'[y] = reg[y]
    BY <1>r, <2>2, <2>4 DEF IsRegisters
  <2>6. InStub(c, 3, reg', rip', stack')
    BY <1>2, <1>r, <2>2, <2>3, <2>4, <2>5 DEF InStub
  <2> QED BY <2>2, <2>5, <2>6 DEF Proceeds, Handles
<1>3. CASE k = 18
  <2>1. Fetch = I("magic", "rsi")
    BY <1>1, <1>3, StubText
  <2>2. /\ reg' = [reg EXCEPT !["rsi"] = Magic]
        /\ rip' = Code("interrupt_handler_stub", 19) /\ UNCHANGED <<stack, Rest>>
    BY <1>1, <1>3, <2>1, Moves
  <2>3. /\ StubDepth(18) = 23 /\ StubDepth(19) = 23
        /\ Intact(18) = Reg \ {"rsp", "r15"} /\ Intact(19) = Reg \ {"rsp", "r15", "rsi"}
    BY DEF StubDepth, Intact
  <2>5. /\ IsRegisters(reg') /\ reg'["rsi"] = Magic
        /\ \A y \in Reg \ {"rsi"} : reg'[y] = reg[y]
    BY <1>r, <2>2 DEF IsRegisters
  <2>6. InStub(c, 19, reg', rip', stack')
    BY <1>3, <1>r, <2>2, <2>3, <2>5 DEF InStub
  <2> QED BY <2>2, <2>5, <2>6 DEF Proceeds, Handles
<1>4. CASE k = 19
  <2>1. Fetch = I("movrsp", "rdi")
    BY <1>1, <1>4, StubText
  <2>2. /\ reg' = [reg EXCEPT !["rdi"] = Addr(rsp)]
        /\ rip' = Code("interrupt_handler_stub", 20) /\ UNCHANGED <<stack, Rest>>
    BY <1>1, <1>4, <2>1, Moves
  <2>3. /\ StubDepth(19) = 23 /\ StubDepth(20) = 23
        /\ Intact(19) = Reg \ {"rsp", "r15", "rsi"}
        /\ Intact(20) = Reg \ {"rsp", "r15", "rsi", "rdi"}
    BY DEF StubDepth, Intact
  <2>4. reg["rsp"] = Addr(Base(c) - 23) /\ rsp = Base(c) - 23
    BY <1>0, <1>4, <2>3, WordParts DEF InStub, rsp
  <2>5. /\ IsRegisters(reg') /\ reg'["rdi"] = Addr(Base(c) - 23)
        /\ \A y \in Reg \ {"rdi"} : reg'[y] = reg[y]
    BY <1>r, <2>2, <2>4 DEF IsRegisters
  <2>6. InStub(c, 20, reg', rip', stack')
    BY <1>4, <1>r, <2>2, <2>3, <2>4, <2>5 DEF InStub
  <2> QED BY <2>2, <2>5, <2>6 DEF Proceeds, Handles
<1>5. CASE k = 20
  <2>1. Fetch = I("call", "interrupt_handler")
    BY <1>1, <1>5, StubText
  <2>2. /\ stack' = Pushed(rsp, <<Code("interrupt_handler_stub", 21)>>)
        /\ ToRsp(rsp - 1)
        /\ rip' = Code("interrupt_handler", 1) /\ UNCHANGED Rest
    <3>1. Call /\ arg = "interrupt_handler" /\ Following = Code("interrupt_handler_stub", 21)
      BY <1>1, <1>5, <2>1, Others, Parts DEF arg
    <3>2. reg' = [reg EXCEPT !["rsp"] = Addr(rsp - 1), !["rdi"] = reg["rdi"], !["rsi"] = reg["rsi"]]
      BY <3>1 DEF Call
    <3>3. reg' = [reg EXCEPT !["rsp"] = Addr(rsp - 1)]
      BY <3>2, <1>r
    <3> QED BY <3>1, <3>3 DEF Call, segments, control, tables, Rest, ToRsp
  <2>3. /\ StubDepth(20) = 23 /\ Intact(20) = Reg \ {"rsp", "r15", "rsi", "rdi"}
        /\ 23 \in 0 .. 23 /\ 23 + 1 = 24
    BY DEF StubDepth, Intact
  <2>4. /\ reg["rsp"] = Addr(Base(c) - 23)
        /\ \A j \in 1 .. 23 : stack[Base(c) - j] = Word(c, j)
    BY <1>5, <2>3 DEF InStub
  <2>5. /\ \A j \in 1 .. 24 : stack'[Base(c) - j] = Word(c, j)
        /\ \A a \in SP(c) .. StackWords - 1 : stack'[a] = c.live[a]
        /\ IsStack(stack') /\ IsRegisters(reg')
        /\ reg'["rsp"] = Addr(Base(c) - 24)
        /\ \A y \in Reg \ {"rsp"} : reg'[y] = reg[y]
    <3>1. Code("interrupt_handler_stub", 21) = Word(c, 23 + 1)
      BY <2>3, Words
    <3> QED BY <2>2, <2>3, <2>4, <3>1, Pushing
  <2>6. InHandler(c, 1, reg', rip', stack')
    <3>1. Reg \ (CallerSaved \cup {"rsp", "r15"}) \subseteq Intact(20)
      BY <2>3 DEF CallerSaved
    <3> QED BY <1>5, <1>r, <2>2, <2>3, <2>5, <3>1 DEF InHandler, InStub
  <2> QED BY <2>2, <2>5, <2>6 DEF Proceeds, Handles
<1> QED BY <1>2, <1>3, <1>4, <1>5

\* popaq: one register after the other is taken out of its slot.
LEMMA PopaqStep ==
    ASSUME Execute, NEW c, IsContext(c), HasRoom(c), IsRegisters(reg), IsStack(stack),
           NEW k \in 21 .. 36, k # 24, InStub(c, k, reg, rip, stack),
           \A a \in SP(c) .. StackWords - 1 : stack[a] = c.live[a]
    PROVE  Proceeds(c)
<1> DEFINE i == 37 - k
           x == Slots[i]
           d == 44 - k
<1>1. /\ d \in 8 .. 23 /\ d # 20 /\ i \in 1 .. 16 \ {13} /\ d - 7 = i
      /\ StubDepth(k) = d /\ StubDepth(k + 1) = d - 1
      /\ k + 1 \in 1 .. 38 /\ ~ (k + 1 \in 19 .. 20) /\ k + 1 # 20 /\ ~ (k + 1 \in 3 .. 18)
  BY DEF StubDepth
<1>2. /\ rip = Code("interrupt_handler_stub", k) /\ rip # Fault
      /\ Fetch = I("pop", x)
      /\ Following = Code("interrupt_handler_stub", k + 1)
  <2>1. interrupt_handler_stub[k] = I("pop", x)
    BY StubText
  <2> QED BY <2>1, Fetches, Follows, CodeDiffers DEF InStub
<1>3. /\ reg' = [reg EXCEPT ![x] = stack[rsp], !["rsp"] = Addr(rsp + 1)]
      /\ rip' = Code("interrupt_handler_stub", k + 1) /\ UNCHANGED <<stack, Rest>>
  BY <1>2, Moves
<1>4. /\ reg["rsp"] = Addr(Base(c) - d)
      /\ \A j \in 1 .. d : stack[Base(c) - j] = Word(c, j)
      /\ \A y \in Intact(k) : reg[y] = c.reg[y]
  BY <1>1 DEF InStub
<1>5. rsp = Base(c) - d /\ rsp + 1 = Base(c) - (d - 1)
  <2>1. rsp = Base(c) - d
    BY <1>4, WordParts DEF rsp
  <2>2. Base(c) \in Int
    BY Aligned
  <2> QED BY <1>1, <2>1, <2>2
<1>6. stack[rsp] = c.reg[x]
  <2>1. stack[rsp] = Word(c, d)
    BY <1>1, <1>4, <1>5
  <2>2. Word(c, d) = c.reg[x]
    BY <1>1, Words
  <2> QED BY <2>1, <2>2
<1>7. /\ IsRegisters(reg') /\ reg'["rsp"] = Addr(Base(c) - (d - 1))
      /\ reg'[x] = c.reg[x]
      /\ \A y \in Reg \ {"rsp", x} : reg'[y] = reg[y]
  <2>1. DOMAIN reg = Reg /\ "rsp" \in Reg /\ x \in Reg /\ x # "rsp"
    BY <1>1, RegIs, SlotRegisters DEF IsRegisters
  <2> HIDE DEF x
  <2> QED BY <1>3, <1>5, <1>6, <2>1 DEF IsRegisters
<1>8. Intact(k + 1) \subseteq Intact(k) \cup {x} /\ Intact(k + 1) \subseteq Reg \ {"rsp"}
  <2>1. /\ Intact(k) = (Reg \ (CallerSaved \cup {"rsp", "r15"}))
                       \cup {Slots[j] : j \in {j \in 1 .. 16 \ {13} : j + 7 > d}}
        /\ Intact(k + 1) = (Reg \ (CallerSaved \cup {"rsp", "r15"}))
                       \cup {Slots[j] : j \in {j \in 1 .. 16 \ {13} : j + 7 > d - 1}}
    <3>1. k \in 21 .. 38 /\ k + 1 \in 21 .. 38
      OBVIOUS
    <3> QED BY <3>1, <1>1 DEF Intact
  <2>2. \A j \in 1 .. 16 \ {13} : j + 7 > d - 1 => j + 7 > d \/ j = i
    BY <1>1
  <2>3. \A j \in 1 .. 16 \ {13} : Slots[j] \in Reg \ {"rsp"}
    BY SlotRegisters
  <2> HIDE DEF d, i
  <2> QED BY <2>1, <2>2, <2>3
<1> HIDE DEF d, i, x
<1>9. InStub(c, k + 1, reg', rip', stack')
  <2>1. \A y \in Intact(k + 1) : reg'[y] = c.reg[y]
    BY <1>4, <1>7, <1>8
  <2>2. \A j \in 1 .. d - 1 : stack'[Base(c) - j] = Word(c, j)
    <3>1. \A j \in 1 .. d - 1 : j \in 1 .. d
      BY <1>1
    <3> QED BY <1>3, <1>4, <3>1
  <2> QED BY <1>1, <1>3, <1>7, <2>1, <2>2 DEF InStub
<1> QED BY <1>1, <1>3, <1>7, <1>9 DEF Proceeds, Handles

\* The stub steps over the slot of rsp, and in the end over number and error
\* code.
LEMMA AddStep ==
    ASSUME Execute, NEW c, IsContext(c), HasRoom(c), IsRegisters(reg), IsStack(stack),
           NEW k \in {24, 37}, InStub(c, k, reg, rip, stack),
           \A a \in SP(c) .. StackWords - 1 : stack[a] = c.live[a]
    PROVE  Proceeds(c)
<1> DEFINE n == IF k = 24 THEN 1 ELSE 2
           d == StubDepth(k)
<1>1. /\ d \in 7 .. 20 /\ StubDepth(k + 1) = d - n /\ n \in 1 .. 2
      /\ k + 1 \in 1 .. 38 /\ ~ (k + 1 \in 19 .. 20) /\ k + 1 # 20 /\ ~ (k + 1 \in 3 .. 18)
  BY DEF StubDepth
<1>2. /\ rip = Code("interrupt_handler_stub", k) /\ rip # Fault
      /\ Fetch = I("add", n)
      /\ Following = Code("interrupt_handler_stub", k + 1)
  <2>1. interrupt_handler_stub[k] = I("add", n)
    BY StubText
  <2> QED BY <2>1, Fetches, Follows, CodeDiffers DEF InStub
<1>3. /\ ToRsp(rsp + n)
      /\ rip' = Code("interrupt_handler_stub", k + 1) /\ UNCHANGED <<stack, Rest>>
  BY <1>2, Moves
<1>4. /\ reg["rsp"] = Addr(Base(c) - d)
      /\ \A j \in 1 .. d : stack[Base(c) - j] = Word(c, j)
      /\ \A y \in Intact(k) : reg[y] = c.reg[y]
  BY DEF InStub
<1>5. Intact(k + 1) = Intact(k) /\ Intact(k) \subseteq Reg \ {"rsp"}
  <2>1. Intact(k) = (Reg \ (CallerSaved \cup {"rsp", "r15"}))
                    \cup {Slots[j] : j \in {j \in 1 .. 16 \ {13} : j + 7 > d}}
    BY DEF Intact
  <2>2. Intact(k + 1) = (Reg \ (CallerSaved \cup {"rsp", "r15"}))
                        \cup {Slots[j] : j \in {j \in 1 .. 16 \ {13} : j + 7 > d - n}}
    BY <1>1 DEF Intact
  <2>3. \A j \in 1 .. 16 \ {13} : j + 7 > d <=> j + 7 > d - n
    BY DEF StubDepth
  <2>4. \A j \in 1 .. 16 \ {13} : Slots[j] \in Reg \ {"rsp"}
    BY SlotRegisters
  <2> HIDE DEF d, n
  <2> QED BY <2>1, <2>2, <2>3, <2>4
<1> HIDE DEF d, n
<1>6. rsp + n = Base(c) - (d - n)
  <2>1. rsp = Base(c) - d
    BY <1>4, WordParts DEF rsp
  <2>2. Base(c) \in Int
    BY Aligned
  <2> QED BY <1>1, <2>1, <2>2
<1>7. /\ IsRegisters(reg') /\ reg'["rsp"] = Addr(Base(c) - (d - n))
      /\ \A y \in Reg \ {"rsp"} : reg'[y] = reg[y]
  <2>1. DOMAIN reg = Reg /\ "rsp" \in Reg
    BY RegIs DEF IsRegisters
  <2> QED BY <1>3, <1>6, <2>1 DEF IsRegisters, ToRsp
<1>8. InStub(c, k + 1, reg', rip', stack')
  <2>1. \A j \in 1 .. d - n : stack'[Base(c) - j] = Word(c, j)
    <3>1. \A j \in 1 .. d - n : j \in 1 .. d
      BY <1>1
    <3> QED BY <1>3, <1>4, <3>1
  <2>2. \A y \in Intact(k + 1) : reg'[y] = c.reg[y]
    BY <1>4, <1>5, <1>7
  <2> QED BY <1>1, <1>3, <1>7, <2>1, <2>2 DEF InStub
<1> QED BY <1>1, <1>3, <1>7, <1>8 DEF Proceeds, Handles

\* interrupt_handler finds the magic number, and leaves what the ABI says it
\* leaves.
LEMMA HandlerStep ==
    ASSUME Execute, NEW c, IsContext(c), HasRoom(c), IsRegisters(reg), IsStack(stack),
           NEW k \in 1 .. 3, InHandler(c, k, reg, rip, stack),
           \A a \in SP(c) .. StackWords - 1 : stack[a] = c.live[a]
    PROVE  Proceeds(c)
<1>0. /\ Base(c) \in Int /\ Base(c) >= 24 /\ Base(c) <= SP(c) /\ SP(c) \in Int
      /\ SP(c) <= StackWords /\ StackWords \in Int
  BY Aligned, InterruptsAssumption DEF HasRoom
<1>1. /\ rip = Code("interrupt_handler", k) /\ rip # Fault
      /\ Fetch = Text["interrupt_handler"][k]
      /\ Following = Code("interrupt_handler", k + 1)
  BY Fetches, Follows, CodeDiffers DEF InHandler
<1>2. /\ reg["rsp"] = Addr(Base(c) - 24) /\ rsp = Base(c) - 24
      /\ \A j \in 1 .. 24 : stack[Base(c) - j] = Word(c, j)
      /\ \A x \in Reg \ (CallerSaved \cup {"rsp", "r15"}) : reg[x] = c.reg[x]
  BY WordParts DEF InHandler, rsp
<1>3. CASE k = 1
  <2>1. Fetch.op = "check"
    BY <1>1, <1>3, OtherText, Parts
  <2>2. CheckMagic
    BY <1>1, <2>1, Others
  <2>3. reg["rsi"] = Magic
    BY <1>3 DEF InHandler
  <2>4. rip' = Code("interrupt_handler", 2) /\ UNCHANGED <<reg, stack, Rest>>
    BY <1>1, <1>3, <2>2, <2>3 DEF CheckMagic, segments, control, tables, Rest
  <2>5. InHandler(c, 2, reg', rip', stack')
    BY <1>3, <2>4 DEF InHandler
  <2> QED BY <2>4, <2>5 DEF Proceeds, Handles
<1>4. CASE k = 2
  <2>1. Fetch.op = "dispatch"
    BY <1>1, <1>4, OtherText, Parts
  <2>2. Dispatch
    BY <1>1, <2>1, Others
  <2>3. /\ rip' = Code("interrupt_handler", 3) /\ UNCHANGED Rest
        /\ reg' = [r \in Reg |-> IF r \in CallerSaved THEN Junk ELSE reg[r]]
        /\ stack' = Pushed(rsp, [j \in 1 .. Scratch |-> Junk])
    BY <1>1, <1>4, <2>2 DEF Dispatch, segments, control, tables, Rest
  <2>4. rsp \in Int /\ Len([j \in 1 .. Scratch |-> Junk]) \in Nat
    BY <1>0, <1>2, InterruptsAssumption
  <2>5. /\ IsStack(stack')
        /\ \A b \in 0 .. StackWords - 1 : b >= rsp => stack'[b] = stack[b]
    <3> DEFINE ws == [j \in 1 .. Scratch |-> Junk]
    <3>1. rsp \in Int /\ Len(ws) \in Nat /\ stack' = Pushed(rsp, ws)
      BY <2>3, <2>4
    <3> HIDE DEF ws
    <3> QED BY <3>1, PushBelow, Zenon
  <2>6. \A j \in 1 .. 24 : stack'[Base(c) - j] = Word(c, j)
    <3>1. \A j \in 1 .. 24 : Base(c) - j \in 0 .. StackWords - 1 /\ Base(c) - j >= rsp
      BY <1>0, <1>2
    <3> QED BY <1>2, <2>5, <3>1
  <2>7. \A a \in SP(c) .. StackWords - 1 : stack'[a] = c.live[a]
    <3>1. \A a \in SP(c) .. StackWords - 1 : a \in 0 .. StackWords - 1 /\ a >= rsp
      BY <1>0, <1>2
    <3> QED BY <2>5, <3>1
  <2>8. /\ IsRegisters(reg') /\ reg'["rsp"] = Addr(Base(c) - 24)
        /\ \A x \in Reg \ (CallerSaved \cup {"rsp", "r15"}) : reg'[x] = c.reg[x]
    <3>1. "rsp" \in Reg /\ "rsp" \notin CallerSaved
      BY RegIs DEF CallerSaved
    <3> QED BY <1>2, <2>3, <3>1 DEF IsRegisters
  <2>9. InHandler(c, 3, reg', rip', stack')
    BY <2>3, <2>6, <2>8 DEF InHandler
  <2>10. Handles(c, reg', rip', stack')
    BY <2>7, <2>9 DEF Handles
  <2>11. UNCHANGED Rest
    BY <2>3
  <2> QED BY <2>5, <2>8, <2>10, <2>11 DEF Proceeds
<1>5. CASE k = 3
  <2>1. Fetch.op = "ret"
    BY <1>1, <1>5, OtherText, Parts
  <2>2. Ret
    BY <1>1, <2>1, Others
  <2>3. stack[rsp] = Code("interrupt_handler_stub", 21)
    BY <1>2, Words
  <2>4. /\ rip' = Code("interrupt_handler_stub", 21)
        /\ reg' = [reg EXCEPT !["rsp"] = Addr(Base(c) - 23)]
        /\ UNCHANGED <<stack, Rest>>
    <3>1. rsp + 1 = Base(c) - 23
      BY <1>0, <1>2
    <3> QED BY <2>2, <2>3, <3>1 DEF Ret, Set, segments, control, tables, Rest
  <2>5. /\ IsRegisters(reg') /\ reg'["rsp"] = Addr(Base(c) - 23)
        /\ \A y \in Reg \ {"rsp"} : reg'[y] = reg[y]
    <3>1. DOMAIN reg = Reg /\ "rsp" \in Reg
      BY RegIs DEF IsRegisters
    <3> QED BY <2>4, <3>1 DEF IsRegisters
  <2>6. StubDepth(21) = 23 /\ Intact(21) = Reg \ (CallerSaved \cup {"rsp", "r15"})
    <3>1. StubDepth(21) = 23
      BY DEF StubDepth
    <3>2. {j \in 1 .. 16 \ {13} : j + 7 > 23} = {}
      OBVIOUS
    <3> QED BY <3>1, <3>2 DEF Intact
  <2>7. InStub(c, 21, reg', rip', stack')
    BY <1>2, <2>4, <2>5, <2>6 DEF InStub
  <2> QED BY <2>4, <2>5, <2>7 DEF Proceeds, Handles
<1> QED BY <1>3, <1>4, <1>5

\* Every instruction of an interrupt but the last, in sum.
LEMMA HandlesStep ==
    ASSUME Execute, NEW c, IsContext(c), HasRoom(c), IsRegisters(reg), IsStack(stack),
           Handles(c, reg, rip, stack), rip # Code("interrupt_handler_stub", 38)
    PROVE  Proceeds(c)
<1>1. \A a \in SP(c) .. StackWords - 1 : stack[a] = c.live[a]
  BY DEF Handles
<1>2. ASSUME NEW k \in 1 .. 3, InVector(c, k, reg, rip, stack) PROVE Proceeds(c)
  BY <1>1, <1>2, VectorStep
<1>3. ASSUME NEW k \in 1 .. 38, InStub(c, k, reg, rip, stack) PROVE Proceeds(c)
  <2>1. k # 38
    BY <1>3 DEF InStub
  <2>2. \/ k \in {1} \cup 3 .. 17
        \/ k \in {2, 18, 19, 20}
        \/ k \in 21 .. 36 /\ k # 24
        \/ k \in {24, 37}
    BY <2>1
  <2> QED BY <1>1, <1>3, <2>2, PushaqStep, MiddleStep, PopaqStep, AddStep
<1>4. ASSUME NEW k \in 1 .. 3, InHandler(c, k, reg, rip, stack) PROVE Proceeds(c)
  BY <1>1, <1>4, HandlerStep
<1> QED BY <1>2, <1>3, <1>4 DEF Handles

\* iretq gives back the context that was interrupted.
Restores(c) ==
    /\ reg' = c.reg /\ rip' = c.rip /\ cs' = c.cs /\ ss' = c.ss
    /\ enabled' = c.enabled /\ nmi_blocked' = FALSE
    /\ saved' = (IF saved = <<>> THEN saved ELSE SubSeq(saved, 1, Len(saved) - 1))
    /\ UNCHANGED <<stack, data, gdtr, idtr, idt, budget>>

\* The iretq at the end of the stub does so.
LEMMA Returning ==
    ASSUME Execute, NEW c, IsContext(c), HasRoom(c), IsRegisters(reg),
           Handles(c, reg, rip, stack), gdtr = gdt, rip = Code("interrupt_handler_stub", 38)
    PROVE  Restores(c)
<1>1. InStub(c, 38, reg, rip, stack)
  <2>1. ASSUME NEW k, InVector(c, k, reg, rip, stack) PROVE FALSE
    <3>1. rip = VectorCode(c.number, k)
      BY <2>1 DEF InVector
    <3> QED BY <3>1, CodeDiffers
  <2>2. ASSUME NEW k, InHandler(c, k, reg, rip, stack) PROVE FALSE
    <3>1. rip = Code("interrupt_handler", k)
      BY <2>2 DEF InHandler
    <3>2. "interrupt_handler" # "interrupt_handler_stub"
      OBVIOUS
    <3> QED BY <3>1, <3>2, CodeDiffers
  <2>3. PICK k \in 1 .. 38 : InStub(c, k, reg, rip, stack)
    BY <2>1, <2>2 DEF Handles
  <2>4. k = 38
    BY <2>3, CodeDiffers DEF InStub
  <2> QED BY <2>3, <2>4
<1>2. StubDepth(38) = 5 /\ Intact(38) = Reg \ {"rsp"}
  <2>1. StubDepth(38) = 5
    BY DEF StubDepth
  <2>2. {j \in 1 .. 16 \ {13} : j + 7 > 5} = 1 .. 16 \ {13}
    OBVIOUS
  <2>3. Intact(38) = (Reg \ (CallerSaved \cup {"rsp", "r15"})) \cup {Slots[j] : j \in 1 .. 16 \ {13}}
    BY <2>1, <2>2 DEF Intact
  <2>4. Reg \ (CallerSaved \cup {"rsp", "r15"}) \subseteq Reg \ {"rsp"}
    OBVIOUS
  <2> QED BY <2>1, <2>3, <2>4, SlotRegisters
<1>3. Iretq
  <2>1. Fetch.op = "iretq" /\ rip # Fault
    BY Fetches, StubText, Parts, CodeDiffers
  <2> QED BY <2>1, Others
<1>4. /\ reg["rsp"] = Addr(Base(c) - 5) /\ rsp = Base(c) - 5
      /\ \A x \in Reg \ {"rsp"} : reg[x] = c.reg[x]
      /\ \A j \in 1 .. 5 : stack[Base(c) - j] = Word(c, j)
  BY <1>1, <1>2, WordParts DEF InStub, rsp
<1>5. /\ stack[rsp] = c.rip /\ stack[rsp + 1] = Imm(c.cs) /\ stack[rsp + 2] = Flags(c.enabled)
      /\ stack[rsp + 3] = c.reg["rsp"] /\ stack[rsp + 4] = Imm(c.ss)
      /\ rsp + 4 < StackWords
  <2>0. Base(c) \in Int /\ Base(c) <= StackWords /\ StackWords \in Int
    BY Aligned, InterruptsAssumption DEF HasRoom
  <2>1. /\ rsp = Base(c) - 5 /\ rsp + 1 = Base(c) - 4 /\ rsp + 2 = Base(c) - 3
        /\ rsp + 3 = Base(c) - 2 /\ rsp + 4 = Base(c) - 1 /\ rsp + 4 < StackWords
    BY <1>4, <2>0
  <2> QED BY <1>4, <2>1, Words
<1>6. IsFrame(rsp)
  BY <1>5, WordParts, SelectorsAccepted DEF IsFrame, IsContext
<1>7. /\ reg' = [reg EXCEPT !["rsp"] = c.reg["rsp"]] /\ rip' = c.rip
      /\ cs' = c.cs /\ ss' = c.ss /\ enabled' = c.enabled
  BY <1>3, <1>5, <1>6, WordParts DEF Iretq, Set
<1>8. reg' = c.reg
  <2>1. DOMAIN reg = Reg /\ "rsp" \in Reg
    BY RegIs DEF IsRegisters
  <2>2. reg' = [x \in Reg |-> c.reg[x]]
    BY <1>4, <1>7, <2>1 DEF IsRegisters
  <2> QED BY <2>2 DEF IsContext, IsRegisters
<1> QED BY <1>3, <1>7, <1>8 DEF Restores, Iretq, tables
-----------------------------------------------------------------------------
(***************************************************************************)
(* Delivery.                                                               *)
(***************************************************************************)
\* The context that is interrupted.
Interrupted(n, error, next) ==
    [reg |-> reg, rip |-> next, cs |-> cs, ss |-> ss, enabled |-> enabled,
     live |-> [a \in rsp .. StackWords - 1 |-> stack[a]], number |-> n,
     error |-> IF error = <<>> THEN Imm(0) ELSE error[1]]

\* An interrupt enters its vector with its frame on the stack, masked.
LEMMA Delivery ==
    ASSUME Ready, SegmentsSet, enabled \in BOOLEAN, NEW n \in Numbers, NEW error, NEW next,
           Deliver(n, error, next),
           \/ error = <<>> /\ ~EXC_HAS_ERROR_CODE(n)
           \/ (\E w : error = <<w>>) /\ EXC_HAS_ERROR_CODE(n),
           rsp \in 25 .. StackWords, reg["rsp"] = Addr(rsp), next[1] \in {"code", "vector"}
    PROVE  LET c == Interrupted(n, error, next) IN
           /\ IsContext(c) /\ HasRoom(c) /\ Handles(c, reg', rip', stack')
           /\ IsRegisters(reg') /\ IsStack(stack')
           /\ SegmentsSet' /\ enabled' = FALSE /\ saved' = Append(saved, c)
           /\ nmi_blocked' = (nmi_blocked \/ n = EXC_NMI)
           /\ UNCHANGED <<data, gdtr, idtr, idt>>
<1> DEFINE c == Interrupted(n, error, next)
           base == (rsp \div 2) * 2
           frame == <<Imm(ss), reg["rsp"], Flags(enabled), Imm(cs), next>> \o error
           e == 5 + Len(error)
           gate == idt[n]
           entry == {v \in Numbers : vector_table[v] = Offset(gate)}
<1>1. /\ c.reg = reg /\ c.rip = next /\ c.cs = cs /\ c.ss = ss /\ c.enabled = enabled
      /\ c.live = [a \in rsp .. StackWords - 1 |-> stack[a]] /\ c.number = n
      /\ c.error = (IF error = <<>> THEN Imm(0) ELSE error[1])
      /\ SP(c) = rsp /\ Base(c) = base
  BY DEF Interrupted, SP, Base, rsp
<1> HIDE DEF c
<1>2. gate = Gate(n) /\ Present(gate) /\ Masks(gate) /\ gate[2] = KernelCode /\ entry = {n}
      /\ IsCode(gate[2])
  BY GatesAccepted, SelectorsAccepted DEF Ready
<1>3. /\ stack' = Pushed(base, frame)
      /\ reg' = [reg EXCEPT !["rsp"] = Addr(base - Len(frame))]
      /\ rip' = VectorCode(n, 1)
      /\ cs' = KernelCode /\ enabled' = (enabled /\ FALSE)
      /\ nmi_blocked' = (nmi_blocked \/ n = EXC_NMI)
      /\ saved' = Append(saved, c)
      /\ UNCHANGED <<ss, data, gdtr, idtr, idt>>
  <2>1. (CHOOSE v \in entry : TRUE) = n /\ entry # {}
    BY <1>2
  <2> QED BY <1>2, <2>1 DEF Deliver, c, Interrupted, tables
<1>4. IsContext(c) /\ HasRoom(c)
  <2>1. ~EXC_HAS_ERROR_CODE(n) => c.error = Imm(0)
    <3>1. \A w : <<w>> # <<>>
      OBVIOUS
    <3> QED BY <1>1, <3>1
  <2> QED BY <1>1, <2>1 DEF IsContext, HasRoom, Ready, SegmentsSet
<1>5. /\ frame[1] = Word(c, 1) /\ frame[2] = Word(c, 2) /\ frame[3] = Word(c, 3)
      /\ frame[4] = Word(c, 4) /\ frame[5] = Word(c, 5)
      /\ Len(frame) = 7 - Len(Vector(n)) + 1
      /\ Len(frame) = 6 => frame[6] = Word(c, 6)
      /\ Len(frame) \in 5 .. 6
  <2> DEFINE five == <<Imm(ss), reg["rsp"], Flags(enabled), Imm(cs), next>>
  <2>1. CASE error = <<>> /\ ~EXC_HAS_ERROR_CODE(n)
    <3>1. frame = five
      BY <2>1
    <3>2. Len(Vector(n)) = 3
      BY <2>1, VectorText
    <3>3. \A f : f = five => /\ Len(f) = 5
                            /\ f[1] = Imm(ss) /\ f[2] = reg["rsp"] /\ f[3] = Flags(enabled)
                            /\ f[4] = Imm(cs) /\ f[5] = next
      OBVIOUS
    <3> HIDE DEF frame, five
    <3>4. /\ Len(frame) = 5
          /\ frame[1] = Imm(ss) /\ frame[2] = reg["rsp"] /\ frame[3] = Flags(enabled)
          /\ frame[4] = Imm(cs) /\ frame[5] = next
      BY <3>1, <3>3
    <3>5. /\ frame[1] = Word(c, 1) /\ frame[2] = Word(c, 2) /\ frame[3] = Word(c, 3)
          /\ frame[4] = Word(c, 4) /\ frame[5] = Word(c, 5)
      BY <3>4, <1>1, Words
    <3> QED BY <3>2, <3>4, <3>5
  <2>2. CASE (\E w : error = <<w>>) /\ EXC_HAS_ERROR_CODE(n)
    <3>1. PICK w : error = <<w>>
      BY <2>2
    <3>2. /\ Len(frame) = 6 /\ frame[6] = w
          /\ frame[1] = Imm(ss) /\ frame[2] = reg["rsp"] /\ frame[3] = Flags(enabled)
          /\ frame[4] = Imm(cs) /\ frame[5] = next
      BY <3>1
    <3>3. c.error = w
      BY <1>1, <3>1
    <3>4. Len(Vector(n)) = 2
      BY <2>2, VectorText
    <3> HIDE DEF frame
    <3> QED BY <3>2, <3>3, <3>4, <1>1, Words
  <2> QED BY <2>1, <2>2
<1>6. Base(c) \in 24 .. rsp /\ rsp \in Int /\ rsp <= StackWords /\ StackWords \in Nat
  BY <1>1, <1>4, Aligned, InterruptsAssumption DEF HasRoom
<1> HIDE DEF frame, base
<1>7. /\ IsStack(stack')
      /\ \A j \in 1 .. Len(frame) : stack'[Base(c) - j] = frame[j]
      /\ \A a \in rsp .. StackWords - 1 : stack'[a] = stack[a]
  <2>1. DOMAIN stack = 0 .. StackWords - 1
    BY DEF Ready, IsStack
  <2>2. stack' = [b \in 0 .. StackWords - 1 |->
                    IF b \in Base(c) - Len(frame) .. Base(c) - 1 THEN frame[Base(c) - b] ELSE stack[b]]
    BY <1>1, <1>3, <2>1 DEF Pushed
  <2>3. IsStack(stack')
    BY <2>2 DEF IsStack
  <2>4. ASSUME NEW j \in 1 .. Len(frame) PROVE stack'[Base(c) - j] = frame[j]
    <3>1. /\ Base(c) - j \in 0 .. StackWords - 1
          /\ Base(c) - j \in Base(c) - Len(frame) .. Base(c) - 1
          /\ Base(c) - (Base(c) - j) = j
      BY <1>5, <1>6
    <3> QED BY <2>2, <3>1
  <2>5. ASSUME NEW a \in rsp .. StackWords - 1 PROVE stack'[a] = stack[a]
    <3>1. a \in 0 .. StackWords - 1 /\ a \notin Base(c) - Len(frame) .. Base(c) - 1
      BY <1>5, <1>6
    <3> QED BY <2>2, <3>1
  <2> QED BY <2>3, <2>4, <2>5
<1>8. /\ IsRegisters(reg') /\ reg'["rsp"] = Addr(Base(c) - Len(frame))
      /\ \A x \in Reg \ {"rsp"} : reg'[x] = c.reg[x]
  <2>1. DOMAIN reg = Reg /\ "rsp" \in Reg
    BY RegIs DEF Ready, IsRegisters
  <2> QED BY <1>1, <1>3, <2>1 DEF IsRegisters
<1>9. InVector(c, 1, reg', rip', stack')
  <2>1. 1 \in 1 .. Len(Vector(n))
    BY VectorText
  <2>2. \A j \in 1 .. Len(frame) : frame[j] = Word(c, j)
    <3>1. \A j \in 1 .. Len(frame) : j \in {1, 2, 3, 4, 5} \/ (j = 6 /\ Len(frame) = 6)
      BY <1>5
    <3> QED BY <1>5, <3>1
  <2> QED BY <1>1, <1>3, <1>5, <1>7, <1>8, <2>1, <2>2 DEF InVector
<1>10. Handles(c, reg', rip', stack')
  <2>1. \A a \in SP(c) .. StackWords - 1 : stack'[a] = c.live[a]
    BY <1>1, <1>7
  <2>2. 1 \in 1 .. 3
    OBVIOUS
  <2> QED BY <1>9, <2>1, <2>2 DEF Handles
<1>11. SegmentsSet' /\ enabled' = FALSE
  BY <1>3 DEF SegmentsSet
<1> QED BY <1>3, <1>4, <1>7, <1>8, <1>10, <1>11 DEF c
-----------------------------------------------------------------------------
(***************************************************************************)
(* The kernel's own steps after set_idt.                                   *)
(***************************************************************************)
\* All the while the kernel has the bottom of the stack.
LEMMA RunningStack ==
    ASSUME NEW r, NEW p, NEW st, Running(r, p, st)
    PROVE  \E a \in StackWords - 8 .. StackWords : r["rsp"] = Addr(a)
<1>1. StackWords \in Int
  BY InterruptsAssumption
<1>2. \A top \in Tops : /\ top \in StackWords - 8 .. StackWords
                        /\ top - 1 \in StackWords - 8 .. StackWords
  BY <1>1 DEF Tops
<1>3. StackWords \in StackWords - 8 .. StackWords /\ StackWords - 1 \in StackWords - 8 .. StackWords
  BY <1>1
<1> QED BY <1>2, <1>3 DEF Running

\* What the kernel's steps leave as it was.
Kept == UNCHANGED <<cs, ss, data, nmi_blocked, gdtr, idtr, idt, saved>>

\* Every instruction of the kernel's own code but int.
LEMMA RunningStep ==
    ASSUME Execute, Ready, enabled \in BOOLEAN, Running(reg, rip, stack),
           rip \notin {Code("main2", 2), Code("main2", 3)}
    PROVE  /\ Running(reg', rip', stack') /\ Ready' /\ enabled' \in BOOLEAN
           /\ Kept
<1>1. /\ IsRegisters(reg) /\ IsStack(stack) /\ StackWords \in Int /\ StackWords >= 58
      /\ \A x \in Preserved : reg[x] = Value(x)
      /\ DOMAIN reg = Reg /\ {"rsp", "rbp", "rdi", "rsi"} \subseteq Reg
      /\ {"rsp", "rbp", "rdi", "rsi"} \cap Preserved = {} /\ Preserved \subseteq Reg
      /\ reg["rsi"] # Magic
  BY InterruptsAssumption, RegIs DEF Ready, Running, IsRegisters, Preserved, CallerSaved
<1>2. ASSUME IsRegisters(reg'), IsStack(stack'), Kept PROVE Ready'
  BY <1>2 DEF Ready, Kept
<1>3. CASE rip = Code("kernel", 5) \/ rip = Code("main2", 1)
  <2>1. PICK k \in {1, 5}, r \in {"kernel", "main2"} : /\ rip = Code(r, k)
                                                       /\ r = "kernel" <=> k = 5
    BY <1>3
  <2>2. Fetch.op = "work" /\ rip # Fault
    BY <2>1, Fetches, OtherText, Parts, CodeDiffers
  <2>3. rip' = Code(r, k + 1) /\ UNCHANGED <<reg, stack, enabled>> /\ Kept
    BY <2>1, <2>2, Others, Follows DEF Work, segments, control, tables, Kept
  <2>4. Running(reg', rip', stack')
    <3>1. CASE r = "kernel"
      <4>1. rip' = Code("kernel", 6) /\ rip = Code("kernel", 5)
        BY <2>1, <2>3, <3>1
      <4>2. reg["rbp"] = Value("rbp") /\ \E top \in Tops : reg["rsp"] = Addr(top)
        BY <4>1, CodeDiffers DEF Running
      <4> QED BY <1>1, <2>3, <4>1, <4>2 DEF Running
    <3>2. CASE r = "main2"
      <4>1. rip' = Code("main2", 2) /\ rip = Code("main2", 1)
        BY <2>1, <2>3, <3>2
      <4>2. reg["rsp"] = Addr(StackWords - 1) /\ reg["rbp"] = Imm(0) /\ stack[StackWords - 1] = Imm(0)
        BY <4>1, CodeDiffers DEF Running
      <4> QED BY <1>1, <2>3, <4>1, <4>2 DEF Running
    <3> QED BY <2>1, <3>1, <3>2
  <2> QED BY <1>1, <1>2, <2>3, <2>4
<1>4. CASE rip = Code("kernel", 6)
  <2>1. Fetch.op = "call" /\ arg = "setup_new_stack" /\ rip # Fault
    BY <1>4, Fetches, OtherText, Parts, CodeDiffers DEF arg
  <2>2. PICK top \in Tops : reg["rsp"] = Addr(top)
    BY <1>4, CodeDiffers DEF Running
  <2>3. top \in Int /\ rsp = top
    BY <1>1, <2>2, WordParts DEF rsp, Tops
  <2>4. /\ stack' = Pushed(top, <<Following>>)
        /\ reg' = [reg EXCEPT !["rsp"] = Addr(top - 1), !["rdi"] = Code("main2", 1),
                              !["rsi"] = Addr(0)]
        /\ rip' = Code("setup_new_stack", 1) /\ UNCHANGED enabled /\ Kept
    <3>1. Call
      BY <2>1, Others
    <3>2. "setup_new_stack" # "init_segment_selectors"
      OBVIOUS
    <3> QED BY <2>1, <2>3, <3>1, <3>2 DEF Call, segments, control, tables, Kept
  <2>5. IsStack(stack')
    BY <1>1, <2>3, <2>4, PushWord
  <2>6. /\ IsRegisters(reg') /\ \A x \in Preserved : reg'[x] = Value(x)
        /\ reg'["rsp"] = Addr(top - 1) /\ reg'["rsi"] = Addr(0)
    BY <1>1, <2>4 DEF IsRegisters
  <2>7. Running(reg', rip', stack')
    <3>1. Addr(0) # Magic
      BY WordParts
    <3> QED BY <2>4, <2>6, <3>1 DEF Running
  <2> QED BY <1>2, <2>4, <2>5, <2>6, <2>7
<1>5. CASE rip = Code("setup_new_stack", 1)
  <2>1. Fetch.op = "newstack" /\ rip # Fault
    BY <1>5, Fetches, OtherText, Parts, CodeDiffers
  <2>2. /\ reg' = [reg EXCEPT !["rsp"] = Addr(StackWords)]
        /\ stack' = [a \in DOMAIN stack |-> Junk]
        /\ rip' = Code("setup_new_stack", 2) /\ UNCHANGED enabled /\ Kept
    BY <1>5, <2>1, Others, Follows DEF NewStack, Set, segments, control, tables, Kept
  <2>3. IsStack(stack')
    BY <1>1, <2>2 DEF IsStack
  <2>4. /\ IsRegisters(reg') /\ \A x \in Preserved : reg'[x] = Value(x)
        /\ reg'["rsp"] = Addr(StackWords) /\ reg'["rsi"] # Magic
    BY <1>1, <2>2 DEF IsRegisters
  <2>5. Running(reg', rip', stack')
    BY <2>2, <2>4 DEF Running
  <2> QED BY <1>2, <2>2, <2>3, <2>4, <2>5
<1>6. CASE rip = Code("setup_new_stack", 2)
  <2>1. Fetch = I("zero", "rbp") /\ rip # Fault
    BY <1>6, Fetches, OtherText, CodeDiffers
  <2>2. /\ reg' = [reg EXCEPT !["rbp"] = Imm(0)] /\ UNCHANGED <<stack, enabled>>
        /\ rip' = Code("setup_new_stack", 3) /\ Kept
    BY <1>6, <2>1, Moves, Follows DEF Rest, Kept
  <2>3. reg["rsp"] = Addr(StackWords)
    BY <1>6, CodeDiffers DEF Running
  <2>4. /\ IsRegisters(reg') /\ \A x \in Preserved : reg'[x] = Value(x)
        /\ reg'["rsp"] = Addr(StackWords) /\ reg'["rbp"] = Imm(0) /\ reg'["rsi"] # Magic
    BY <1>1, <2>2, <2>3 DEF IsRegisters
  <2>5. Running(reg', rip', stack')
    BY <2>2, <2>4 DEF Running
  <2> QED BY <1>1, <1>2, <2>2, <2>4, <2>5
<1>7. CASE rip = Code("setup_new_stack", 3)
  <2>1. Fetch = I("push", "rbp") /\ rip # Fault
    BY <1>7, Fetches, OtherText, CodeDiffers
  <2>2. reg["rsp"] = Addr(StackWords) /\ rsp = StackWords /\ reg["rbp"] = Imm(0)
    BY <1>7, CodeDiffers, WordParts DEF Running, rsp
  <2>3. /\ reg' = [reg EXCEPT !["rsp"] = Addr(StackWords - 1)]
        /\ stack' = Pushed(StackWords, <<Imm(0)>>)
        /\ rip' = Code("setup_new_stack", 4) /\ UNCHANGED enabled /\ Kept
    <3>1. /\ stack' = Pushed(rsp, <<reg["rbp"]>>) /\ ToRsp(rsp - 1)
          /\ rip' = Following /\ UNCHANGED Rest
      BY <2>1, Moves
    <3> QED BY <1>7, <2>2, <3>1, Follows DEF Rest, Kept, ToRsp
  <2>4. IsStack(stack') /\ stack'[StackWords - 1] = Imm(0)
    BY <1>1, <2>3, PushWord
  <2>5. /\ IsRegisters(reg') /\ \A x \in Preserved : reg'[x] = Value(x)
        /\ reg'["rsp"] = Addr(StackWords - 1) /\ reg'["rbp"] = Imm(0) /\ reg'["rsi"] # Magic
    BY <1>1, <2>2, <2>3 DEF IsRegisters
  <2>6. Running(reg', rip', stack')
    BY <2>3, <2>4, <2>5 DEF Running
  <2> QED BY <1>2, <2>3, <2>4, <2>5, <2>6
<1>8. CASE rip = Code("setup_new_stack", 4)
  <2>1. Fetch.op = "jmp" /\ arg = "main2" /\ rip # Fault
    BY <1>8, Fetches, OtherText, Parts, CodeDiffers DEF arg
  <2>2. rip' = Code("main2", 1) /\ UNCHANGED <<reg, stack, enabled>> /\ Kept
    BY <2>1, Others DEF Jmp, segments, control, tables, Kept
  <2>3. reg["rsp"] = Addr(StackWords - 1) /\ reg["rbp"] = Imm(0) /\ stack[StackWords - 1] = Imm(0)
    BY <1>8, CodeDiffers DEF Running
  <2>4. Running(reg', rip', stack')
    BY <1>1, <2>2, <2>3 DEF Running
  <2> QED BY <1>1, <1>2, <2>2, <2>4
<1>9. CASE rip = Code("main2", 4) \/ rip = Code("halt", 2)
  <2>1. Fetch.op = "hang" /\ rip # Fault
    BY <1>9, Fetches, OtherText, Parts, CodeDiffers
  <2>2. UNCHANGED <<reg, rip, stack, enabled>> /\ Kept
    BY <2>1, Others DEF vars, Kept
  <2> QED BY <1>1, <1>2, <2>2
<1>10. CASE rip = Code("interrupt_handler", 1) \/ rip = Code("halt", 1)
  <2>1. \E a \in StackWords - 8 .. StackWords : reg["rsp"] = Addr(a)
    BY RunningStack
  <2>2. rip' \in {Code("halt", 1), Code("halt", 2)} /\ UNCHANGED <<reg, stack>>
        /\ enabled' \in BOOLEAN /\ Kept
    <3>1. CASE rip = Code("interrupt_handler", 1)
      <4>1. Fetch.op = "check" /\ rip # Fault
        BY <3>1, Fetches, OtherText, Parts, CodeDiffers
      <4> QED BY <1>1, <4>1, Others DEF CheckMagic, segments, control, tables, Kept
    <3>2. CASE rip = Code("halt", 1)
      <4>1. Fetch.op = "cli" /\ rip # Fault
        BY <3>2, Fetches, OtherText, Parts, CodeDiffers
      <4> QED BY <3>2, <4>1, Others, Follows DEF Cli, segments, tables, Kept
    <3> QED BY <1>10, <3>1, <3>2
  <2>3. Running(reg', rip', stack')
    BY <1>1, <2>1, <2>2 DEF Running
  <2> QED BY <1>1, <1>2, <2>2, <2>3
<1>11. rip \in {Code("kernel", 5), Code("kernel", 6), Code("setup_new_stack", 1),
                Code("setup_new_stack", 2), Code("setup_new_stack", 3), Code("setup_new_stack", 4),
                Code("main2", 1), Code("main2", 4), Code("interrupt_handler", 1),
                Code("halt", 1), Code("halt", 2)}
  <2>1. \A k \in 1 .. 4 : k = 1 \/ k = 2 \/ k = 3 \/ k = 4
    OBVIOUS
  <2> QED BY <2>1 DEF Running
<1> QED BY <1>3, <1>4, <1>5, <1>6, <1>7, <1>8, <1>9, <1>10, <1>11

\* "to catch when gdb jumps here for odd reasons": the handler is entered
\* without the magic number.
LEMMA JumpStep ==
    ASSUME GdbJump, Ready, Running(reg, rip, stack)
    PROVE  /\ Running(reg', rip', stack') /\ Ready' /\ UNCHANGED enabled
           /\ Kept
<1>1. \E a \in StackWords - 8 .. StackWords : reg["rsp"] = Addr(a)
  BY RunningStack
<1>2. rip' = Code("interrupt_handler", 1) /\ UNCHANGED <<reg, stack, enabled>> /\ Kept
  BY DEF GdbJump, segments, control, tables, Kept
<1>3. (\A x \in Preserved : reg'[x] = Value(x)) /\ reg'["rsi"] # Magic
  BY <1>2 DEF Running
<1> QED BY <1>1, <1>2, <1>3 DEF Running, Ready, Kept
-----------------------------------------------------------------------------
(***************************************************************************)
(* kernel_main up to set_idt.                                              *)
(***************************************************************************)
\* Facts about the registers and the stack that every step needs.
LEMMA OwnParts ==
    ASSUME IsRegisters(reg)
    PROVE  /\ DOMAIN reg = Reg
           /\ {"rsp", "rbp", "rax", "rcx", "rdi", "rsi"} \subseteq Reg
           /\ {"rsp", "rbp", "rax", "rcx", "rdi", "rsi"} \cap Preserved = {}
           /\ Preserved \subseteq Reg
  BY RegIs DEF IsRegisters, Preserved, CallerSaved

\* A stack pointer of kernel_main's.
LEMMA TopsAre ==
    ASSUME NEW top \in Tops
    PROVE  /\ StackWords \in Nat /\ StackWords >= 58 /\ top \in Nat
           /\ top >= StackWords - 3 /\ top < StackWords - 1
  BY InterruptsAssumption, RegIs DEF Tops

\* The next instruction of init_segment_selectors.
InitProceeds(k, top) ==
    /\ rip' = Code("init_segment_selectors", k)
    /\ InInit(k, top, reg', data', enabled', stack')
    /\ OwnRegisters(reg') /\ IsRegisters(reg') /\ IsStack(stack')
    /\ UNCHANGED <<saved, idtr, gdtr, enabled, nmi_blocked>>

\* init_segment_selectors pushes the frame of its iretq.
LEMMA InitPush ==
    ASSUME Execute, NEW top \in Tops, NEW k \in 6 .. 10,
           IsRegisters(reg), IsStack(stack), OwnRegisters(reg),
           rip = Code("init_segment_selectors", k), InInit(k, top, reg, data, enabled, stack)
    PROVE  InitProceeds(k + 1, top)
<1> DEFINE w == CASE k = 6 -> Imm(KernelData)
                  [] k = 7 -> Addr(top)
                  [] k = 8 -> Flags(enabled)
                  [] k = 9 -> Imm(KernelCode)
                  [] k = 10 -> Code("kernel", 3)
           a == top - (k - 6)
<1>1. /\ rip # Fault /\ Fetch = init_segment_selectors[k]
      /\ Following = Code("init_segment_selectors", k + 1)
  BY Fetches, Follows, CodeDiffers
<1>2. /\ StackWords \in Nat /\ StackWords >= 58 /\ top \in Nat
      /\ top >= StackWords - 3 /\ top < StackWords - 1
  BY TopsAre
<1>3. InitDepth(k) = k - 6 /\ InitDepth(k + 1) = k + 1 - 6
  BY DEF InitDepth
<1>4. reg["rsp"] = Addr(a) /\ rsp = a /\ a \in Nat /\ a <= top /\ a >= top - 4
  BY <1>2, <1>3, WordParts DEF InInit, rsp
<1>5. /\ reg["rdi"] = Imm(KernelData) /\ reg["rsi"] = Imm(KernelCode)
      /\ reg["rax"] = Addr(top) /\ reg["rcx"] = Code("kernel", 3)
  BY DEF InInit
<1>6. /\ stack' = Pushed(rsp, <<w>>) /\ ToRsp(rsp - 1)
      /\ rip' = Following /\ UNCHANGED Rest
  <2>1. CASE k = 6
    BY <1>1, <1>5, <2>1, Moves, OtherText
  <2>2. CASE k = 7
    BY <1>1, <1>5, <2>2, Moves, OtherText
  <2>3. CASE k = 8
    BY <1>1, <2>3, Moves, OtherText
  <2>4. CASE k = 9
    BY <1>1, <1>5, <2>4, Moves, OtherText
  <2>5. CASE k = 10
    BY <1>1, <1>5, <2>5, Moves, OtherText
  <2> QED BY <2>1, <2>2, <2>3, <2>4, <2>5
<1>w. /\ k = 6 => w = Imm(KernelData) /\ a - 1 = top - 1
      /\ k = 7 => w = Addr(top) /\ a - 1 = top - 2
      /\ k = 8 => w = Flags(enabled) /\ a - 1 = top - 3
      /\ k = 9 => w = Imm(KernelCode) /\ a - 1 = top - 4
      /\ k = 10 => w = Code("kernel", 3) /\ a - 1 = top - 5
  <2>1. top \in Int
    BY <1>2
  <2> QED BY <2>1
<1>7. /\ IsStack(stack') /\ stack'[a - 1] = w
      /\ \A b \in 0 .. StackWords - 1 : b # a - 1 => stack'[b] = stack[b]
  <2> HIDE DEF w, a
  <2>1. a - 1 \in 0 .. StackWords - 1 /\ a \in Int
    BY <1>2, <1>4
  <2> QED BY <1>4, <1>6, <2>1, PushWord
<1>8. /\ IsRegisters(reg') /\ reg'["rsp"] = Addr(a - 1)
      /\ \A x \in Reg : x # "rsp" => reg'[x] = reg[x]
  <2> HIDE DEF w, a
  <2> QED BY <1>4, <1>6, OwnParts DEF ToRsp, IsRegisters
<1>9. OwnRegisters(reg')
  BY <1>8, OwnParts DEF OwnRegisters
<1>10. InInit(k + 1, top, reg', data', enabled', stack')
  <2>1. reg'["rsp"] = Addr(top - InitDepth(k + 1))
    <3>1. a - 1 = top - InitDepth(k + 1)
      BY <1>2, <1>3
    <3> QED BY <1>8, <3>1
  <2>2. /\ reg'["rdi"] = Imm(KernelData) /\ reg'["rsi"] = Imm(KernelCode)
        /\ reg'["rax"] = Addr(top) /\ reg'["rcx"] = Code("kernel", 3)
    BY <1>5, <1>8, OwnParts
  <2>3. data' = 0 /\ enabled' = enabled
    BY <1>6 DEF Rest, InInit
  <2> HIDE DEF w
  <2>4. \A i \in 1 .. 5 : i < k - 5 => stack'[top - i] = stack[top - i]
    <3>1. \A i \in 1 .. 5 : i < k - 5 => top - i \in 0 .. StackWords - 1 /\ top - i # a - 1
      BY <1>2
    <3> QED BY <1>7, <3>1
  <2>5. /\ k + 1 > 6 => stack'[top - 1] = Imm(KernelData)
        /\ k + 1 > 7 => stack'[top - 2] = Addr(top)
        /\ k + 1 > 8 => stack'[top - 3] = Flags(enabled)
        /\ k + 1 > 9 => stack'[top - 4] = Imm(KernelCode)
        /\ k + 1 > 10 => stack'[top - 5] = Code("kernel", 3)
    <3>1. /\ k > 6 => stack[top - 1] = Imm(KernelData)
          /\ k > 7 => stack[top - 2] = Addr(top)
          /\ k > 8 => stack[top - 3] = Flags(enabled)
          /\ k > 9 => stack[top - 4] = Imm(KernelCode)
      BY DEF InInit
    <3> HIDE DEF a
    <3> QED BY <1>w, <1>7, <2>4, <3>1
  <2> HIDE DEF a
  <2> QED BY <2>1, <2>2, <2>3, <2>5 DEF InInit
<1> QED BY <1>1, <1>6, <1>7, <1>8, <1>9, <1>10 DEF InitProceeds, Rest

\* The other instructions of init_segment_selectors before its iretq.
LEMMA InitMove ==
    ASSUME Execute, NEW top \in Tops, NEW k \in 1 .. 5,
           IsRegisters(reg), IsStack(stack), OwnRegisters(reg),
           rip = Code("init_segment_selectors", k), InInit(k, top, reg, data, enabled, stack)
    PROVE  InitProceeds(k + 1, top)
<1>1. /\ rip # Fault /\ Fetch = init_segment_selectors[k]
      /\ Following = Code("init_segment_selectors", k + 1)
  BY Fetches, Follows, CodeDiffers
<1>2. /\ StackWords \in Nat /\ StackWords >= 58 /\ top \in Nat
      /\ top >= StackWords - 3 /\ top < StackWords - 1
  BY TopsAre
<1>3. /\ InitDepth(1) = 1 /\ InitDepth(2) = 1 /\ InitDepth(3) = 0 /\ InitDepth(4) = 0
      /\ InitDepth(5) = 0 /\ InitDepth(6) = 0
  BY DEF InitDepth
<1>4. \A a : reg["rsp"] = Addr(a) => rsp = a
  BY WordParts DEF rsp
<1>5. CASE k = 1
  <2>1. Fetch.op = "null"
    BY <1>1, <1>5, OtherText, Parts
  <2>2. /\ reg' = [reg EXCEPT !["rax"] = Junk] /\ data' = 0 /\ rip' = Following
        /\ UNCHANGED <<stack, saved, idtr, gdtr, enabled, nmi_blocked>>
    BY <1>1, <2>1, Others DEF Null, Set, control, tables
  <2>3. /\ IsRegisters(reg') /\ \A x \in Reg : x # "rax" => reg'[x] = reg[x]
    BY <2>2, OwnParts DEF IsRegisters
  <2>4. OwnRegisters(reg')
    BY <2>3, OwnParts DEF OwnRegisters
  <2>5. InInit(2, top, reg', data', enabled', stack')
    BY <1>3, <1>5, <2>2, <2>3, OwnParts DEF InInit
  <2> QED BY <1>1, <1>5, <2>2, <2>3, <2>4, <2>5 DEF InitProceeds
<1>6. CASE k = 2
  <2>1. reg["rsp"] = Addr(top - 1) /\ stack[top - 1] = Code("kernel", 3)
    BY <1>3, <1>6 DEF InInit
  <2>2. rsp = top - 1 /\ rsp + 1 = top
    BY <1>2, <1>4, <2>1
  <2>3. Fetch = I("pop", "rcx")
    BY <1>1, <1>6, OtherText
  <2>4. /\ reg' = [reg EXCEPT !["rcx"] = Code("kernel", 3), !["rsp"] = Addr(top)]
        /\ rip' = Following /\ UNCHANGED <<stack, Rest>>
    <3>1. /\ reg' = [reg EXCEPT !["rcx"] = stack[rsp], !["rsp"] = Addr(rsp + 1)]
          /\ rip' = Following /\ UNCHANGED <<stack, Rest>>
      BY <1>1, <2>3, Moves
    <3> QED BY <2>1, <2>2, <3>1
  <2>5. /\ IsRegisters(reg') /\ \A x \in Reg : x \notin {"rcx", "rsp"} => reg'[x] = reg[x]
        /\ reg'["rcx"] = Code("kernel", 3) /\ reg'["rsp"] = Addr(top)
    BY <2>4, OwnParts DEF IsRegisters
  <2>6. OwnRegisters(reg')
    BY <2>5, OwnParts DEF OwnRegisters
  <2>7. InInit(3, top, reg', data', enabled', stack')
    <3>1. top - 0 = top
      BY <1>2
    <3> QED BY <1>3, <1>6, <2>4, <2>5, <3>1, OwnParts DEF InInit, Rest
  <2> QED BY <1>1, <1>6, <2>4, <2>5, <2>6, <2>7 DEF InitProceeds, Rest
<1>7. CASE k \in 3 .. 5
  <2>1. reg["rsp"] = Addr(top) /\ rsp = top /\ top - 0 = top
    BY <1>2, <1>3, <1>4, <1>7 DEF InInit
  <2>2. /\ k = 3 => reg' = [reg EXCEPT !["rdi"] = Imm(KernelData)]
        /\ k = 4 => reg' = [reg EXCEPT !["rax"] = Addr(top)]
        /\ k = 5 => reg' = [reg EXCEPT !["rsi"] = Imm(KernelCode)]
        /\ rip' = Following /\ UNCHANGED <<stack, Rest>>
    <3>1. CASE k = 3
      <4>1. Fetch = I("shl", "rdi")
        BY <1>1, <3>1, OtherText
      <4>2. reg["rdi"][2] = GDTI_KERNEL_DATA
        BY <3>1, WordParts DEF InInit
      <4>3. 8 * GDTI_KERNEL_DATA = KernelData
        BY DEF KernelData, GDTI_KERNEL_DATA
      <4> QED BY <1>1, <3>1, <4>1, <4>2, <4>3, Moves
    <3>2. CASE k = 4
      BY <1>1, <2>1, <3>2, OtherText, Moves
    <3>3. CASE k = 5
      <4>1. Fetch = I("shl", "rsi")
        BY <1>1, <3>3, OtherText
      <4>2. reg["rsi"][2] = GDTI_KERNEL_CODE
        BY <3>3, WordParts DEF InInit
      <4>3. 8 * GDTI_KERNEL_CODE = KernelCode
        BY DEF KernelCode, GDTI_KERNEL_CODE
      <4> QED BY <1>1, <3>3, <4>1, <4>2, <4>3, Moves
    <3> QED BY <1>7, <3>1, <3>2, <3>3
  <2>3. /\ IsRegisters(reg')
        /\ \A x \in Reg : x \notin {"rdi", "rax", "rsi"} => reg'[x] = reg[x]
        /\ reg'["rdi"] = IF k = 3 THEN Imm(KernelData) ELSE reg["rdi"]
        /\ reg'["rax"] = IF k = 4 THEN Addr(top) ELSE reg["rax"]
        /\ reg'["rsi"] = IF k = 5 THEN Imm(KernelCode) ELSE reg["rsi"]
    BY <1>7, <2>2, OwnParts DEF IsRegisters
  <2>4. OwnRegisters(reg')
    BY <2>3, OwnParts, WordParts DEF OwnRegisters
  <2>5. InInit(k + 1, top, reg', data', enabled', stack')
    <3>1. InitDepth(k) = 0 /\ InitDepth(k + 1) = 0
      BY <1>7 DEF InitDepth
    <3> QED BY <1>7, <2>2, <2>3, <3>1, OwnParts DEF InInit, Rest
  <2> QED BY <1>1, <2>2, <2>3, <2>4, <2>5 DEF InitProceeds, Rest
<1> QED BY <1>5, <1>6, <1>7

\* The iretq of init_segment_selectors loads the kernel's segments.
LEMMA InitReturn ==
    ASSUME Execute, NEW top \in Tops, IsRegisters(reg), IsStack(stack), OwnRegisters(reg),
           enabled \in BOOLEAN, gdtr = gdt, saved = <<>>,
           rip = Code("init_segment_selectors", 11), InInit(11, top, reg, data, enabled, stack)
    PROVE  /\ InKernel(3, top)' /\ OwnRegisters(reg') /\ IsRegisters(reg') /\ IsStack(stack')
           /\ nmi_blocked' = FALSE /\ UNCHANGED <<saved, idtr, enabled>>
<1>1. /\ rip # Fault /\ Fetch.op = "iretq"
  BY Fetches, CodeDiffers, OtherText, Parts
<1>2. /\ StackWords \in Nat /\ StackWords >= 58 /\ top \in Nat
      /\ top >= StackWords - 3 /\ top < StackWords - 1
  BY TopsAre
<1>3. InitDepth(11) = 5
  BY DEF InitDepth
<1>4. /\ rsp = top - 5 /\ rsp + 1 = top - 4 /\ rsp + 2 = top - 3 /\ rsp + 3 = top - 2
      /\ rsp + 4 = top - 1 /\ rsp + 4 < StackWords
  <2>1. rsp = top - 5
    BY <1>3, WordParts DEF InInit, rsp
  <2> QED BY <1>2, <2>1
<1>5. /\ stack[rsp] = Code("kernel", 3) /\ stack[rsp + 1] = Imm(KernelCode)
      /\ stack[rsp + 2] = Flags(enabled) /\ stack[rsp + 3] = Addr(top)
      /\ stack[rsp + 4] = Imm(KernelData)
  BY <1>4 DEF InInit
<1>6. IsFrame(rsp)
  BY <1>4, <1>5, WordParts, SelectorsAccepted DEF IsFrame
<1>7. /\ reg' = [reg EXCEPT !["rsp"] = Addr(top)] /\ rip' = Code("kernel", 3)
      /\ cs' = KernelCode /\ ss' = KernelData /\ enabled' = enabled
      /\ nmi_blocked' = FALSE /\ UNCHANGED <<data, stack, saved, idtr, gdtr>>
  BY <1>1, <1>5, <1>6, Others, WordParts DEF Iretq, Set, tables
<1>8. /\ IsRegisters(reg') /\ reg'["rsp"] = Addr(top)
      /\ \A x \in Reg : x # "rsp" => reg'[x] = reg[x]
  BY <1>7, OwnParts DEF IsRegisters
<1>9. OwnRegisters(reg')
  BY <1>8, OwnParts DEF OwnRegisters
<1>10. data' = 0
  BY <1>7 DEF InInit
<1> QED BY <1>7, <1>8, <1>9, <1>10 DEF InKernel

\* The instructions of kernel_main before lidt.
LEMMA KernelStep ==
    ASSUME Execute, Setup, OwnRegisters(reg), NEW top \in Tops, NEW k \in 1 .. 3, InKernel(k, top)
    PROVE  Setup' /\ UNCHANGED <<enabled, nmi_blocked>>
<1>1. /\ rip # Fault /\ Fetch = kernel[k] /\ Following = Code("kernel", k + 1)
      /\ reg["rsp"] = Addr(top) /\ rsp = top
  BY Fetches, Follows, CodeDiffers, WordParts DEF InKernel, rsp
<1>2. /\ StackWords \in Nat /\ StackWords >= 58 /\ top \in Nat
      /\ top >= StackWords - 3 /\ top < StackWords - 1
  BY TopsAre
<1>3. saved = <<>> /\ idtr = "firmware" /\ IsRegisters(reg) /\ IsStack(stack)
  BY DEF Setup
<1>4. CASE k = 1
  <2>1. Fetch.op = "lgdt" /\ LoadTables
    BY <1>1, <1>4, OtherText, Parts, Others
  <2>2. /\ gdtr' = gdt /\ rip' = Code("kernel", 2)
        /\ UNCHANGED <<reg, cs, ss, data, idtr, idt, stack, saved, enabled, nmi_blocked>>
    BY <1>1, <1>4, <2>1 DEF LoadTables, Op, segments, control
  <2>3. InKernel(2, top)'
    BY <1>1, <2>2 DEF InKernel
  <2>4. 2 \in 1 .. 4
    OBVIOUS
  <2> QED BY <1>3, <2>2, <2>3, <2>4 DEF Setup
<1>5. CASE k = 2
  <2>1. Fetch.op = "call" /\ arg = "init_segment_selectors" /\ Call
    BY <1>1, <1>5, OtherText, Parts, Others DEF arg
  <2>2. /\ stack' = Pushed(top, <<Code("kernel", 3)>>)
        /\ reg' = [reg EXCEPT !["rsp"] = Addr(top - 1), !["rdi"] = Imm(GDTI_KERNEL_DATA),
                              !["rsi"] = Imm(GDTI_KERNEL_CODE)]
        /\ rip' = Code("init_segment_selectors", 1)
        /\ UNCHANGED <<data, gdtr, idtr, saved, enabled, nmi_blocked>>
    BY <1>1, <1>5, <2>1 DEF Call, segments, control, tables
  <2>3. IsStack(stack') /\ stack'[top - 1] = Code("kernel", 3)
    <3>1. top \in Int /\ top - 1 \in 0 .. StackWords - 1
      BY <1>2
    <3> QED BY <1>3, <2>2, <3>1, PushWord
  <2>4. /\ IsRegisters(reg') /\ reg'["rsp"] = Addr(top - 1)
        /\ reg'["rdi"] = Imm(GDTI_KERNEL_DATA) /\ reg'["rsi"] = Imm(GDTI_KERNEL_CODE)
        /\ \A x \in Reg : x \notin {"rsp", "rdi", "rsi"} => reg'[x] = reg[x]
    BY <1>3, <2>2, OwnParts DEF IsRegisters
  <2>5. OwnRegisters(reg')
    <3>1. \A x \in Preserved \cup {"rbp"} : reg'[x] = reg[x]
      <4>1. {"rsp", "rbp", "rdi", "rsi"} \subseteq Reg /\ Preserved \subseteq Reg
            /\ \A x \in Preserved : x \notin {"rsp", "rdi", "rsi"}
        BY <1>3, OwnParts
      <4> QED BY <2>4, <4>1
    <3>2. Imm(GDTI_KERNEL_CODE) # Magic
      BY WordParts
    <3> QED BY <2>4, <3>1, <3>2 DEF OwnRegisters
  <2>6. InInit(1, top, reg', data', enabled', stack')
    <3>1. InitDepth(1) = 1
      BY DEF InitDepth
    <3> QED BY <2>3, <2>4, <3>1 DEF InInit
  <2>7. gdtr' = gdt /\ 1 \in 1 .. 11
    BY <1>5, <2>2 DEF InKernel
  <2> QED BY <1>3, <2>2, <2>3, <2>4, <2>5, <2>6, <2>7 DEF Setup
<1>6. CASE k = 3
  <2>1. Fetch.op = "init_idt" /\ LoadTables
    BY <1>1, <1>6, OtherText, Parts, Others
  <2>2. /\ idt' = [n \in Numbers |-> Gate(n)] /\ rip' = Code("kernel", 4)
        /\ UNCHANGED <<reg, cs, ss, data, idtr, gdtr, stack, saved, enabled, nmi_blocked>>
    BY <1>1, <1>6, <2>1 DEF LoadTables, Op, segments, control
  <2>3. InKernel(4, top)'
    BY <1>1, <1>6, <2>2 DEF InKernel
  <2>4. 4 \in 1 .. 4
    OBVIOUS
  <2> QED BY <1>3, <2>2, <2>3, <2>4 DEF Setup
<1> QED BY <1>4, <1>5, <1>6

\* set_idt.
LEMMA IdtStep ==
    ASSUME Execute, Setup, OwnRegisters(reg), NEW top \in Tops, InKernel(4, top)
    PROVE  Ready' /\ SegmentsSet' /\ Level0' /\ UNCHANGED <<enabled, nmi_blocked>>
<1>1. Fetch.op = "lidt" /\ Following = Code("kernel", 5) /\ LoadTables
  <2>1. rip # Fault /\ Fetch = kernel[4] /\ Following = Code("kernel", 5)
    BY Fetches, Follows, CodeDiffers DEF InKernel
  <2> QED BY <2>1, OtherText, Parts, Others
<1>2. /\ idtr' = "kernel" /\ rip' = Code("kernel", 5)
      /\ UNCHANGED <<reg, cs, ss, data, gdtr, idt, stack, saved, enabled, nmi_blocked>>
  BY <1>1 DEF LoadTables, Op, segments, control
<1>3. Ready' /\ SegmentsSet'
  BY <1>2 DEF Ready, SegmentsSet, InKernel, Setup
<1>4. Level0'
  BY <1>2 DEF Level0, Running, InKernel, Setup, OwnRegisters
<1> QED BY <1>2, <1>3, <1>4

\* Every instruction before set_idt, and it.
LEMMA SetupStep ==
    ASSUME Execute, Setup, enabled \in BOOLEAN, nmi_blocked \in BOOLEAN
    PROVE  /\ Setup' \/ (Ready' /\ SegmentsSet' /\ Level0')
           /\ enabled' \in BOOLEAN /\ nmi_blocked' \in BOOLEAN /\ UNCHANGED saved
<1>1. CASE rip = Fault
  <2>1. UNCHANGED vars
    BY <1>1, FaultStays
  <2> QED BY <2>1 DEF vars, Setup, OwnRegisters, InKernel, InInit
<1>2. ASSUME OwnRegisters(reg), NEW top \in Tops, NEW k \in 1 .. 4, InKernel(k, top)
      PROVE  /\ Setup' \/ (Ready' /\ SegmentsSet' /\ Level0')
             /\ enabled' \in BOOLEAN /\ nmi_blocked' \in BOOLEAN /\ UNCHANGED saved
  <2>1. k \in 1 .. 3 \/ k = 4
    OBVIOUS
  <2> QED BY <1>2, <2>1, KernelStep, IdtStep DEF Setup, Level0
<1>3. ASSUME OwnRegisters(reg), NEW top \in Tops, NEW k \in 1 .. 11, gdtr = gdt,
             rip = Code("init_segment_selectors", k), InInit(k, top, reg, data, enabled, stack)
      PROVE  /\ Setup'
             /\ enabled' \in BOOLEAN /\ nmi_blocked' \in BOOLEAN /\ UNCHANGED saved
  <2>1. IsRegisters(reg) /\ IsStack(stack) /\ saved = <<>> /\ idtr = "firmware"
    BY DEF Setup
  <2>2. CASE k = 11
    <3>1. /\ InKernel(3, top)' /\ OwnRegisters(reg') /\ IsRegisters(reg') /\ IsStack(stack')
          /\ nmi_blocked' = FALSE /\ UNCHANGED <<saved, idtr, enabled>>
      BY <1>3, <2>1, <2>2, InitReturn
    <3>2. 3 \in 1 .. 4
      OBVIOUS
    <3> QED BY <2>1, <3>1, <3>2 DEF Setup
  <2>3. CASE k # 11
    <3>1. k \in 1 .. 5 \/ k \in 6 .. 10
      BY <2>3
    <3>2. InitProceeds(k + 1, top)
      BY <1>3, <2>1, <3>1, InitPush, InitMove
    <3>3. k + 1 \in 1 .. 11
      BY <2>3
    <3> QED BY <1>3, <2>1, <3>2, <3>3 DEF Setup, InitProceeds
  <2> QED BY <2>2, <2>3
<1>4. \/ rip = Fault
      \/ OwnRegisters(reg) /\ \E top \in Tops, k \in 1 .. 4 : InKernel(k, top)
      \/ OwnRegisters(reg) /\ gdtr = gdt
         /\ \E top \in Tops, k \in 1 .. 11 : /\ rip = Code("init_segment_selectors", k)
                                             /\ InInit(k, top, reg, data, enabled, stack)
  BY DEF Setup
<1> QED BY <1>1, <1>2, <1>3, <1>4

\* Where kernel_main has its stack pointer.
LEMMA SetupStack ==
    ASSUME Setup
    PROVE  \E a \in StackWords - 8 .. StackWords : reg["rsp"] = Addr(a)
<1>1. StackWords \in Int /\ \A top \in Tops : top \in Int /\ top >= StackWords - 3 /\ top <= StackWords
  BY InterruptsAssumption DEF Tops
<1>2. ASSUME NEW top \in Tops, NEW k \in 1 .. 11
      PROVE  /\ top - InitDepth(k) \in StackWords - 8 .. StackWords
             /\ top \in StackWords - 8 .. StackWords
  <2>1. InitDepth(k) \in 0 .. 5
    BY DEF InitDepth
  <2> QED BY <1>1, <2>1
<1>3. 1 \in 1 .. 11
  OBVIOUS
<1> QED BY <1>2, <1>3 DEF Setup, InKernel, InInit

\* An interrupt before set_idt is the end.
LEMMA EarlyStep ==
    ASSUME Early, Setup
    PROVE  Setup' /\ UNCHANGED <<enabled, nmi_blocked, saved>>
<1>1. \E a \in StackWords - 8 .. StackWords : reg["rsp"] = Addr(a)
  BY SetupStack
<1>2. rip' = Fault /\ idtr = "firmware"
      /\ UNCHANGED <<reg, idtr, stack, enabled, nmi_blocked, saved>>
  BY DEF Early, control, tables
<1> QED BY <1>1, <1>2 DEF Setup
-----------------------------------------------------------------------------
(***************************************************************************)
(* Interrupts in progress.                                                 *)
(***************************************************************************)
\* Where an interrupt's code has its stack pointer.
LEMMA HandlesStack ==
    ASSUME NEW c, HasRoom(c), NEW r, NEW p, NEW st, Handles(c, r, p, st)
    PROVE  /\ \E a \in Base(c) - 24 .. Base(c) - 5 : r["rsp"] = Addr(a)
           /\ p[1] \in {"code", "vector"} /\ p # Fault
<1>1. Base(c) \in Int
  BY Aligned DEF HasRoom
<1>2. ASSUME NEW k \in 1 .. 3, InVector(c, k, r, p, st)
      PROVE  \E a \in Base(c) - 24 .. Base(c) - 5 : r["rsp"] = Addr(a)
  <2>1. PICK l \in 2 .. 3 : Len(Vector(c.number)) = l
    BY VectorText
  <2>2. r["rsp"] = Addr(Base(c) - (7 - l + k)) /\ k <= l
    BY <1>2, <2>1 DEF InVector
  <2>3. Base(c) - (7 - l + k) \in Base(c) - 24 .. Base(c) - 5
    BY <1>1, <2>2
  <2> QED BY <2>2, <2>3
<1>3. ASSUME NEW k \in 1 .. 38, InStub(c, k, r, p, st)
      PROVE  \E a \in Base(c) - 24 .. Base(c) - 5 : r["rsp"] = Addr(a)
  <2>1. r["rsp"] = Addr(Base(c) - StubDepth(k))
    BY <1>3 DEF InStub
  <2>2. StubDepth(k) \in 5 .. 24
    BY DEF StubDepth
  <2>3. Base(c) - StubDepth(k) \in Base(c) - 24 .. Base(c) - 5
    BY <1>1, <2>2
  <2> QED BY <2>1, <2>3
<1>4. ASSUME NEW k \in 1 .. 3, InHandler(c, k, r, p, st)
      PROVE  \E a \in Base(c) - 24 .. Base(c) - 5 : r["rsp"] = Addr(a)
  <2>1. r["rsp"] = Addr(Base(c) - 24) /\ Base(c) - 24 \in Base(c) - 24 .. Base(c) - 5
    BY <1>1, <1>4 DEF InHandler
  <2> QED BY <2>1
<1>5. p[1] \in {"code", "vector"} /\ p # Fault
  <2>1. \/ \E k : p = VectorCode(c.number, k)
        \/ \E k : p = Code("interrupt_handler_stub", k)
        \/ \E k : p = Code("interrupt_handler", k)
    BY DEF Handles, InVector, InStub, InHandler
  <2> QED BY <2>1, WordParts, CodeDiffers
<1> QED BY <1>2, <1>3, <1>4, <1>5 DEF Handles

\* The kernel's work is not in an interrupt's code.
LEMMA HandlesNoWork ==
    ASSUME NEW c, Handles(c, reg, rip, stack)
    PROVE  ~Working
<1>1. Fetch.op # "work"
  <2>1. ASSUME NEW k \in 1 .. 3, InVector(c, k, reg, rip, stack) PROVE Fetch.op # "work"
    <3>1. Fetch = Vector(c.number)[k] /\ k \in 1 .. Len(Vector(c.number))
      BY <2>1, Fetches DEF InVector
    <3>2. k = 1 \/ k = 2 \/ (k = 3 /\ ~EXC_HAS_ERROR_CODE(c.number))
      BY <3>1, VectorText
    <3>3. Fetch.op \in {"pushi", "jmp"}
      BY <3>1, <3>2, VectorText, Parts
    <3> QED BY <3>3
  <2>2. ASSUME NEW k \in 1 .. 38, InStub(c, k, reg, rip, stack) PROVE Fetch.op # "work"
    <3>1. Fetch = interrupt_handler_stub[k]
      BY <2>2, Fetches DEF InStub
    <3>2. \/ k \in {1, 2, 18, 19, 20, 24, 37, 38}
          \/ k \in 3 .. 17 \/ (k \in 21 .. 36 /\ k # 24)
      OBVIOUS
    <3>3. Fetch.op \in {"push", "lea", "magic", "movrsp", "call", "add", "iretq", "pop"}
      BY <3>1, <3>2, StubText, Parts
    <3> QED BY <3>3
  <2>3. ASSUME NEW k \in 1 .. 3, InHandler(c, k, reg, rip, stack) PROVE Fetch.op # "work"
    <3>1. Fetch = Text["interrupt_handler"][k]
      BY <2>3, Fetches DEF InHandler
    <3>2. k = 1 \/ k = 2 \/ k = 3
      OBVIOUS
    <3>3. Fetch.op \in {"check", "dispatch", "ret"}
      BY <3>1, <3>2, OtherText, Parts
    <3> QED BY <3>3
  <2> QED BY <2>1, <2>2, <2>3 DEF Handles
<1> QED BY <1>1 DEF Working, Op

\* The kernel does not look at words below its stack pointer.
LEMMA RunningCopy ==
    ASSUME NEW r, NEW p, NEW st, NEW st2, NEW a, r["rsp"] = Addr(a), a \in Int,
           Running(r, p, st), \A b \in a .. StackWords - 1 : st2[b] = st[b]
    PROVE  Running(r, p, st2)
<1>1. r["rsp"] = Addr(StackWords - 1) => st2[StackWords - 1] = st[StackWords - 1]
  <2>1. SUFFICES ASSUME r["rsp"] = Addr(StackWords - 1)
                 PROVE  StackWords - 1 \in a .. StackWords - 1
    OBVIOUS
  <2>2. a = StackWords - 1
    BY <2>1, AddrDiffers
  <2> QED BY <2>2
<1> QED BY <1>1 DEF Running

\* An interrupt's code is where it is, with other words below its stack pointer.
LEMMA HandlesCopy ==
    ASSUME NEW c, HasRoom(c), NEW r, NEW p, NEW st, NEW st2, NEW a, r["rsp"] = Addr(a), a \in Int,
           Handles(c, r, p, st), \A b \in a .. StackWords - 1 : st2[b] = st[b]
    PROVE  Handles(c, r, p, st2)
<1>1. /\ Base(c) \in Int /\ Base(c) <= SP(c) /\ SP(c) \in Int
      /\ SP(c) <= StackWords /\ StackWords \in Int
  BY Aligned, InterruptsAssumption DEF HasRoom
<1>2. \A d \in Int : r["rsp"] = Addr(Base(c) - d) =>
          \A j \in 1 .. d : st2[Base(c) - j] = st[Base(c) - j]
  <2> SUFFICES ASSUME NEW d \in Int, r["rsp"] = Addr(Base(c) - d), NEW j \in 1 .. d
               PROVE  st2[Base(c) - j] = st[Base(c) - j]
    OBVIOUS
  <2>1. a = Base(c) - d
    BY AddrDiffers
  <2>2. Base(c) - j \in a .. StackWords - 1
    BY <1>1, <2>1
  <2> QED BY <2>2
<1>3. ASSUME NEW k \in 1 .. 3, InVector(c, k, r, p, st) PROVE InVector(c, k, r, p, st2)
  <2>1. PICK l \in 2 .. 3 : Len(Vector(c.number)) = l
    BY VectorText
  <2>2. 7 - l + k \in Int
    OBVIOUS
  <2> QED BY <1>2, <1>3, <2>1, <2>2 DEF InVector
<1>4. ASSUME NEW k \in 1 .. 38, InStub(c, k, r, p, st) PROVE InStub(c, k, r, p, st2)
  <2>1. StubDepth(k) \in Int
    BY DEF StubDepth
  <2> QED BY <1>2, <1>4, <2>1 DEF InStub
<1>5. ASSUME NEW k \in 1 .. 3, InHandler(c, k, r, p, st) PROVE InHandler(c, k, r, p, st2)
  <2>1. 24 \in Int
    OBVIOUS
  <2> QED BY <1>2, <1>5, <2>1 DEF InHandler
<1>6. \A b \in SP(c) .. StackWords - 1 : st2[b] = c.live[b]
  <2>1. PICK b \in Base(c) - 24 .. Base(c) - 5 : r["rsp"] = Addr(b)
    BY HandlesStack
  <2>2. a = b
    BY <2>1, AddrDiffers
  <2>3. \A x \in SP(c) .. StackWords - 1 : x \in a .. StackWords - 1
    BY <1>1, <2>2
  <2> QED BY <2>3 DEF Handles
<1> QED BY <1>3, <1>4, <1>5, <1>6 DEF Handles

\* The stack has room for an interrupt of the kernel.
LEMMA KernelHasRoom ==
    ASSUME NEW c, NEW p, NEW st, Running(c.reg, p, st)
    PROVE  /\ HasRoom(c) /\ SP(c) >= StackWords - 8 /\ SP(c) \in Int
           /\ c.reg["rsp"] = Addr(SP(c))
<1>1. PICK a \in StackWords - 8 .. StackWords : c.reg["rsp"] = Addr(a)
  BY RunningStack
<1>2. SP(c) = a
  BY <1>1, WordParts DEF SP
<1>3. StackWords \in Nat /\ StackWords >= 58
  BY InterruptsAssumption, RegIs
<1> QED BY <1>1, <1>2, <1>3 DEF HasRoom

\* And for one of the code of such an interrupt.
LEMMA HandlerHasRoom ==
    ASSUME NEW c, HasRoom(c), SP(c) >= StackWords - 8,
           NEW d, NEW p, NEW st, Handles(c, d.reg, p, st)
    PROVE  /\ HasRoom(d) /\ SP(d) >= StackWords - 33 /\ SP(d) \in Int
           /\ d.reg["rsp"] = Addr(SP(d))
<1>1. PICK a \in Base(c) - 24 .. Base(c) - 5 : d.reg["rsp"] = Addr(a)
  BY HandlesStack
<1>2. SP(d) = a
  BY <1>1, WordParts DEF SP
<1>3. StackWords \in Nat /\ StackWords >= 58
  BY InterruptsAssumption, RegIs
<1>4. /\ Base(c) >= SP(c) - 1 /\ Base(c) <= SP(c) /\ Base(c) \in Int
      /\ SP(c) \in Int /\ SP(c) <= StackWords
  BY Aligned DEF HasRoom
<1>5. a \in Int /\ a >= StackWords - 33 /\ a <= StackWords /\ a >= 25
  BY <1>3, <1>4
<1> QED BY <1>1, <1>2, <1>3, <1>5 DEF HasRoom
-----------------------------------------------------------------------------
(***************************************************************************)
(* Steps from one level to another.                                        *)
(***************************************************************************)
\* The second context is appended to the first.
LEMMA AppendSecond ==
    ASSUME NEW x, NEW y PROVE Append(<<x>>, y) = <<x, y>>
<1> DEFINE T == {x, y}
           s == Append(<<x>>, y)
           t == <<x, y>>
<1>1. <<x>> \in Seq(T) /\ Len(<<x>>) = 1 /\ <<x>>[1] = x
  OBVIOUS
<1>2. t \in Seq(T) /\ Len(t) = 2 /\ t[1] = x /\ t[2] = y
  OBVIOUS
<1>3. s \in Seq(T) /\ Len(s) = 2 /\ s[1] = x /\ s[2] = y
  BY <1>1, AppendProperties
<1> HIDE DEF s, t
<1>4. \A i \in 1 .. Len(s) : s[i] = t[i]
  BY <1>2, <1>3
<1> QED BY <1>2, <1>3, <1>4, SeqEqual DEF s, t

\* And taken off again.
LEMMA RemoveSecond ==
    ASSUME NEW x, NEW y PROVE SubSeq(<<x, y>>, 1, 1) = <<x>>
<1> DEFINE T == {x, y}
           s == SubSeq(<<x, y>>, 1, 1)
           t == <<x>>
<1>1. <<x, y>> \in Seq(T) /\ Len(<<x, y>>) = 2 /\ <<x, y>>[1] = x
  OBVIOUS
<1>2. s \in Seq(T) /\ Len(s) = 1 /\ s[1] = x
  BY <1>1, SubSeqProperties
<1>3. t \in Seq(T) /\ Len(t) = 1 /\ t[1] = x
  OBVIOUS
<1> HIDE DEF s, t
<1>4. \A i \in 1 .. Len(s) : s[i] = t[i]
  BY <1>2, <1>3
<1> QED BY <1>2, <1>3, <1>4, SeqEqual DEF s, t

\* What a step may do to the contexts saved: nothing, or one more is saved, or
\* the last one is given back as the interrupt's code returns.
Outcome ==
    \/ UNCHANGED saved
    \/ \E c : saved' = Append(saved, c)
    \/ /\ saved # <<>>
       /\ Handles(saved[Len(saved)], reg, rip, stack)
       /\ Restores(saved[Len(saved)])

Proper == /\ enabled \in BOOLEAN /\ nmi_blocked \in BOOLEAN
          /\ Ready /\ SegmentsSet /\ (Level0 \/ Level1 \/ Level2)

\* An interrupt of the kernel.
LEMMA DeliverRunning ==
    ASSUME Ready, SegmentsSet, enabled \in BOOLEAN, nmi_blocked \in BOOLEAN,
           Level0, NEW n \in Numbers, NEW error, NEW next, Deliver(n, error, next),
           \/ error = <<>> /\ ~EXC_HAS_ERROR_CODE(n)
           \/ (\E w : error = <<w>>) /\ EXC_HAS_ERROR_CODE(n),
           Running(reg, next, stack), next[1] \in {"code", "vector"}
    PROVE  Proper' /\ Outcome
<1> DEFINE c == Interrupted(n, error, next)
<1>1. PICK a \in StackWords - 8 .. StackWords : reg["rsp"] = Addr(a)
  BY RunningStack
<1>2. StackWords \in Nat /\ StackWords >= 58 /\ rsp = a /\ reg["rsp"] = Addr(rsp)
  BY <1>1, InterruptsAssumption, RegIs, WordParts DEF rsp
<1>3. rsp \in 25 .. StackWords /\ rsp \in Int
  BY <1>2
<1>4. /\ IsContext(c) /\ Handles(c, reg', rip', stack')
      /\ IsRegisters(reg') /\ IsStack(stack')
      /\ SegmentsSet' /\ enabled' = FALSE /\ saved' = Append(saved, c)
      /\ nmi_blocked' = (nmi_blocked \/ n = EXC_NMI)
      /\ UNCHANGED <<data, gdtr, idtr, idt>>
  <2> HIDE DEF c
  <2> QED BY <1>2, <1>3, Delivery DEF c
<1>5. /\ c.reg = reg /\ c.rip = next /\ c.number = n
      /\ c.live = [b \in rsp .. StackWords - 1 |-> stack[b]]
  BY DEF Interrupted
<1> HIDE DEF c
<1>6. Running(c.reg, c.rip, c.live)
  <2>1. \A b \in rsp .. StackWords - 1 : c.live[b] = stack[b]
    BY <1>5
  <2>2. Running(reg, next, c.live)
    BY <1>2, <1>3, <2>1, RunningCopy
  <2> QED BY <1>5, <2>2
<1>7. saved' = <<c>> /\ Len(saved') = 1 /\ saved'[1] = c
  BY <1>4 DEF Level0
<1>8. saved'[1].number = EXC_NMI => nmi_blocked'
  BY <1>4, <1>5, <1>7
<1>9. Level1'
  BY <1>4, <1>6, <1>7, <1>8 DEF Level1
<1>10. Ready'
  BY <1>4 DEF Ready
<1>11. Outcome
  BY <1>4 DEF Outcome
<1> QED BY <1>4, <1>9, <1>10, <1>11 DEF Proper

\* A non-maskable interrupt of an interrupt's code.
LEMMA DeliverHandler ==
    ASSUME Ready, SegmentsSet, enabled \in BOOLEAN, nmi_blocked \in BOOLEAN,
           Level1, Deliver(EXC_NMI, <<>>, rip), ~nmi_blocked
    PROVE  Proper' /\ Outcome
<1> DEFINE c == saved[1]
           d == Interrupted(EXC_NMI, <<>>, rip)
<1>1. /\ IsContext(c) /\ Running(c.reg, c.rip, c.live) /\ Handles(c, reg, rip, stack)
      /\ enabled = FALSE /\ c.number # EXC_NMI /\ saved = <<c>>
  BY DEF Level1
<1>2. /\ HasRoom(c) /\ SP(c) >= StackWords - 8
  BY <1>1, KernelHasRoom
<1>3. d.reg = reg /\ d.rip = rip /\ d.number = EXC_NMI /\ d.enabled = enabled
      /\ d.live = [b \in rsp .. StackWords - 1 |-> stack[b]]
  BY DEF Interrupted
<1>4. /\ HasRoom(d) /\ SP(d) \in Int /\ reg["rsp"] = Addr(SP(d)) /\ SP(d) = rsp
  BY <1>1, <1>2, <1>3, HandlerHasRoom DEF SP, rsp
<1>5. rip[1] \in {"code", "vector"}
  BY <1>1, <1>2, HandlesStack
<1>6. /\ EXC_NMI \in Numbers /\ ~EXC_HAS_ERROR_CODE(EXC_NMI)
  BY DEF Numbers, EXC_NMI, EXC_HAS_ERROR_CODE
<1>7. /\ IsContext(d) /\ Handles(d, reg', rip', stack')
      /\ IsRegisters(reg') /\ IsStack(stack')
      /\ SegmentsSet' /\ enabled' = FALSE /\ saved' = Append(saved, d)
      /\ nmi_blocked' = (nmi_blocked \/ EXC_NMI = EXC_NMI)
      /\ UNCHANGED <<data, gdtr, idtr, idt>>
  <2> HIDE DEF c, d
  <2>1. rsp \in 25 .. StackWords /\ reg["rsp"] = Addr(rsp)
    BY <1>4 DEF HasRoom
  <2> QED BY <1>5, <1>6, <2>1, Delivery DEF d
<1>8. nmi_blocked'
  BY <1>7, Zenon
<1> HIDE DEF c, d
<1>9. Handles(c, d.reg, d.rip, d.live)
  <2>1. \A b \in rsp .. StackWords - 1 : d.live[b] = stack[b]
    BY <1>3
  <2>2. Handles(c, reg, rip, d.live)
    BY <1>1, <1>2, <1>4, <2>1, HandlesCopy
  <2> QED BY <1>3, <2>2
<1>10. saved' = <<c, d>> /\ Len(saved') = 2 /\ saved'[1] = c /\ saved'[2] = d
  <2>1. saved' = <<c, d>>
    BY <1>1, <1>7, AppendSecond
  <2> QED BY <2>1
<1>11. Level2'
  BY <1>1, <1>3, <1>7, <1>8, <1>9, <1>10 DEF Level2
<1>12. Ready'
  BY <1>7 DEF Ready
<1>13. Outcome
  BY <1>7 DEF Outcome
<1> QED BY <1>7, <1>8, <1>11, <1>12, <1>13 DEF Proper

\* The kernel's instructions.
LEMMA ExecuteLevel0 ==
    ASSUME Execute, Proper, Level0
    PROVE  Proper' /\ Outcome
<1>1. CASE rip \in {Code("main2", 2), Code("main2", 3)}
  <2>1. PICK k \in 2 .. 3 : rip = Code("main2", k)
    BY <1>1
  <2>2. rip # Fault /\ Fetch = main2[k] /\ Following = Code("main2", k + 1)
    BY <2>1, Fetches, Follows, CodeDiffers
  <2>3. k = 2 \/ k = 3
    OBVIOUS
  <2>4. Fetch.op = "int" /\ arg \in {40, 3}
    BY <2>2, <2>3, OtherText, Parts DEF arg
  <2>5. SoftwareInterrupt
    BY <2>2, <2>4, Others
  <2>6. Deliver(arg, <<>>, Following) /\ arg \in Numbers /\ ~EXC_HAS_ERROR_CODE(arg)
    BY <2>4, <2>5 DEF SoftwareInterrupt, Numbers, EXC_BP, EXC_HAS_ERROR_CODE
  <2>7. Following \in {Code("main2", i) : i \in 1 .. 4} /\ Following[1] = "code"
    BY <2>2, WordParts
  <2>8. Running(reg, Following, stack)
    <3>1. Running(reg, rip, stack)
      BY DEF Level0
    <3>2. /\ reg["rsp"] = Addr(StackWords - 1)
          /\ reg["rbp"] = Imm(0) /\ stack[StackWords - 1] = Imm(0)
      BY <2>1, <3>1, CodeDiffers DEF Running
    <3> QED BY <2>7, <3>1, <3>2 DEF Running
  <2> HIDE DEF Following, arg
  <2> QED BY <2>6, <2>7, <2>8, DeliverRunning DEF Proper
<1>2. CASE rip \notin {Code("main2", 2), Code("main2", 3)}
  <2>1. /\ Running(reg', rip', stack') /\ Ready' /\ enabled' \in BOOLEAN
        /\ Kept
    BY <1>2, RunningStep DEF Proper, Level0
  <2>2. Level0' /\ SegmentsSet' /\ nmi_blocked' \in BOOLEAN /\ UNCHANGED saved
    BY <2>1 DEF Level0, Kept, SegmentsSet, Proper
  <2> QED BY <2>1, <2>2 DEF Proper, Outcome
<1> QED BY <1>1, <1>2

\* What a returning interrupt's code leaves.
LEMMA RestoredState ==
    ASSUME NEW c, IsContext(c), Restores(c), Ready
    PROVE  Ready' /\ SegmentsSet' /\ enabled' = c.enabled /\ enabled' \in BOOLEAN
           /\ nmi_blocked' = FALSE
  BY DEF IsContext, Restores, Ready, SegmentsSet

\* The instructions of the first interrupt.
LEMMA ExecuteLevel1 ==
    ASSUME Execute, Proper, Level1
    PROVE  Proper' /\ Outcome
<1> DEFINE c == saved[1]
<1>1. /\ IsContext(c) /\ Running(c.reg, c.rip, c.live) /\ Handles(c, reg, rip, stack)
      /\ enabled = FALSE /\ saved = <<c>> /\ Len(saved) = 1 /\ saved # <<>>
      /\ c.number = EXC_NMI => nmi_blocked
  BY DEF Level1
<1>2. /\ HasRoom(c) /\ c.reg["rsp"] = Addr(SP(c)) /\ SP(c) \in Int
  BY <1>1, KernelHasRoom
<1>3. /\ Ready /\ gdtr = gdt /\ IsRegisters(reg) /\ IsStack(stack) /\ SegmentsSet
      /\ enabled \in BOOLEAN /\ nmi_blocked \in BOOLEAN
  BY DEF Proper, Ready
<1>4. CASE rip # Code("interrupt_handler_stub", 38)
  <2>1. Proceeds(c)
    BY <1>1, <1>2, <1>3, <1>4, HandlesStep
  <2>2. /\ Handles(c, reg', rip', stack') /\ IsRegisters(reg') /\ IsStack(stack')
        /\ saved' = saved /\ enabled' = enabled /\ nmi_blocked' = nmi_blocked
        /\ UNCHANGED <<cs, ss, data, gdtr, idtr, idt>>
    BY <2>1 DEF Proceeds, Rest
  <2>3. saved'[1] = c /\ Len(saved') = 1 /\ saved' = <<saved'[1]>>
    BY <1>1, <2>2
  <2>4. Level1'
    BY <1>1, <2>2, <2>3 DEF Level1
  <2>5. Ready' /\ SegmentsSet'
    BY <1>3, <2>2 DEF Ready, SegmentsSet
  <2> QED BY <1>3, <2>2, <2>4, <2>5 DEF Proper, Outcome
<1>5. CASE rip = Code("interrupt_handler_stub", 38)
  <2>1. Restores(c)
    BY <1>1, <1>2, <1>3, <1>5, Returning
  <2>2. saved' = <<>>
    <3>1. saved' = SubSeq(saved, 1, Len(saved) - 1) /\ Len(saved) - 1 = 0
      BY <1>1, <2>1 DEF Restores
    <3>2. saved' = SubSeq(saved, 1, 0)
      BY <3>1
    <3> QED BY <3>2
  <2>3. reg' = c.reg /\ rip' = c.rip /\ stack' = stack
    BY <2>1 DEF Restores
  <2>4. Running(c.reg, c.rip, stack)
    <3>1. \A b \in SP(c) .. StackWords - 1 : stack[b] = c.live[b]
      BY <1>1 DEF Handles
    <3> QED BY <1>1, <1>2, <3>1, RunningCopy
  <2>5. Level0'
    BY <2>2, <2>3, <2>4 DEF Level0
  <2>6. Ready' /\ SegmentsSet' /\ enabled' \in BOOLEAN /\ nmi_blocked' = FALSE
    BY <1>1, <1>3, <2>1, RestoredState
  <2>7. Outcome
    BY <1>1, <2>1 DEF Outcome
  <2> QED BY <2>5, <2>6, <2>7 DEF Proper
<1> QED BY <1>4, <1>5

\* The instructions of the second.
LEMMA ExecuteLevel2 ==
    ASSUME Execute, Proper, Level2
    PROVE  Proper' /\ Outcome
<1> DEFINE c == saved[1]
           d == saved[2]
<1>1. /\ IsContext(c) /\ Running(c.reg, c.rip, c.live) /\ c.number # EXC_NMI
      /\ IsContext(d) /\ Handles(c, d.reg, d.rip, d.live)
      /\ d.enabled = FALSE /\ d.number = EXC_NMI
      /\ Handles(d, reg, rip, stack)
      /\ enabled = FALSE /\ nmi_blocked
      /\ saved = <<c, d>> /\ Len(saved) = 2 /\ saved # <<>>
  <2>1. /\ IsContext(c) /\ Running(c.reg, c.rip, c.live) /\ c.number # EXC_NMI
        /\ IsContext(d) /\ Handles(c, d.reg, d.rip, d.live)
        /\ d.enabled = FALSE /\ d.number = EXC_NMI
        /\ Handles(d, reg, rip, stack)
        /\ enabled = FALSE /\ nmi_blocked
    BY Zenon DEF Level2
  <2>2. saved = <<c, d>> /\ Len(saved) = 2
    BY DEF Level2
  <2>3. saved # <<>>
    BY <2>2
  <2> QED BY <2>1, <2>2, <2>3
<1>2. HasRoom(c) /\ SP(c) >= StackWords - 8
  BY <1>1, KernelHasRoom
<1>3. HasRoom(d) /\ d.reg["rsp"] = Addr(SP(d)) /\ SP(d) \in Int
  BY <1>1, <1>2, HandlerHasRoom
<1>4. /\ Ready /\ gdtr = gdt /\ IsRegisters(reg) /\ IsStack(stack) /\ SegmentsSet
      /\ enabled \in BOOLEAN /\ nmi_blocked \in BOOLEAN
  BY DEF Proper, Ready
<1>5. CASE rip # Code("interrupt_handler_stub", 38)
  <2>1. Proceeds(d)
    BY <1>1, <1>3, <1>4, <1>5, HandlesStep
  <2>2. /\ Handles(d, reg', rip', stack') /\ IsRegisters(reg') /\ IsStack(stack')
        /\ saved' = saved /\ enabled' = enabled /\ nmi_blocked' = nmi_blocked
        /\ UNCHANGED <<cs, ss, data, gdtr, idtr, idt>>
    BY <2>1 DEF Proceeds, Rest
  <2>3. saved'[1] = c /\ saved'[2] = d /\ Len(saved') = 2 /\ saved' = <<saved'[1], saved'[2]>>
    BY <1>1, <2>2
  <2>4. Level2'
    BY <1>1, <2>2, <2>3 DEF Level2
  <2>5. Ready' /\ SegmentsSet'
    BY <1>4, <2>2 DEF Ready, SegmentsSet
  <2> QED BY <1>4, <2>2, <2>4, <2>5 DEF Proper, Outcome
<1>6. CASE rip = Code("interrupt_handler_stub", 38)
  <2>1. Restores(d)
    BY <1>1, <1>3, <1>4, <1>6, Returning
  <2>2. saved' = <<c>> /\ Len(saved') = 1 /\ saved'[1] = c
    <3>1. saved' = SubSeq(saved, 1, Len(saved) - 1) /\ Len(saved) - 1 = 1
      BY <1>1, <2>1 DEF Restores
    <3>2. saved' = SubSeq(<<c, d>>, 1, 1)
      BY <1>1, <3>1
    <3>3. saved' = <<c>>
      BY <3>2, RemoveSecond
    <3> HIDE DEF c, d
    <3> QED BY <3>3
  <2>3. reg' = d.reg /\ rip' = d.rip /\ stack' = stack
    BY <2>1 DEF Restores
  <2>4. Handles(c, d.reg, d.rip, stack)
    <3>1. \A b \in SP(d) .. StackWords - 1 : stack[b] = d.live[b]
      BY <1>1 DEF Handles
    <3> QED BY <1>1, <1>2, <1>3, <3>1, HandlesCopy
  <2>5. Ready' /\ SegmentsSet' /\ enabled' = FALSE /\ nmi_blocked' = FALSE
    BY <1>1, <1>4, <2>1, RestoredState
  <2>6. Level1'
    BY <1>1, <2>2, <2>3, <2>4, <2>5 DEF Level1
  <2>7. Outcome
    BY <1>1, <2>1 DEF Outcome
  <2> QED BY <2>5, <2>6, <2>7 DEF Proper
<1> QED BY <1>5, <1>6
-----------------------------------------------------------------------------
(***************************************************************************)
(* The invariant.                                                          *)
(***************************************************************************)
\* kernel_main is entered.
LEMMA InitIInv == Init => IInv
<1> SUFFICES ASSUME Init PROVE IInv
  OBVIOUS
<1>1. PICK top \in Tops : reg = [r \in Reg |-> IF r = "rsp" THEN Addr(top) ELSE Value(r)]
  BY DEF Init, Tops
<1>2. /\ IsRegisters(reg) /\ reg["rsp"] = Addr(top)
      /\ \A x \in Reg : x # "rsp" => reg[x] = Value(x)
  BY <1>1, RegIs DEF IsRegisters
<1>3. OwnRegisters(reg)
  <2>1. Value("rsi") # Magic
    BY WordParts
  <2>2. "rbp" \in Reg /\ "rsi" \in Reg /\ Preserved \subseteq Reg /\ "rsp" \notin Preserved
    BY <1>2, OwnParts
  <2> QED BY <1>2, <2>1, <2>2 DEF OwnRegisters
<1>4. IsStack(stack) /\ saved = <<>> /\ idtr = "firmware" /\ rip = Code("kernel", 1)
      /\ enabled \in BOOLEAN /\ nmi_blocked = FALSE
  BY DEF Init, IsStack
<1>5. InKernel(1, top) /\ 1 \in 1 .. 4
  BY <1>2, <1>4 DEF InKernel
<1>6. Setup
  BY <1>2, <1>3, <1>4, <1>5 DEF Setup
<1> QED BY <1>4, <1>6 DEF IInv

\* A fault of the kernel's C code.
LEMMA ExceptionStep ==
    ASSUME Exception, IInv
    PROVE  Proper' /\ Outcome
<1>1. PICK n \in Exceptions : Deliver(n, ErrorCode(n), rip)
  BY DEF Exception
<1>2. Proper
  <2>1. idtr = "kernel"
    BY <1>1 DEF Deliver
  <2> QED BY <2>1 DEF IInv, Setup, Proper
<1>3. Level0
  <2>1. Working
    BY DEF Exception
  <2> QED BY <1>2, <2>1, HandlesNoWork DEF Proper, Level1, Level2
<1>4. n \in Numbers /\ n \notin {21, 29, 30}
  <2>1. n \in Numbers
    BY DEF Numbers
  <2>2. PICK f \in Faults : n = f[2]
    BY DEF Exceptions
  <2>3. f \in {"kernel", "main2"} \X (0 .. 31 \ {21, 29, 30})
    BY <2>2, InterruptsAssumption
  <2> QED BY <2>1, <2>2, <2>3
<1>5. \/ ErrorCode(n) = <<>> /\ ~EXC_HAS_ERROR_CODE(n)
      \/ (\E w : ErrorCode(n) = <<w>>) /\ EXC_HAS_ERROR_CODE(n)
  BY <1>4 DEF ErrorCode, PushesError, EXC_HAS_ERROR_CODE
<1>6. Running(reg, rip, stack) /\ rip[1] \in {"code", "vector"}
  BY <1>3, WordParts DEF Level0, Running
<1> QED BY <1>1, <1>2, <1>3, <1>4, <1>5, <1>6, DeliverRunning DEF Proper

\* An interrupt of a device.
LEMMA IrqStep ==
    ASSUME Irq, IInv
    PROVE  IInv' /\ Outcome
<1>1. enabled
  BY Zenon DEF Irq
<1>2. CASE Setup
  <2>1. Early
    BY <1>2 DEF Irq, Deliver, Setup
  <2> QED BY <1>2, <2>1, EarlyStep DEF IInv, Outcome
<1>3. CASE ~Setup
  <2>1. Proper
    BY <1>3 DEF IInv, Proper
  <2>2. Level0
    BY <1>1, <2>1 DEF Proper, Level1, Level2
  <2>3. PICK n \in Irqs : Deliver(n, <<>>, rip)
    BY <2>1 DEF Irq, Early, Proper, Ready
  <2>4. n \in Numbers /\ ~EXC_HAS_ERROR_CODE(n)
    <3>1. n \in Numbers /\ n >= 32 /\ n \in Int
      BY InterruptsAssumption DEF Numbers, N_INTERRUPTS
    <3> QED BY <3>1 DEF EXC_HAS_ERROR_CODE
  <2>5. Running(reg, rip, stack) /\ rip[1] \in {"code", "vector"}
    BY <2>2, WordParts DEF Level0, Running
  <2>6. Proper' /\ Outcome
    BY <2>1, <2>2, <2>3, <2>4, <2>5, DeliverRunning DEF Proper
  <2> QED BY <2>6 DEF Proper, IInv
<1> QED BY <1>2, <1>3

\* A non-maskable interrupt.
LEMMA NmiStep ==
    ASSUME Nmi, IInv
    PROVE  IInv' /\ Outcome
<1>1. ~nmi_blocked
  BY Zenon DEF Nmi
<1>2. CASE Setup
  <2>1. Early
    BY <1>2 DEF Nmi, Deliver, Setup
  <2> QED BY <1>2, <2>1, EarlyStep DEF IInv, Outcome
<1>3. CASE ~Setup
  <2>1. Proper
    BY <1>3 DEF IInv, Proper
  <2>2. Deliver(EXC_NMI, <<>>, rip)
    BY <2>1 DEF Nmi, Early, Proper, Ready
  <2>3. CASE Level0
    <3>1. EXC_NMI \in Numbers /\ ~EXC_HAS_ERROR_CODE(EXC_NMI)
      BY DEF Numbers, EXC_NMI, EXC_HAS_ERROR_CODE
    <3>2. Running(reg, rip, stack) /\ rip[1] \in {"code", "vector"}
      BY <2>3, WordParts DEF Level0, Running
    <3>3. Proper' /\ Outcome
      BY <2>1, <2>2, <2>3, <3>1, <3>2, DeliverRunning DEF Proper
    <3> QED BY <3>3 DEF Proper, IInv
  <2>4. CASE Level1
    <3>1. Proper' /\ Outcome
      BY <1>1, <2>1, <2>2, <2>4, DeliverHandler DEF Proper
    <3> QED BY <3>1 DEF Proper, IInv
  <2>5. ~Level2
    <3>1. Level2 => nmi_blocked
      BY Zenon DEF Level2
    <3> QED BY <1>1, <3>1
  <2> QED BY <2>1, <2>3, <2>4, <2>5 DEF Proper
<1> QED BY <1>2, <1>3

\* Every step.
LEMMA NextIInv == IInv /\ [Next]_vars => IInv' /\ Outcome
<1> SUFFICES ASSUME IInv, [Next]_vars PROVE IInv' /\ Outcome
  OBVIOUS
<1>1. CASE UNCHANGED vars
  BY <1>1 DEF vars, IInv, Setup, OwnRegisters, InKernel, InInit, Ready, SegmentsSet,
              Level0, Level1, Level2, Outcome
<1>2. CASE Execute
  <2>1. CASE Setup
    <3>1. enabled \in BOOLEAN /\ nmi_blocked \in BOOLEAN
      BY DEF IInv
    <3>2. /\ Setup' \/ (Ready' /\ SegmentsSet' /\ Level0')
          /\ enabled' \in BOOLEAN /\ nmi_blocked' \in BOOLEAN /\ UNCHANGED saved
      BY <1>2, <2>1, <3>1, SetupStep
    <3> QED BY <3>2 DEF IInv, Outcome
  <2>2. CASE ~Setup
    <3>1. Proper
      BY <2>2 DEF IInv, Proper
    <3>2. Proper' /\ Outcome
      BY <1>2, <3>1, ExecuteLevel0, ExecuteLevel1, ExecuteLevel2 DEF Proper
    <3> QED BY <3>2 DEF Proper, IInv
  <2> QED BY <2>1, <2>2
<1>3. CASE Exception
  <2>1. Proper' /\ Outcome
    BY <1>3, ExceptionStep
  <2> QED BY <2>1 DEF Proper, IInv
<1>4. CASE GdbJump
  <2>1. Proper
    BY <1>4 DEF GdbJump, IInv, Setup, Proper
  <2>2. Level0
    <3>1. Working
      BY <1>4 DEF GdbJump
    <3> QED BY <2>1, <3>1, HandlesNoWork DEF Proper, Level1, Level2
  <2>3. /\ Running(reg', rip', stack') /\ Ready' /\ UNCHANGED enabled
        /\ Kept
    BY <1>4, <2>1, <2>2, JumpStep DEF Proper, Level0
  <2>4. Level0' /\ SegmentsSet' /\ enabled' \in BOOLEAN /\ nmi_blocked' \in BOOLEAN
        /\ UNCHANGED saved
    BY <2>1, <2>2, <2>3 DEF Level0, Kept, SegmentsSet, Proper
  <2> QED BY <2>3, <2>4 DEF IInv, Outcome
<1>5. CASE Irq
  BY <1>5, IrqStep
<1>6. CASE Nmi
  BY <1>6, NmiStep
<1> QED BY <1>1, <1>2, <1>3, <1>4, <1>5, <1>6 DEF Next

\* At any time the stack is that of the kernel in one of its places, and of at
\* most two interrupts in theirs.
THEOREM InterruptsInvariant == Spec => []IInv
<1>1. IInv /\ [Next]_vars => IInv'
  BY NextIInv
<1> QED BY InitIInv, <1>1, PTL DEF Spec
-----------------------------------------------------------------------------
(***************************************************************************)
(* The properties.                                                         *)
(***************************************************************************)
\* rip in an interrupt's code is not in the kernel's own.
LEMMA HandlesCode ==
    ASSUME NEW c, NEW r, NEW p, NEW st, Handles(c, r, p, st)
    PROVE  p[1] = "code" => p[2] \in {"interrupt_handler_stub", "interrupt_handler"}
<1>1. \/ \E k : p = VectorCode(c.number, k)
      \/ \E k : p = Code("interrupt_handler_stub", k)
      \/ \E k : p = Code("interrupt_handler", k)
  BY DEF Handles, InVector, InStub, InHandler
<1> QED BY <1>1, WordParts

\* The slots in the order of struct x86_64_registers.
LEMMA SlotsAreStruct ==
    ASSUME NEW k \in 1 .. 16
    PROVE  Slots[17 - k] = Registers[k] /\ (Registers[k] = "rsp" <=> k = 4)
<1>1. k \in {1, 2, 3, 4, 5, 6, 7, 8} \/ k \in {9, 10, 11, 12, 13, 14, 15, 16}
  OBVIOUS
<1>2. CASE k \in {1, 2, 3, 4, 5, 6, 7, 8}
  BY <1>2 DEF Slots, Registers
<1>3. CASE k \in {9, 10, 11, 12, 13, 14, 15, 16}
  BY <1>3 DEF Slots, Registers
<1> QED BY <1>1, <1>2, <1>3

\* What interrupt_handler finds at its argument.
LEMMA FrameFound ==
    ASSUME NEW c, HasRoom(c), InHandler(c, 2, reg, rip, stack)
    PROVE  LET frame == reg["rdi"][2]
               number == frame + Len(Registers)
           IN  /\ reg["rdi"][1] = "stack"
               /\ \A k \in DOMAIN Registers :
                      stack[frame + k - 1] =
                          IF Registers[k] = "rsp" THEN Addr(number) ELSE c.reg[Registers[k]]
               /\ [k \in 0 .. 6 |-> stack[number + k]] =
                      [k \in 0 .. 6 |->
                          <<Imm(c.number), c.error, c.rip, Imm(c.cs), Flags(c.enabled),
                            c.reg["rsp"], Imm(c.ss)>>[k + 1]]
<1> DEFINE frame == reg["rdi"][2]
           number == frame + Len(Registers)
           words == <<Imm(c.number), c.error, c.rip, Imm(c.cs), Flags(c.enabled),
                      c.reg["rsp"], Imm(c.ss)>>
<1>1. /\ reg["rdi"] = Addr(Base(c) - 23) /\ frame = Base(c) - 23 /\ reg["rdi"][1] = "stack"
      /\ \A j \in 1 .. 24 : stack[Base(c) - j] = Word(c, j)
  BY WordParts DEF InHandler
<1>2. Base(c) \in Int /\ DOMAIN Registers = 1 .. 16 /\ Len(Registers) = 16
  BY Aligned, RegIs DEF HasRoom
<1>3. number = Base(c) - 7
  BY <1>1, <1>2
<1> HIDE DEF frame, number
<1>4. ASSUME NEW k \in 1 .. 16
      PROVE  stack[frame + k - 1] = IF Registers[k] = "rsp" THEN Addr(number) ELSE c.reg[Registers[k]]
  <2>1. /\ frame + k - 1 = Base(c) - (24 - k) /\ 24 - k \in 1 .. 24 /\ 24 - k \in 8 .. 23
        /\ (24 - k) - 7 = 17 - k /\ (24 - k = 20 <=> k = 4)
    BY <1>1, <1>2
  <2>2. stack[frame + k - 1] = Word(c, 24 - k)
    BY <1>1, <2>1
  <2>3. CASE k = 4
    BY <1>3, <2>2, <2>3, Words, SlotsAreStruct
  <2>4. CASE k # 4
    <3>1. Word(c, 24 - k) = c.reg[Slots[17 - k]]
      <4>1. Word(c, 24 - k) = c.reg[Slots[(24 - k) - 7]]
        BY <2>1, <2>4, Words
      <4> QED BY <2>1, <4>1
    <3> QED BY <2>2, <2>4, <3>1, SlotsAreStruct
  <2> QED BY <2>3, <2>4
<1>5. ASSUME NEW k \in 0 .. 6
      PROVE  stack[number + k] = words[k + 1]
  <2>1. number + k = Base(c) - (7 - k) /\ 7 - k \in 1 .. 24
    BY <1>2, <1>3
  <2>2. stack[number + k] = Word(c, 7 - k)
    BY <1>1, <2>1
  <2>3. k \in {0, 1, 2, 3, 4, 5, 6}
    OBVIOUS
  <2>4. /\ words[1] = Imm(c.number) /\ words[2] = c.error /\ words[3] = c.rip
        /\ words[4] = Imm(c.cs) /\ words[5] = Flags(c.enabled) /\ words[6] = c.reg["rsp"]
        /\ words[7] = Imm(c.ss)
    OBVIOUS
  <2> HIDE DEF words
  <2> QED BY <2>2, <2>3, <2>4, Words
<1>6. [k \in 0 .. 6 |-> stack[number + k]] = [k \in 0 .. 6 |-> words[k + 1]]
  <2> HIDE DEF words
  <2> QED BY <1>5
<1>7. \A k \in DOMAIN Registers :
          stack[frame + k - 1] = IF Registers[k] = "rsp" THEN Addr(number) ELSE c.reg[Registers[k]]
  BY <1>2, <1>4
<1> QED BY <1>1, <1>6, <1>7 DEF frame, number

\* interrupt_handler is past the check of the magic number only for an
\* interrupt.
LEMMA FrameIInv == IInv => FrameIsStruct
<1> SUFFICES ASSUME IInv, rip = Code("interrupt_handler", 2) PROVE FrameIsStruct
  BY DEF FrameIsStruct
<1>1. ~Setup
  <2>1. ASSUME NEW k PROVE rip # Code("kernel", k) /\ rip # Code("init_segment_selectors", k)
    BY CodeDiffers
  <2>2. rip # Fault
    BY CodeDiffers
  <2> QED BY <2>1, <2>2 DEF Setup, InKernel
<1>2. ~Level0
  <2>1. 1 # 2
    OBVIOUS
  <2> QED BY <2>1, CodeDiffers DEF Level0, Running
<1>3. ASSUME NEW c, Handles(c, reg, rip, stack)
      PROVE  InHandler(c, 2, reg, rip, stack)
  <2>1. \A k : rip # VectorCode(c.number, k) /\ rip # Code("interrupt_handler_stub", k)
    BY CodeDiffers
  <2>2. PICK k \in 1 .. 3 : InHandler(c, k, reg, rip, stack)
    BY <1>3, <2>1 DEF Handles, InVector, InStub
  <2>3. k = 2
    BY <2>2, CodeDiffers DEF InHandler
  <2> QED BY <2>2, <2>3
<1>4. CASE Level1
  <2> DEFINE c == saved[1]
  <2>1. /\ Running(c.reg, c.rip, c.live) /\ Handles(c, reg, rip, stack)
        /\ Len(saved) = 1 /\ saved = <<c>>
    BY <1>4 DEF Level1
  <2>2. HasRoom(c) /\ InHandler(c, 2, reg, rip, stack) /\ saved # <<>> /\ saved[Len(saved)] = c
    BY <1>3, <2>1, KernelHasRoom
  <2> QED BY <2>2, FrameFound DEF FrameIsStruct
<1>5. CASE Level2
  <2> DEFINE c == saved[1]
             d == saved[2]
  <2>1. Running(c.reg, c.rip, c.live) /\ Handles(c, d.reg, d.rip, d.live)
    BY <1>5, Zenon DEF Level2
  <2>2. Handles(d, reg, rip, stack) /\ Len(saved) = 2 /\ saved = <<c, d>>
    BY <1>5 DEF Level2
  <2>3. HasRoom(d)
    BY <2>1, KernelHasRoom, HandlerHasRoom
  <2>4. InHandler(d, 2, reg, rip, stack) /\ saved # <<>> /\ saved[Len(saved)] = d
    BY <1>3, <2>2
  <2> QED BY <2>3, <2>4, FrameFound DEF FrameIsStruct
<1> QED BY <1>1, <1>2, <1>4, <1>5 DEF IInv

\* The stack holds what is on it.
LEMMA NestingIInv == IInv => NestingBounded
<1> SUFFICES ASSUME IInv PROVE NestingBounded
  OBVIOUS
<1>1. StackWords \in Nat /\ StackWords >= 58 /\ InterruptWords = 25
  BY InterruptsAssumption, RegIs
<1>2. CASE Setup
  <2>1. PICK a \in StackWords - 8 .. StackWords : reg["rsp"] = Addr(a)
    BY <1>2, SetupStack
  <2>2. rsp = a /\ Len(saved) = 0
    BY <1>2, <2>1, WordParts DEF rsp, Setup
  <2> QED BY <1>1, <2>2 DEF NestingBounded
<1>3. CASE Level0
  <2>1. PICK a \in StackWords - 8 .. StackWords : reg["rsp"] = Addr(a)
    BY <1>3, RunningStack DEF Level0
  <2>2. rsp = a /\ Len(saved) = 0
    BY <1>3, <2>1, WordParts DEF rsp, Level0
  <2> QED BY <1>1, <2>2 DEF NestingBounded
<1>4. CASE Level1
  <2> DEFINE c == saved[1]
  <2>1. Running(c.reg, c.rip, c.live) /\ Handles(c, reg, rip, stack) /\ Len(saved) = 1
    BY <1>4 DEF Level1
  <2>2. HasRoom(c) /\ SP(c) >= StackWords - 8 /\ SP(c) \in Int
    BY <2>1, KernelHasRoom
  <2>3. PICK a \in Base(c) - 24 .. Base(c) - 5 : reg["rsp"] = Addr(a)
    BY <2>1, <2>2, HandlesStack
  <2>4. rsp = a
    BY <2>3, WordParts DEF rsp
  <2>5. Base(c) \in Int /\ Base(c) >= SP(c) - 1
    BY <2>2, Aligned
  <2> HIDE DEF c
  <2>6. rsp >= StackWords - 8 - 1 * 25
    BY <1>1, <2>2, <2>3, <2>4, <2>5
  <2> QED BY <1>1, <2>1, <2>6 DEF NestingBounded
<1>5. CASE Level2
  <2> DEFINE c == saved[1]
             d == saved[2]
  <2>1. Running(c.reg, c.rip, c.live) /\ Handles(c, d.reg, d.rip, d.live)
        /\ Handles(d, reg, rip, stack) /\ d.number = EXC_NMI
    BY <1>5, Zenon DEF Level2
  <2>2. Len(saved) = 2
    BY <1>5 DEF Level2
  <2>3. HasRoom(c) /\ SP(c) >= StackWords - 8 /\ SP(c) \in Int
    BY <2>1, KernelHasRoom
  <2>4. HasRoom(d) /\ SP(d) >= StackWords - 33 /\ SP(d) \in Int
    BY <2>1, <2>3, HandlerHasRoom
  <2>5. PICK a \in Base(d) - 24 .. Base(d) - 5 : reg["rsp"] = Addr(a)
    BY <2>1, <2>4, HandlesStack
  <2>6. rsp = a
    BY <2>5, WordParts DEF rsp
  <2>7. Base(d) \in Int /\ Base(d) >= SP(d) - 1
    BY <2>4, Aligned
  <2>8. saved[2].number = EXC_NMI
    BY <2>1
  <2> HIDE DEF c, d
  <2>9. rsp >= StackWords - 8 - 2 * 25
    BY <1>1, <2>4, <2>5, <2>6, <2>7
  <2> QED BY <1>1, <2>2, <2>8, <2>9 DEF NestingBounded
<1> QED BY <1>2, <1>3, <1>4, <1>5 DEF IInv

\* The kernel's segments and its stack.
LEMMA SegmentsIInv == IInv => SegmentsLoaded
<1> SUFFICES ASSUME IInv PROVE SegmentsLoaded
  OBVIOUS
<1> DEFINE InMain2 == rip[1] = "code" /\ rip[2] = "main2"
           InOwn == rip[1] = "code" /\ rip[2] = "kernel"
           Loaded == /\ IsCode(cs) /\ IsData(ss) /\ data = 0
                     /\ \A x \in Preserved : reg[x] = Value(x)
           OnLoaders == rsp \in Tops /\ reg["rbp"] = Value("rbp")
           OnPage == rsp = StackWords - 1 /\ reg["rbp"] = Imm(0) /\ stack[rsp] = Imm(0)
<1>1. /\ InMain2 => Loaded /\ OnPage
      /\ InOwn /\ rip[3] > 2 => Loaded
      /\ InOwn => OnLoaders
  <2>1. CASE Setup
    <3>1. CASE rip = Fault
      BY <3>1, WordParts
    <3>2. ASSUME OwnRegisters(reg), NEW top \in Tops, NEW k \in 1 .. 4, InKernel(k, top)
          PROVE  ~InMain2 /\ OnLoaders /\ (rip[3] > 2 => Loaded)
      <4>1. rip[2] = "kernel" /\ rip[3] = k /\ rsp = top
        BY <3>2, WordParts DEF InKernel, rsp
      <4>2. OnLoaders /\ \A x \in Preserved : reg[x] = Value(x)
        BY <3>2, <4>1 DEF OwnRegisters
      <4>3. k > 2 => IsCode(cs) /\ IsData(ss) /\ data = 0
        BY <3>2, SelectorsAccepted DEF InKernel
      <4> QED BY <4>1, <4>2, <4>3
    <3>3. ASSUME NEW k \in 1 .. 11, rip = Code("init_segment_selectors", k)
          PROVE  ~InMain2 /\ ~InOwn
      BY <3>3, WordParts
    <3> QED BY <2>1, <3>1, <3>2, <3>3 DEF Setup
  <2>2. CASE Ready /\ SegmentsSet /\ Level0
    <3>1. Loaded /\ Running(reg, rip, stack)
      BY <2>2, SelectorsAccepted DEF Ready, SegmentsSet, Level0, Running
    <3>2. CASE \E top \in Tops : reg["rsp"] = Addr(top) /\ reg["rbp"] = Value("rbp")
                                 /\ rip \in {Code("kernel", 5), Code("kernel", 6)}
      <4>1. OnLoaders /\ ~InMain2
        BY <3>2, WordParts DEF rsp
      <4> QED BY <3>1, <4>1
    <3>3. CASE rip \in {Code("main2", k) : k \in 1 .. 4}
      <4>1. /\ reg["rsp"] = Addr(StackWords - 1)
            /\ reg["rbp"] = Imm(0) /\ stack[StackWords - 1] = Imm(0)
        BY <3>1, <3>3, CodeDiffers DEF Running
      <4>2. OnPage /\ ~InOwn
        BY <3>3, <4>1, WordParts DEF rsp
      <4> QED BY <3>1, <4>2
    <3>4. CASE rip \in {Code("setup_new_stack", k) : k \in 1 .. 4}
                       \cup {Code("interrupt_handler", 1), Code("halt", 1), Code("halt", 2)}
      BY <3>4, WordParts
    <3>5. \A k \in {1, 2, 3, 4} : k \in 1 .. 4
      OBVIOUS
    <3> HIDE DEF InMain2, InOwn, Loaded, OnLoaders, OnPage
    <3> QED BY <3>1, <3>2, <3>3, <3>4, <3>5 DEF Running
  <2>3. ASSUME NEW c, Handles(c, reg, rip, stack) PROVE ~InMain2 /\ ~InOwn
    BY <2>3, HandlesCode
  <2> HIDE DEF InMain2, InOwn, Loaded, OnLoaders, OnPage
  <2> QED BY <2>1, <2>2, <2>3 DEF IInv, Level1, Level2
<1> QED BY <1>1 DEF SegmentsLoaded, Preserved, Tops

\* The processor shuts down only before set_idt.
LEMMA FaultsIInv == IInv => NeverFaults
<1> SUFFICES ASSUME IInv, rip = Fault PROVE Setup
  BY DEF NeverFaults, Setup
<1>1. ~Level0
  BY CodeDiffers DEF Level0, Running
<1>2. ASSUME NEW c, Handles(c, reg, rip, stack) PROVE FALSE
  <2>1. \/ \E k : rip = VectorCode(c.number, k)
        \/ \E k : rip = Code("interrupt_handler_stub", k)
        \/ \E k : rip = Code("interrupt_handler", k)
    BY <1>2 DEF Handles, InVector, InStub, InHandler
  <2> QED BY <2>1, CodeDiffers
<1> QED BY <1>1, <1>2 DEF IInv, Level1, Level2

\* The iretq that ends an interrupt gives back what it interrupted.
LEMMA TransparentStep ==
    ASSUME IInv, [Next]_vars, Len(saved') < Len(saved)
    PROVE  LET c == saved[Len(saved)]
           IN  /\ reg' = c.reg /\ rip' = c.rip /\ cs' = c.cs /\ ss' = c.ss
               /\ enabled' = c.enabled
               /\ \A a \in DOMAIN c.live : stack'[a] = c.live[a]
<1>1. Outcome
  BY NextIInv
<1>2. saved = <<>> \/ Level1 \/ Level2
  BY DEF IInv, Setup, Level0
<1>3. Len(saved) \in 0 .. 2 /\ \A c : Len(Append(saved, c)) = Len(saved) + 1
  <2>1. CASE saved = <<>>
    BY <2>1
  <2>2. CASE Level1
    <3> DEFINE c == saved[1]
    <3>1. saved = <<c>> /\ Len(saved) = 1
      BY <2>2 DEF Level1
    <3> HIDE DEF c
    <3>2. \A d : Append(saved, d) = <<c, d>>
      BY <3>1, AppendSecond
    <3>3. \A d : Len(<<c, d>>) = 2
      OBVIOUS
    <3> QED BY <3>1, <3>2, <3>3
  <2>3. CASE Level2
    <3> DEFINE c == saved[1]
               d == saved[2]
    <3>1. saved = <<c, d>> /\ Len(saved) = 2
      BY <2>3 DEF Level2
    <3> HIDE DEF c, d
    <3>2. ASSUME NEW e PROVE Len(Append(saved, e)) = 3
      <4>1. saved \in Seq({c, d, e}) /\ e \in {c, d, e}
        BY <3>1
      <4> QED BY <3>1, <4>1, AppendProperties
    <3> QED BY <3>1, <3>2
  <2> QED BY <1>2, <2>1, <2>2, <2>3
<1> DEFINE c == saved[Len(saved)]
<1>4. Handles(c, reg, rip, stack) /\ Restores(c)
  BY <1>1, <1>3 DEF Outcome
<1>5. DOMAIN c.live = SP(c) .. StackWords - 1
  <2>1. saved # <<>>
    BY <1>1, <1>3 DEF Outcome
  <2>2. CASE Level1
    BY <2>2 DEF Level1, IsContext
  <2>3. CASE Level2
    BY <2>3 DEF Level2, IsContext
  <2> QED BY <1>2, <2>1, <2>2, <2>3
<1>6. \A a \in DOMAIN c.live : stack'[a] = c.live[a]
  BY <1>4, <1>5 DEF Handles, Restores
<1> QED BY <1>4, <1>6 DEF Restores

\* When interrupt_handler looks at *frame it is the struct interrupt_frame of
\* the interrupt in progress (src/interrupts.c, include/opsys/x86.h).
THEOREM FrameTheorem == Spec => []FrameIsStruct
BY InterruptsInvariant, FrameIInv, PTL

\* At most two interrupts are in progress, and the stack's single page holds
\* them (src/stubs.S, src/x86.c).
THEOREM NestingTheorem == Spec => []NestingBounded
BY InterruptsInvariant, NestingIInv, PTL

\* The kernel runs on its own segments, and main2 on its page (src/stubs.S).
THEOREM SegmentsTheorem == Spec => []SegmentsLoaded
BY InterruptsInvariant, SegmentsIInv, PTL

\* From set_idt on the processor accepts every gate, selector and frame
\* (src/x86.c, src/gdt.c).
THEOREM FaultsTheorem == Spec => []NeverFaults
BY InterruptsInvariant, FaultsIInv, PTL

\* Whatever an interrupt interrupts does not notice it (src/stubs.S,
\* src/asm-util.h).
THEOREM TransparentTheorem == Spec => Transparent
<1>1. IInv /\ [Next]_vars =>
          [Len(saved') < Len(saved) =>
               LET c == saved[Len(saved)]
               IN  /\ reg' = c.reg /\ rip' = c.rip /\ cs' = c.cs /\ ss' = c.ss
                   /\ enabled' = c.enabled
                   /\ \A a \in DOMAIN c.live : stack'[a] = c.live[a]]_vars
  BY TransparentStep
<1> QED BY <1>1, InterruptsInvariant, PTL DEF Spec, Transparent
=============================================================================
