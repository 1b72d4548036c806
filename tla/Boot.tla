-------------------------------- MODULE Boot --------------------------------
(***************************************************************************)
(* The two programs one after the other: the loader of module BootLoader   *)
(* runs until it jumps, and the kernel of module KernelMemory starts from  *)
(* the bootloader_data, the boot page tables and the RAM it left.  What    *)
(* neither program can see alone is checked here: that the pages the       *)
(* kernel writes are nobody else's, and that it gets to the end.           *)
(***************************************************************************)
EXTENDS BootLoader

CONSTANTS
    Frame,          \* the frames of the largest machine
    DESCRIPTORS,    \* MemoryMap entries in the first page of the struct
    Garbage         \* what the frames of .bss may hold

\* The kernel's words are numbers, and the machine's RAM is among the frames; the
\* registers of the APIC are no RAM.
ASSUME BootAssumption ==
    /\ Frame \subseteq Nat /\ Garbage \subseteq Nat
    /\ DESCRIPTORS \in Nat /\ APIC_PADDR \in Nat
    /\ \A s \in Setups : /\ DOMAIN s.machine.ram \subseteq Frame
                         /\ APIC_PADDR \notin DOMAIN s.machine.ram

VARIABLES           \* those of KernelMemory; kphase and kstack are its phase
    kphase,         \* and new_stack
    bootloader_data, apic_vaddr, mem, free_list, kstack, address_space, call,
    page, relro, table, level, cr3, role

kernel == <<kphase, bootloader_data, apic_vaddr, mem, free_list, kstack,
            address_space, call, page, relro, table, level, cr3, role>>

K == INSTANCE KernelMemory WITH
        phase <- kphase, new_stack <- kstack, BootloaderData <- {}
-----------------------------------------------------------------------------
\* The kernel's variables before it runs are those it starts with, except for
\* the ones set by the jump.  Frames hold whatever they held: only what the
\* kernel writes is told from zero.
BootInit ==
    /\ Init
    /\ kphase = "off"
    /\ bootloader_data = << >>
    /\ apic_vaddr = NULL /\ free_list = NULL
    /\ mem = [f \in Frame |-> K!ZeroPage]
    /\ kstack = NULL /\ address_space = NULL
    /\ call = 1 /\ page = 0 /\ relro = 0
    /\ table = NULL /\ level = 4
    /\ cr3 = K!BOOT
    /\ role = [f \in Frame |-> K!Unused]

LoaderStep == Loader /\ phase' # "kernel" /\ UNCHANGED kernel
FirmwareStep == FirmwareEvent /\ UNCHANGED kernel

\* The jump: the kernel finds the struct at its address in the window.
EnterKernel ==
    /\ JumpToKernel
    /\ kphase' = "kernel_main"
    /\ bootloader_data' = Handed
    /\ apic_vaddr' \in Garbage /\ free_list' \in Garbage
    /\ UNCHANGED <<mem, kstack, address_space, call, page, relro, table, level,
                   cr3, role>>

KernelStep == K!Next /\ UNCHANGED vars

\* The loader has returned to the firmware or has stopped.
NoKernel == phase \in Stopped \ {"kernel"} /\ UNCHANGED <<vars, kernel>>

BootNext == LoaderStep \/ FirmwareStep \/ EnterKernel \/ KernelStep \/ NoKernel

\* The processor executes the next instruction of the loader or of the kernel.
BootSpec ==
    /\ BootInit /\ [][BootNext]_<<vars, kernel>>
    /\ WF_<<vars, kernel>>(LoaderStep \/ EnterKernel)
    /\ WF_<<vars, kernel>>(KernelStep)
-----------------------------------------------------------------------------
\* The frames the loader or the firmware still needs while the kernel runs: the
\* struct, the image, the boot page tables, the stack kernel_main is called on,
\* and what belongs to the runtime services.
Foreign ==
    {new_stack} \cup data .. data + 1 \cup KernelSegments \cup tables
    \cup {f \in DOMAIN ram : ram[f].runtime}

\* Whatever free_physical_page, allocate_physical_page and map_page write while
\* the kernel builds its tables goes to the free memory of the loader, in which
\* nothing else lies: not the boot page tables the kernel still runs under, not
\* the stack kernel_main runs on, not bootloader_data, whose memory map and
\* headers it is reading, and nothing of the firmware.
WritesItsOwn ==
    LET Written == {f \in Frame : mem[f] # K!ZeroPage}
    IN  kphase # "off" =>
           /\ Written \subseteq free_memory .. free_memory + FREE_PAGES - 1
           /\ Written \subseteq DOMAIN ram
           /\ Written \cap Foreign = {}

\* After the switch to the tables of new_address_space no frame of RAM has two
\* addresses, so that no page is written through one and read through another:
\* what AllocatePages returned, what init_mmap merged and the ranges mapped come
\* out apart.  Mapped are the struct, the free memory, the image and the runtime
\* memory, all of it, at the addresses SetVirtualAddressMap was told.
OneAddressPerFrame ==
    cr3 # K!BOOT =>
       LET T == K!Translation(mem, cr3)
           InRam == {v \in DOMAIN T : T[v].addr \in DOMAIN ram}
           Runtime == {f \in DOMAIN ram : ram[f].runtime}
       IN  /\ \A v, w \in InRam : T[v].addr = T[w].addr => v = w
           /\ {T[v].addr : v \in InRam} =
                 {data} \cup (free_memory .. free_memory + FREE_PAGES - 1)
                 \cup KernelSegments \cup Runtime
           /\ \A f \in Runtime : /\ f + bd.paddr_base \in DOMAIN T
                                 /\ T[f + bd.paddr_base].addr = f

\* The handover is enough for the kernel: pages for its stack and its tables, and
\* a memory map within the page of bootloader_data that both programs map.
Enough ==
    /\ bootloader_data.n_pages >= 2 + Cardinality(K!TablesNeeded(bootloader_data))
    /\ Len(bootloader_data.MemoryMap) <= DESCRIPTORS

\* The boot comes to its end: efi_main returns to the firmware or halts before
\* the jump, or the kernel turns the machine off.  From no handover the loader
\* makes does the kernel run into a page fault or one of its calls of halt(),
\* unless there is not enough in it.
ComesToAnEnd ==
    <>(\/ phase \in {"exit", "halt"}
       \/ kphase = "shutdown"
       \/ kphase \in {"nomem", "fault"} /\ ~Enough)
=============================================================================
