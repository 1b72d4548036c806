-------------------------- MODULE MCKernelMemory --------------------------
(***************************************************************************)
(* Four entries per table, so 256 virtual pages, the kernel in the last 16 *)
(* of them (KERNEL_BASE = 240) and below it, as doc/virtual-memory.md lays *)
(* out, the window on physical memory, the MMIO segments and the APIC.     *)
(* Pages have four bytes.                                                  *)
(***************************************************************************)
EXTENDS KernelMemory

Segment(type, w, ppage, vp, offset, memsz) ==
    [p_type |-> type, writable |-> w, ppage |-> ppage, vpage |-> vp,
     offset |-> offset, p_memsz |-> memsz]

Text == Segment("PT_LOAD", FALSE, 24, 240, 0, 5)
Data == Segment("PT_LOAD", TRUE, 26, 242, 2, 3)
Stack == Segment("PT_GNU_STACK", TRUE, 0, 0, 0, 0)
RelroAt(v, memsz) == Segment("PT_GNU_RELRO", FALSE, 26, v, 2, memsz)

\* A regular image, one without RELRO, one whose data is all RELRO, one whose
\* segments share a page, and ones whose RELRO reaches past the data segment,
\* next to it or far away.
Images == {<<Text, Data, Stack, RelroAt(242, 2)>>,
           <<Text, Data, Stack>>,
           <<Text, [Data EXCEPT !.p_memsz = 6], RelroAt(242, 6)>>,
           <<Text, [Data EXCEPT !.vpage = 241]>>,
           <<Text, Data, RelroAt(243, 4)>>,
           <<RelroAt(64, 2), Text, Data>>}

Memory(type, start, vstart, n, rt) ==
    [Type |-> type, PhysicalStart |-> start, VirtualStart |-> vstart,
     NumberOfPages |-> n, runtime |-> rt]

\* Memory maps that end in the first page of the struct and in the second.
MemoryMaps(base) ==
    LET m == <<Memory("EfiConventionalMemory", 0, 0, 22, FALSE),
               Memory("EfiRuntimeServicesData", 22, base + 22, 1, TRUE),
               Memory("EfiMemoryMappedIO", 50, base - 2, 2, TRUE)>>
    IN  {m, Append(m, Memory("EfiReservedMemoryType", 23, base + 23, 1, TRUE))}

\* The window at 212 lies in the last quarter of the address space; the one at
\* 184 crosses into it, so that the free pages are under two level 3 tables.
MCBootloaderData ==
    UNION {{[self |-> base + 1, free_memory |-> base + 4, n_pages |-> n,
             paddr_base |-> base, mmio_base |-> base - 2, RT |-> base + 22,
             MemoryMap |-> m, phdrs |-> p] :
               n \in {0, 1, 6, 12, 17, 18}, m \in MemoryMaps(base), p \in Images} :
           base \in {212, 184}}

MCFrame == 0 .. 27
MCGarbage == {0, 220}
=============================================================================
