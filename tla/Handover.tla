------------------------------ MODULE Handover ------------------------------
(***************************************************************************)
(* What the boot loader hands to the kernel, struct bootloader_data of     *)
(* include/opsys/bootloader_data.h with the memory map and the program     *)
(* headers it leads to, and the ranges of pages new_address_space maps for *)
(* it.  Modules BootLoader and KernelMemory meet here.                     *)
(***************************************************************************)
EXTENDS Paging, Sequences

CONSTANT APIC_PADDR     \* the frame IA32_APIC_BASE names

MemoryType == {"EfiReservedMemoryType", "EfiLoaderCode", "EfiLoaderData",
               "EfiBootServicesCode", "EfiBootServicesData",
               "EfiRuntimeServicesCode", "EfiRuntimeServicesData",
               "EfiConventionalMemory", "EfiUnusableMemory",
               "EfiACPIReclaimMemory", "EfiACPIMemoryNVS",
               "EfiMemoryMappedIO", "EfiMemoryMappedIOPortSpace", "EfiPalCode"}
MmioType == {"EfiMemoryMappedIO", "EfiMemoryMappedIOPortSpace"}

\* A descriptor; of its attributes the code looks at EFI_MEMORY_RUNTIME.
Descriptor == [Type : MemoryType, PhysicalStart : Nat, VirtualStart : Nat,
               NumberOfPages : Nat, runtime : BOOLEAN]

\* A segment: the pages and the offset into the first one stand for p_paddr
\* and p_vaddr, which agree on the offset.
Phdr == [p_type : {"PT_LOAD", "PT_DYNAMIC", "PT_GNU_STACK", "PT_GNU_RELRO"},
         writable : BOOLEAN, ppage : Nat, vpage : Nat,
         offset : 0 .. PAGE_SIZE - 1, p_memsz : Nat]

\* *bootloader_data; self is the page of the struct itself.
Handover == [self : Nat, free_memory : Nat, n_pages : Nat,
             paddr_base : Nat \ {0}, mmio_base : Nat \ {0}, RT : Nat,
             MemoryMap : Seq(Descriptor), phdrs : Seq(Phdr)]
-----------------------------------------------------------------------------
(***************************************************************************)
(* The map_range calls of new_address_space, in order.  A memory           *)
(* descriptor or a program header the loops skip maps no page.             *)
(***************************************************************************)
PageRange(ppage, vpage, n, rw) ==
    [ppage |-> ppage, vpage |-> vpage, n |-> n, rw |-> rw]

RuntimeRange(m) ==
    PageRange(m.PhysicalStart, m.VirtualStart,
              IF m.runtime THEN m.NumberOfPages ELSE 0,
              m.Type \in {"EfiRuntimeServicesData", "EfiMemoryMappedIO",
                          "EfiMemoryMappedIOPortSpace", "EfiRuntimeServicesCode"})

KernelRange(h) ==
    PageRange(h.ppage, h.vpage,
              IF h.p_type = "PT_LOAD" THEN NUM_PAGES(h.offset, h.p_memsz) ELSE 0,
              h.writable)

NumCalls(b) == 3 + Len(b.MemoryMap) + Len(b.phdrs)

MapRangeCall(b, apic, c) ==
    CASE c = 1 -> PageRange(b.self - b.paddr_base, b.self, 1, TRUE)
      [] c = 2 -> PageRange(b.free_memory - b.paddr_base, b.free_memory,
                            b.n_pages, TRUE)
      [] c = 3 -> PageRange(APIC_PADDR, apic, 1, TRUE)
      [] c > 3 /\ c <= 3 + Len(b.MemoryMap) -> RuntimeRange(b.MemoryMap[c - 3])
      [] OTHER -> KernelRange(b.phdrs[c - 3 - Len(b.MemoryMap)])

\* The virtual pages of a range, and of the kernel image.
Pages(r) == r.vpage .. r.vpage + r.n - 1
KernelPages(b) == UNION {Pages(KernelRange(b.phdrs[i])) : i \in 1 .. Len(b.phdrs)}
-----------------------------------------------------------------------------
FreeMemory(b) == b.free_memory .. b.free_memory + b.n_pages - 1

\* The pages of the window that the boot page tables map, all of them
\* writable: the first page of the struct and the free memory.
BootWindow(b) == {b.self} \cup FreeMemory(b)

\* What set_vpage_ro is to protect are pages of the address space, and none of
\* the window: the kernel is linked above it.
RelroApart(b) ==
    \A i \in 1 .. Len(b.phdrs) :
       LET h == b.phdrs[i] IN
       h.p_type = "PT_GNU_RELRO" =>
          h.vpage .. h.vpage + NUM_PAGES(h.offset, h.p_memsz) - 1 \subseteq VPage \ BootWindow(b)
=============================================================================
