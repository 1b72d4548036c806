------------------------------ MODULE FreeList ------------------------------
(***************************************************************************)
(* The kernel's list of free physical pages, src/virtual-memory.c lines    *)
(* 11-37: a linked list whose next pointers are the first words of the     *)
(* free pages themselves.  The kernel's pointers are virtual pages; base   *)
(* is bootloader_data->paddr_base, the virtual page at which physical      *)
(* memory starts, so page - base is the frame behind a pointer.            *)
(*                                                                         *)
(* The operators are the effect of one call on the values it changes; the  *)
(* state machines that make the calls are PageAllocator and KernelMemory.  *)
(***************************************************************************)
EXTENDS Paging

APP_NORMAL == {}
AppFlags == SUBSET {"APP_ZERO", "APP_FLAT", "APP_PTE"}

\* Mutant: the head moves before the link is written.
FreePhysicalPage_LinksToItself(memory, base, page, head) ==
    [memory EXCEPT ![page - base][0] = Pointer(page)]

\* memory after free_physical_page(page) with the list at head; the list is at
\* page afterwards.
FreePhysicalPage(memory, base, page, head) ==
    [memory EXCEPT ![page - base][0] = Pointer(head)]

\* free_list->next
NextFree(memory, base, head) == memory[head - base][0].addr

\* Mutant: a page table is not cleared.
Implied_FlatOnly(flags) ==
    IF "APP_PTE" \in flags THEN flags \cup {"APP_FLAT"} ELSE flags

\* APP_PTE implies APP_ZERO and APP_FLAT.
Implied(flags) ==
    IF "APP_PTE" \in flags THEN flags \cup {"APP_ZERO", "APP_FLAT"} ELSE flags

\* memory after allocate_physical_page(flags) took page off the list.
AllocatePhysicalPage(memory, base, page, flags) ==
    IF "APP_ZERO" \in Implied(flags)
    THEN [memory EXCEPT ![page - base] = ZeroPage]
    ELSE memory

\* What allocate_physical_page(flags) returns for page: a flat address is the
\* physical page itself.
Returned(base, page, flags) ==
    IF "APP_FLAT" \in Implied(flags) THEN page - base ELSE page
=============================================================================
