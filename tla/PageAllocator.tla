--------------------------- MODULE PageAllocator ---------------------------
(***************************************************************************)
(* allocate_physical_page and free_physical_page called in any order by    *)
(* clients that respect the interface: a client frees only pages it holds  *)
(* and writes only to pages it holds.  What it writes is its own business, *)
(* and it may write the word that serves as next pointer once the page is  *)
(* free.                                                                   *)
(***************************************************************************)
EXTENDS FreeList, Sequences

CONSTANTS
    Frame,        \* the physical pages the kernel was given
    PADDR_BASE,   \* bootloader_data->paddr_base
    Scribble      \* the words clients write into their pages

ASSUME AllocatorAssumption ==
    /\ Frame \subseteq Nat
    /\ PADDR_BASE \in Nat \ {0}
    /\ Scribble \subseteq Word

VARIABLES
    mem,          \* contents of the pages
    free_list,    \* head of the list, a pointer or NULL
    held,         \* the frames the clients hold
    halted,       \* the machine executed halt()
    stack         \* history: the free frames, the head of the list last

vars == <<mem, free_list, held, halted, stack>>

\* The loader zeroes the pages it hands over; kernel_main holds all of them.
Init ==
    /\ mem = [f \in Frame |-> ZeroPage]
    /\ free_list = NULL
    /\ held = Frame
    /\ halted = FALSE
    /\ stack = <<>>

\* free_physical_page, called with the pointer to a frame the caller holds.
Free(f) ==
    /\ ~halted
    /\ f \in held
    /\ mem' = FreePhysicalPage(mem, PADDR_BASE, PADDR_BASE + f, free_list)
    /\ free_list' = PADDR_BASE + f
    /\ held' = held \ {f}
    /\ stack' = Append(stack, f)
    /\ UNCHANGED halted

\* The frame behind the value a caller gets back: a caller that asked for a
\* page table or a flat address takes the value for a physical page.
CallersFrame(flags, value) ==
    IF flags \cap {"APP_PTE", "APP_FLAT"} # {} THEN value ELSE value - PADDR_BASE

\* allocate_physical_page with a page on the list.
Allocate(flags) ==
    /\ ~halted
    /\ free_list # NULL
    /\ mem' = AllocatePhysicalPage(mem, PADDR_BASE, free_list, flags)
    /\ free_list' = NextFree(mem, PADDR_BASE, free_list)
    /\ held' = held \cup
         {CallersFrame(flags, Returned(PADDR_BASE, free_list, flags))}
    /\ stack' = SubSeq(stack, 1, Len(stack) - 1)
    /\ UNCHANGED halted

\* Mutant: the last page is never handed out.
AllocateHalts_OnLastPage ==
    /\ ~halted
    /\ free_list # NULL => NextFree(mem, PADDR_BASE, free_list) = NULL
    /\ halted' = TRUE
    /\ UNCHANGED <<mem, free_list, held, stack>>

\* allocate_physical_page with the list empty: finding more memory is not
\* implemented.
AllocateHalts ==
    /\ ~halted
    /\ free_list = NULL
    /\ halted' = TRUE
    /\ UNCHANGED <<mem, free_list, held, stack>>

\* A client writes a word of a page it holds.
Write(f, i, w) ==
    /\ ~halted
    /\ f \in held
    /\ mem' = [mem EXCEPT ![f][i] = w]
    /\ UNCHANGED <<free_list, held, halted, stack>>

\* halt() disables interrupts and loops.
Hang == halted /\ UNCHANGED vars

Next ==
    \/ \E f \in Frame : Free(f)
    \/ \E flags \in AppFlags : Allocate(flags)
    \/ AllocateHalts
    \/ \E f \in Frame, i \in Index, w \in Scribble : Write(f, i, w)
    \/ Hang

Spec == Init /\ [][Next]_vars
-----------------------------------------------------------------------------
\* Pages hold words, and what clients hold and what the list holds are pages.
TypeOK ==
    /\ mem \in [Frame -> Page]
    /\ free_list \in {NULL} \cup {PADDR_BASE + f : f \in Frame}
    /\ held \subseteq Frame
    /\ halted \in BOOLEAN
    /\ stack \in Seq(Frame)

\* The linked list in the free pages is intact whatever the clients wrote and
\* in whatever order they called (free_physical_page and
\* allocate_physical_page, src/virtual-memory.c): from free_list the next
\* pointers lead through exactly the frames nobody holds, each once, the one
\* freed last first, and end in NULL.
ListIntact ==
    LET n == Len(stack) IN
    /\ free_list = IF n = 0 THEN NULL ELSE PADDR_BASE + stack[n]
    /\ \A k \in 1 .. n :
          mem[stack[k]][0].addr =
              IF k = 1 THEN NULL ELSE PADDR_BASE + stack[k - 1]
    /\ \A j, k \in 1 .. n : stack[j] = stack[k] => j = k
    /\ {stack[k] : k \in 1 .. n} = Frame \ held

\* The page an allocation hands out was held by nobody, and a caller that
\* asked for zeroed memory (APP_ZERO, or APP_PTE for a page table) gets a page
\* without a trace of its former holder or of the free list.
HandsOutFreshPages ==
    [][\A flags \in AppFlags : Allocate(flags) =>
          \E f \in Frame \ held :
             /\ held' = held \cup {f}
             /\ flags \cap {"APP_ZERO", "APP_PTE"} # {} => mem'[f] = ZeroPage]_vars

\* The allocator implements the pool its interface promises: one holder per
\* page, and a halt only when every page is held.
Pool == INSTANCE PagePool
ImplementsPool == Pool!Spec
=============================================================================
