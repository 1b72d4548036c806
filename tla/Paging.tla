------------------------------- MODULE Paging -------------------------------
(***************************************************************************)
(* Words, pages and four-level page tables, as laid out by                 *)
(* include/opsys/virtual-memory.h and walked by the processor.             *)
(*                                                                         *)
(* Addresses are page numbers: a page-aligned address is the number of its *)
(* page.  A 64-bit word is seen as a page-aligned address with two flag    *)
(* bits; that is all the code ever stores in the pages modelled here, a    *)
(* page-table entry (address | PTE_P | PTE_RW) or the next pointer of a    *)
(* free page, whose alignment leaves both flag bits clear.                 *)
(***************************************************************************)
EXTENDS Integers

CONSTANTS
    ENTRIES,    \* entries of one page table (page_table_t), 512 in the code
    PAGE_SIZE   \* bytes of one page, 0x1000 in the code

ASSUME PagingAssumption ==
    /\ ENTRIES \in Nat /\ ENTRIES > 1
    /\ PAGE_SIZE \in Nat /\ PAGE_SIZE > 0

NULL == 0

Level == 1 .. 4
Index == 0 .. ENTRIES - 1
VPage == 0 .. ENTRIES * ENTRIES * ENTRIES * ENTRIES - 1

Word == [addr : Nat, p : BOOLEAN, rw : BOOLEAN]
Page == [Index -> Word]

Zero == [addr |-> 0, p |-> FALSE, rw |-> FALSE]
ZeroPage == [i \in Index |-> Zero]

\* A pointer in memory.
Pointer(addr) == [addr |-> addr, p |-> FALSE, rw |-> FALSE]

\* The page-table entry  addr | PTE_P | flags, and an entry with PTE_RW cleared.
Pte(addr, rw) == [addr |-> addr, p |-> TRUE, rw |-> rw]
\* Mutant of the latter: the wrong flag is cleared.
ReadOnly_ClearsP(pte) == [addr |-> pte.addr, p |-> FALSE, rw |-> pte.rw]
ReadOnly(pte) == [addr |-> pte.addr, p |-> pte.p, rw |-> FALSE]
-----------------------------------------------------------------------------
\* Mutant: the offset into the first page is forgotten.
NUM_PAGES_NoOffset(offset, size) == ((size - 1) \div PAGE_SIZE) + 1

\* The number of pages spanned by size bytes that start at the given offset of
\* a page.  Floor division makes it 0 for offset = size = 0, as does the wrap
\* around of the unsigned arithmetic.
NUM_PAGES(offset, size) == ((offset + size - 1) \div PAGE_SIZE) + 1

\* vpage shifted right by (level - 1) index widths; nothing is left of a
\* virtual page number above level 4.
Shifted(vpage, level) ==
    CASE level = 1 -> vpage
      [] level = 2 -> vpage \div ENTRIES
      [] level = 3 -> (vpage \div ENTRIES) \div ENTRIES
      [] level = 4 -> ((vpage \div ENTRIES) \div ENTRIES) \div ENTRIES
      [] OTHER -> 0

\* Mutant: the level is not counted from 1.
PAGE_LEVEL_INDEX_FromZero(vpage, level) == Shifted(vpage, level + 1) % ENTRIES

PAGE_LEVEL_INDEX(vpage, level) == Shifted(vpage, level) % ENTRIES

\* The indexes that lead from the root to the table of level l on the walk of
\* page v; the levels that are not on the way are 0.
Path(v, l) ==
    [m \in Level |-> IF m > l THEN PAGE_LEVEL_INDEX(v, m) ELSE 0]
-----------------------------------------------------------------------------
(***************************************************************************)
(* The walk the processor does from the table in frame root.  memory maps  *)
(* each physical frame to its page.  The processor does not use the code's *)
(* PAGE_LEVEL_INDEX: an entry of a level covers so many pages, and a table *)
(* is indexed by the number of such stretches below the page.              *)
(***************************************************************************)
Covers(level) ==
    CASE level = 1 -> 1
      [] level = 2 -> ENTRIES
      [] level = 3 -> ENTRIES * ENTRIES
      [] level = 4 -> ENTRIES * ENTRIES * ENTRIES

Entry(memory, table, vpage, level) ==
    memory[table][(vpage \div Covers(level)) % ENTRIES]

\* The frame of the table of the given level on the walk of vpage, provided
\* the entries above are present.
Table3(memory, root, vpage) == Entry(memory, root, vpage, 4).addr
Table2(memory, root, vpage) ==
    Entry(memory, Table3(memory, root, vpage), vpage, 3).addr
Table1(memory, root, vpage) ==
    Entry(memory, Table2(memory, root, vpage), vpage, 2).addr

Leaf(memory, root, vpage) ==
    Entry(memory, Table1(memory, root, vpage), vpage, 1)

Mapped(memory, root, vpage) ==
    /\ Entry(memory, root, vpage, 4).p
    /\ Entry(memory, Table3(memory, root, vpage), vpage, 3).p
    /\ Entry(memory, Table2(memory, root, vpage), vpage, 2).p
    /\ Leaf(memory, root, vpage).p

\* A write is allowed when every entry of the walk allows it.
Writable(memory, root, vpage) ==
    /\ Entry(memory, root, vpage, 4).rw
    /\ Entry(memory, Table3(memory, root, vpage), vpage, 3).rw
    /\ Entry(memory, Table2(memory, root, vpage), vpage, 2).rw
    /\ Leaf(memory, root, vpage).rw

\* The whole address space: every page the walk reaches, with the frame it
\* names and whether it may be written.
Translation(memory, root) ==
    [v \in {u \in VPage : Mapped(memory, root, u)} |->
        [addr |-> Leaf(memory, root, v).addr,
         rw   |-> Writable(memory, root, v)]]
=============================================================================
