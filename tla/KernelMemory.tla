---------------------------- MODULE KernelMemory ----------------------------
(***************************************************************************)
(* The kernel takes over memory management: kernel_main and main2          *)
(* (src/entry.c), the page allocator and new_address_space with map_range, *)
(* map_page and set_vpage_ro (src/virtual-memory.c), and the APIC window   *)
(* chosen by init_apic (src/x86.c).                                        *)
(*                                                                         *)
(* The kernel runs alone, under the boot page tables the loader left, and  *)
(* builds its own four-level tables out of the pages the loader handed     *)
(* over, walking and extending them one level per step.  Every step that   *)
(* follows a pointer goes through the page tables in force: a page they do *)
(* not map is a page fault, whose handler returns to the faulting          *)
(* instruction.                                                            *)
(***************************************************************************)
EXTENDS FreeList, Handover, FiniteSets

CONSTANTS
    Frame,             \* physical pages of RAM
    BootloaderData,    \* the handovers considered: values of *bootloader_data
    DESCRIPTORS,       \* MemoryMap entries in the first page of the struct
    Garbage            \* what .bss may hold before kernel_main clears it

\* The struct and the free memory are seen through the window on physical
\* memory, and the free memory is RAM.
ASSUME KernelAssumption ==
    /\ Frame \subseteq Nat
    /\ APIC_PADDR \in Nat
    /\ DESCRIPTORS \in Nat
    /\ Garbage \subseteq Nat
    /\ BootloaderData \subseteq Handover
    /\ \A b \in BootloaderData :
          /\ b.paddr_base <= b.self /\ b.paddr_base <= b.free_memory
          /\ \A k \in 0 .. b.n_pages - 1 :
                (b.free_memory + k) - b.paddr_base \in Frame
-----------------------------------------------------------------------------
VARIABLES
    phase,             \* where kernel_main, main2 or new_address_space is
    bootloader_data,   \* the handover; nothing changes it
    apic_vaddr,        \* cpu.apic.vaddr
    mem,               \* contents of physical pages
    free_list,         \* head of the free list, a pointer or NULL
    new_stack,         \* the stack of main2
    address_space,     \* the root table under construction, a pointer
    call, page,        \* the map_range call of new_address_space, its page
    relro,             \* the RELRO segment seen last, 0 for NULL
    table, level,      \* the table map_page or set_vpage_ro is looking at
    cr3,               \* the frame of the root table in force, or BOOT
    role               \* history: what each frame is used for

vars == <<phase, bootloader_data, apic_vaddr, mem, free_list, new_stack,
          address_space, call, page, relro, table, level, cr3, role>>
walk == <<table, level>>
loop == <<call, page, relro>>

BOOT == -1  \* the boot page tables, which are outside mem

\* The path to the root.
NoPath == [m \in Level |-> 0]

\* Frames the kernel has not put to use, has freed, uses as its stack, or uses
\* as the table of a level that a path leads to.
Unused == [use |-> "unused", level |-> 0, path |-> NoPath]
FreePage == [use |-> "free", level |-> 0, path |-> NoPath]
StackPage == [use |-> "stack", level |-> 0, path |-> NoPath]
TablePage(l, path) == [use |-> "table", level |-> l, path |-> path]
Role == [use : {"unused", "free", "stack", "table"}, level : 0 .. 4,
         path : [Level -> Index]]
-----------------------------------------------------------------------------
\* The frame behind a pointer into the window on physical memory.
FrameOf(ptr) == ptr - bootloader_data.paddr_base

\* NEXT_PAGE_LEVEL: the pointer to the table an entry names.
NextPageLevel(entry) == bootloader_data.paddr_base + entry.addr
-----------------------------------------------------------------------------
\* relro after the iteration of call c: the loop over the segments keeps the
\* last RELRO segment.
RelroAfter(b, c) ==
    LET i == c - 3 - Len(b.MemoryMap) IN
    IF i >= 1 /\ b.phdrs[i].p_type = "PT_GNU_RELRO" THEN i ELSE relro

RelroPages(b) ==
    IF relro = 0 THEN 0
    ELSE NUM_PAGES(b.phdrs[relro].offset, b.phdrs[relro].p_memsz)

\* No range wraps around the end of the address space, and RELRO is part of the
\* image.
ASSUME LayoutAssumption ==
    \A b \in BootloaderData :
       /\ \A c \in 1 .. NumCalls(b) :
             Pages(MapRangeCall(b, b.mmio_base - 1, c)) \subseteq VPage
       /\ RelroApart(b)

Call == MapRangeCall(bootloader_data, apic_vaddr, call)
\* The page map_page or set_vpage_ro is called with.
vpage ==
    IF phase = "relro" THEN bootloader_data.phdrs[relro].vpage + page
    ELSE Call.vpage + page
entry == mem[FrameOf(table)][PAGE_LEVEL_INDEX(vpage, level)]
-----------------------------------------------------------------------------
(***************************************************************************)
(* The pages the next step reads or writes through a pointer.              *)
(***************************************************************************)
\* The page of MemoryMap[i], at the end of the struct.
MemoryMapPage(b, i) == IF i <= DESCRIPTORS THEN b.self ELSE b.self + 1

Touched ==
    CASE phase = "free" /\ page < bootloader_data.n_pages ->
            {bootloader_data.free_memory + page}
      [] phase \in {"stack", "root"} /\ free_list # NULL -> {free_list}
      [] phase = "map" ->
            (IF page < Call.n THEN {table} ELSE {}) \cup
            (IF page < Call.n /\ level > 1 /\ free_list # NULL
             THEN {free_list} ELSE {}) \cup
            (IF call > 3 /\ call <= 3 + Len(bootloader_data.MemoryMap)
             THEN {MemoryMapPage(bootloader_data, call - 3)} ELSE {})
      [] phase = "relro" /\ page < RelroPages(bootloader_data) -> {table}
      [] phase = "main2" ->
            {bootloader_data.self, bootloader_data.RT, new_stack} \cup
            KernelPages(bootloader_data)
      [] OTHER -> {}

Resident(v) ==
    IF cr3 = BOOT THEN v \in BootWindow(bootloader_data)
    ELSE Mapped(mem, cr3, v)

\* The kernel is at p and every page its next step touches is there.
At(p) == phase = p /\ \A v \in Touched : Resident(v)

Stopped == phase \in {"nomem", "remap", "assert", "fault", "shutdown"}
-----------------------------------------------------------------------------
(***************************************************************************)
(* Initial states and actions.                                             *)
(***************************************************************************)
Init ==
    /\ phase = "kernel_main"
    /\ bootloader_data \in BootloaderData
    /\ apic_vaddr \in Garbage
    /\ mem = [f \in Frame |-> ZeroPage]
    /\ free_list \in Garbage
    /\ new_stack = NULL /\ address_space = NULL
    /\ call = 1 /\ page = 0 /\ relro = 0
    /\ table = NULL /\ level = 4
    /\ cr3 = BOOT
    /\ role = [f \in Frame |-> Unused]

\* Mutant: .bss is not cleared.
KernelMain_KeepsBss ==
    /\ At("kernel_main")
    /\ apic_vaddr' = bootloader_data.mmio_base - 1
    /\ phase' = "free"
    /\ UNCHANGED <<bootloader_data, mem, free_list, new_stack, address_space,
                   loop, walk, cr3, role>>

\* kernel_main clears .bss, keeps bootloader_data and calls init_cpu, whose
\* init_apic (src/x86.c:28-38) puts the window on the APIC below the MMIO segments.
KernelMain ==
    /\ At("kernel_main")
    /\ free_list' = NULL
    /\ apic_vaddr' = bootloader_data.mmio_base - 1
    /\ phase' = "free"
    /\ UNCHANGED <<bootloader_data, mem, new_stack, address_space, loop,
                   walk, cr3, role>>

\* Mutant: the loop frees one page too many.
FreeInitialPage_TooFar ==
    LET ptr == bootloader_data.free_memory + page IN
    /\ At("free")
    /\ page <= bootloader_data.n_pages
    /\ mem' = FreePhysicalPage(mem, bootloader_data.paddr_base, ptr, free_list)
    /\ free_list' = ptr
    /\ role' = [role EXCEPT ![FrameOf(ptr)] = FreePage]
    /\ page' = page + 1
    /\ UNCHANGED <<phase, bootloader_data, apic_vaddr, new_stack, address_space,
                   call, relro, walk, cr3>>

\* One iteration of the loop that frees the initial memory.
FreeInitialPage ==
    LET ptr == bootloader_data.free_memory + page IN
    /\ At("free")
    /\ page < bootloader_data.n_pages
    /\ mem' = FreePhysicalPage(mem, bootloader_data.paddr_base, ptr, free_list)
    /\ free_list' = ptr
    /\ role' = [role EXCEPT ![FrameOf(ptr)] = FreePage]
    /\ page' = page + 1
    /\ UNCHANGED <<phase, bootloader_data, apic_vaddr, new_stack, address_space,
                   call, relro, walk, cr3>>

InitialPagesFreed ==
    /\ At("free")
    /\ page >= bootloader_data.n_pages
    /\ phase' = "stack"
    /\ UNCHANGED <<bootloader_data, apic_vaddr, mem, free_list, new_stack,
                   address_space, loop, walk, cr3, role>>

\* allocate_physical_page(flags) takes the head of the list and puts it to the
\* use r; the caller gets Allocated(flags).
Allocated(flags) == Returned(bootloader_data.paddr_base, free_list, flags)
TakePage(r) ==
    /\ free_list # NULL
    /\ free_list' = NextFree(mem, bootloader_data.paddr_base, free_list)
    /\ role' = [role EXCEPT ![FrameOf(free_list)] = r]
AfterAllocate(flags) ==
    AllocatePhysicalPage(mem, bootloader_data.paddr_base, free_list, flags)

\* The stack of main2.  What main2 keeps there is not modelled.
AllocateStack ==
    /\ At("stack")
    /\ TakePage(StackPage)
    /\ mem' = AfterAllocate(APP_NORMAL)
    /\ new_stack' = Allocated(APP_NORMAL)
    /\ phase' = "root"
    /\ UNCHANGED <<bootloader_data, apic_vaddr, address_space, loop, walk,
                   cr3>>

\* new_address_space allocates the root table.
AllocateRoot ==
    /\ At("root")
    /\ TakePage(TablePage(4, NoPath))
    /\ mem' = AfterAllocate({"APP_ZERO"})
    /\ address_space' = Allocated({"APP_ZERO"})
    /\ table' = address_space' /\ level' = 4
    /\ page' = 0
    /\ phase' = "map"
    /\ UNCHANGED <<bootloader_data, apic_vaddr, new_stack, call, relro, cr3>>

\* map_range returns: the next call, or the RELRO loop after the last one.
MapRangeReturns ==
    /\ At("map")
    /\ page >= Call.n
    /\ call' = call + 1
    /\ page' = 0
    /\ relro' = RelroAfter(bootloader_data, call)
    /\ phase' = IF call = NumCalls(bootloader_data) THEN "relro" ELSE "map"
    /\ UNCHANGED <<bootloader_data, apic_vaddr, mem, free_list, new_stack,
                   address_space, walk, cr3, role>>

\* Mutants: one of the loops runs one page too far.
Walking_MapTooFar ==
    \/ phase = "map" /\ page <= Call.n
    \/ phase = "relro" /\ page < RelroPages(bootloader_data)
Walking_RelroTooFar ==
    \/ phase = "map" /\ page < Call.n
    \/ phase = "relro" /\ relro # 0 /\ page <= RelroPages(bootloader_data)

\* map_page or set_vpage_ro is at an entry, and not past the last page.
Walking ==
    \/ phase = "map" /\ page < Call.n
    \/ phase = "relro" /\ page < RelroPages(bootloader_data)

\* Both follow a present entry to the table below.
EnterTable ==
    /\ At(phase) /\ Walking
    /\ level > 1
    /\ entry.p
    /\ table' = NextPageLevel(entry)
    /\ level' = level - 1
    /\ UNCHANGED <<phase, bootloader_data, apic_vaddr, mem, free_list, new_stack,
                   address_space, loop, cr3, role>>

\* map_page makes the missing table and goes on in it.
MakeTable ==
    /\ At("map") /\ Walking
    /\ level > 1
    /\ ~entry.p
    /\ TakePage(TablePage(level - 1, Path(vpage, level - 1)))
    /\ mem' = [AfterAllocate({"APP_PTE"}) EXCEPT
                  ![FrameOf(table)][PAGE_LEVEL_INDEX(vpage, level)] =
                      Pte(Allocated({"APP_PTE"}), TRUE)]
    /\ table' = bootloader_data.paddr_base + Allocated({"APP_PTE"})
    /\ level' = level - 1
    /\ UNCHANGED <<phase, bootloader_data, apic_vaddr, new_stack, address_space,
                   loop, cr3>>

\* Mutant: the next page starts where the last one ended.
NextPage_StaysInTable ==
    /\ page' = page + 1
    /\ UNCHANGED walk

\* The page is finished; the next one starts at the root.
NextPage ==
    /\ page' = page + 1
    /\ table' = address_space
    /\ level' = 4

\* Mutant: the remap check is missing.
MapPage_Unchecked ==
    /\ At("map") /\ Walking
    /\ level = 1
    /\ mem' = [mem EXCEPT ![FrameOf(table)][PAGE_LEVEL_INDEX(vpage, 1)] =
                              Pte(Call.ppage + page, Call.rw)]
    /\ NextPage
    /\ UNCHANGED <<phase, bootloader_data, apic_vaddr, free_list, new_stack,
                   address_space, call, relro, cr3, role>>

\* map_page writes the leaf.
MapPage ==
    /\ At("map") /\ Walking
    /\ level = 1
    /\ ~entry.p
    /\ mem' = [mem EXCEPT ![FrameOf(table)][PAGE_LEVEL_INDEX(vpage, 1)] =
                              Pte(Call.ppage + page, Call.rw)]
    /\ NextPage
    /\ UNCHANGED <<phase, bootloader_data, apic_vaddr, free_list, new_stack,
                   address_space, call, relro, cr3, role>>

\* set_vpage_ro clears PTE_RW in the leaf.
SetVpageRo ==
    /\ At("relro") /\ Walking
    /\ level = 1
    /\ entry.p
    /\ mem' = [mem EXCEPT
                  ![FrameOf(table)][PAGE_LEVEL_INDEX(vpage, 1)] = ReadOnly(entry)]
    /\ NextPage
    /\ UNCHANGED <<phase, bootloader_data, apic_vaddr, free_list, new_stack,
                   address_space, call, relro, cr3, role>>

\* new_address_space returns.
AddressSpaceDone ==
    /\ At("relro")
    /\ page >= RelroPages(bootloader_data)
    /\ phase' = "set_cr3"
    /\ UNCHANGED <<bootloader_data, apic_vaddr, mem, free_list, new_stack,
                   address_space, loop, walk, cr3, role>>

\* Mutant: the pointer is loaded, not the physical page.
SetCr3_Virtual ==
    /\ At("set_cr3")
    /\ cr3' = address_space
    /\ phase' = "main2"
    /\ UNCHANGED <<bootloader_data, apic_vaddr, mem, free_list, new_stack,
                   address_space, loop, walk, role>>

\* main2 switches to the new address space.
SetCr3 ==
    /\ At("set_cr3")
    /\ cr3' = FrameOf(address_space)
    /\ phase' = "main2"
    /\ UNCHANGED <<bootloader_data, apic_vaddr, mem, free_list, new_stack,
                   address_space, loop, walk, role>>

\* main2 raises an interrupt and a breakpoint, both of which return, and calls
\* ResetSystem, which does not.
ResetSystem ==
    /\ At("main2")
    /\ phase' = "shutdown"
    /\ UNCHANGED <<bootloader_data, apic_vaddr, mem, free_list, new_stack,
                   address_space, loop, walk, cr3, role>>

\* The calls of halt(): the list is empty when a page is needed, map_page finds
\* the page mapped, set_vpage_ro finds an entry missing.
NoMemory ==
    \/ phase \in {"stack", "root"} /\ free_list = NULL
    \/ phase = "map" /\ Walking /\ level > 1 /\ ~entry.p /\ free_list = NULL
Remap == phase = "map" /\ Walking /\ level = 1 /\ entry.p
Missing == phase = "relro" /\ Walking /\ ~entry.p

Halt ==
    /\ At(phase)
    /\ \/ NoMemory /\ phase' = "nomem"
       \/ Remap /\ phase' = "remap"
       \/ Missing /\ phase' = "assert"
    /\ UNCHANGED <<bootloader_data, apic_vaddr, mem, free_list, new_stack,
                   address_space, loop, walk, cr3, role>>

\* A page that is not resident is touched: the handler of the page fault
\* returns to the instruction, which faults again.
PageFault ==
    /\ ~ \A v \in Touched : Resident(v)
    /\ phase' = "fault"
    /\ UNCHANGED <<bootloader_data, apic_vaddr, mem, free_list, new_stack,
                   address_space, loop, walk, cr3, role>>

\* halt() loops, the fault repeats, or the machine is off.
Hang == Stopped /\ UNCHANGED vars

Next ==
    \/ KernelMain \/ FreeInitialPage \/ InitialPagesFreed \/ AllocateStack
    \/ AllocateRoot \/ MapRangeReturns \/ EnterTable \/ MakeTable \/ MapPage
    \/ SetVpageRo \/ AddressSpaceDone \/ SetCr3 \/ ResetSystem \/ Halt
    \/ PageFault \/ Hang

Spec == Init /\ [][Next]_vars

\* The processor executes the kernel's next instruction.
FairSpec == Spec /\ WF_vars(Next)
-----------------------------------------------------------------------------
Phase == {"kernel_main", "free", "stack", "root", "map", "relro", "set_cr3",
          "main2", "nomem", "remap", "assert", "fault", "shutdown"}

\* The phases are those of kernel_main, main2 and new_address_space, pages hold
\* words, and what cr3 names is RAM.
TypeOK ==
    /\ phase \in Phase
    /\ bootloader_data \in BootloaderData
    /\ apic_vaddr \in Nat
    /\ mem \in [Frame -> Page]
    /\ free_list \in Nat
    /\ new_stack \in Nat /\ address_space \in Nat
    /\ call \in Nat /\ page \in Nat
    /\ relro \in 0 .. Len(bootloader_data.phdrs)
    /\ table \in Nat /\ level \in Level
    /\ cr3 \in Frame \cup {BOOT}
    /\ role \in [Frame -> Role]

\* Once .bss is clear the free list (free_list and the next words in the free
\* pages) holds exactly the initial pages that were freed and not taken since,
\* from the last one freed down to the first: no page table the kernel writes
\* and no stack is on the list, and writing tables never cuts it.
FreeListIntact ==
    LET b == bootloader_data IN
    phase # "kernel_main" =>
       /\ free_list \in {NULL} \cup FreeMemory(b)
       /\ \A f \in Frame :
             role[f] = FreePage <=> /\ b.paddr_base + f \in FreeMemory(b)
                                    /\ b.paddr_base + f <= free_list
       /\ \A f \in Frame : role[f] = FreePage =>
             mem[f][0].addr = IF b.paddr_base + f = b.free_memory THEN NULL
                              ELSE b.paddr_base + f - 1

IsTable(f) == role[f].use = "table"
Child(r, i) == TablePage(r.level - 1, [r.path EXCEPT ![r.level] = i])

\* The path to a table ends at its level.
PathsEnd ==
    \A f \in Frame : IsTable(f) =>
       /\ role[f].level \in Level
       /\ \A l \in 1 .. role[f].level : role[f].path[l] = 0

\* No two frames are the table of the same path.
OneTablePerPath ==
    \A f, g \in Frame : IsTable(f) /\ IsTable(g) /\ role[f] = role[g] => f = g

\* An entry of a table above level 1 is clear or names, writable, the table its
\* index leads to.
EntriesLeadDown ==
    \A f \in Frame : IsTable(f) /\ role[f].level > 1 =>
       \A i \in Index :
          \/ mem[f][i] = Zero
          \/ \E g \in Frame : mem[f][i] = Pte(g, TRUE) /\ role[g] = Child(role[f], i)

\* A table below the root is entered from its parent.
TablesAreEntered ==
    \A g \in Frame : IsTable(g) /\ role[g].level < 4 =>
       \E f \in Frame, i \in Index :
          /\ IsTable(f)
          /\ role[g] = Child(role[f], i)
          /\ mem[f][i] = Pte(g, TRUE)

\* The page tables under construction form a tree (map_page and its
\* NEXT_PAGE_LEVEL), whatever pages are mapped in whatever order: no table is
\* shared, leaked, left with stale entries, or aliased by a stack or free page.
TablesFormTree ==
    PathsEnd /\ OneTablePerPath /\ EntriesLeadDown /\ TablesAreEntered

\* map_page and set_vpage_ro never lose their way: at every entry they read or
\* write they are in the table that the indexes of their page lead to from the
\* root, and before the first and after the last page they are at the root.
WalkOnPath ==
    phase \in {"map", "relro"} =>
       /\ FrameOf(table) \in Frame
       /\ FrameOf(address_space) \in Frame
       /\ role[FrameOf(address_space)] = TablePage(4, NoPath)
       /\ Walking => role[FrameOf(table)] = TablePage(level, Path(vpage, level))
       /\ ~Walking => table = address_space /\ level = 4
-----------------------------------------------------------------------------
(***************************************************************************)
(* What the tables translate, compared with what was asked for.            *)
(***************************************************************************)
RangeOf(c) == MapRangeCall(bootloader_data, apic_vaddr, c)

\* The pages map_page has finished, as pairs of a call and a page of its range.
Completed ==
    {p \in UNION {{c} \X (0 .. RangeOf(c).n - 1) :
                     c \in 1 .. NumCalls(bootloader_data)} :
        p[1] < call \/ (p[1] = call /\ p[2] < page)}

\* The pages set_vpage_ro has finished.
Protected ==
    IF call > NumCalls(bootloader_data)
    THEN {bootloader_data.phdrs[relro].vpage + k : k \in 0 .. page - 1} ELSE {}

\* At every step the walk of the processor over the tables new_address_space
\* has written so far reaches exactly the pages asked for so far, each at the
\* frame and with the permission asked for: no map_page call disturbs another
\* page, whichever tables the two share.
TranslationExact ==
    address_space # NULL =>
       LET T == Translation(mem, FrameOf(address_space))
           V(p) == RangeOf(p[1]).vpage + p[2]
       IN  /\ DOMAIN T = {V(p) : p \in Completed}
           /\ \A p \in Completed :
                 T[V(p)] = [addr |-> RangeOf(p[1]).ppage + p[2],
                            rw   |-> RangeOf(p[1]).rw /\ V(p) \notin Protected]

\* The tables needed for all ranges of a handover, the root aside.
TablesNeeded(b) ==
    {<<l, Path(v, l)>> : l \in 1 .. 3,
        v \in UNION {Pages(RangeOf(c)) : c \in 1 .. NumCalls(b)}}

Disjoint(b) ==
    \A c, d \in 1 .. NumCalls(b) :
       c # d => Pages(RangeOf(c)) \cap Pages(RangeOf(d)) = {}

\* The last RELRO segment lies in the mapped ranges.
RelroMapped(b) ==
    LET Relros == {i \in 1 .. Len(b.phdrs) : b.phdrs[i].p_type = "PT_GNU_RELRO"}
    IN  \A i \in Relros : (\A j \in Relros : j <= i) =>
           \A k \in 0 .. NUM_PAGES(b.phdrs[i].offset, b.phdrs[i].p_memsz) - 1 :
              b.phdrs[i].vpage + k \in
                 UNION {Pages(RangeOf(c)) : c \in 1 .. NumCalls(b)}

\* The remap check of map_page says the truth: it fires only when two ranges of
\* the handover overlap, never because of tables the ranges share.
RemapMeansOverlap == phase = "remap" => ~Disjoint(bootloader_data)

\* So do the other calls of halt() in virtual-memory.c: the asserts of
\* set_vpage_ro fire only when RELRO reaches outside the mapped pages, and the
\* kernel runs out of memory only when the initial pages are fewer than its
\* stack, the root and the tables that the layout needs.
HaltsTruthfully ==
    /\ phase = "assert" => ~RelroMapped(bootloader_data)
    /\ phase = "nomem" =>
          bootloader_data.n_pages < 2 + Cardinality(TablesNeeded(bootloader_data))

\* What doc/boot.md (step 4) says of the boot page tables, that bootloader_data
\* is mapped: the entry of MemoryMap that new_address_space comes to can be
\* read.
BootloaderDataMapped ==
    phase = "map" /\ call - 3 \in 1 .. Len(bootloader_data.MemoryMap) =>
       Resident(MemoryMapPage(bootloader_data, call - 3))

\* set_cr3 pulls nothing from under the running kernel: under the new tables
\* the pages it was using through the boot tables (bootloader_data, the free
\* pages and with them its stack and every table, each byte of its image) are
\* at the frames they were at, its stack can be written, and of the image
\* exactly what has PF_W and is not RELRO.
SeamlessSwitch ==
    cr3 # BOOT =>
       LET T == Translation(mem, cr3) IN
       /\ \A v \in BootWindow(bootloader_data) :
             v \in DOMAIN T /\ T[v] = [addr |-> FrameOf(v), rw |-> TRUE]
       /\ \A i \in 1 .. Len(bootloader_data.phdrs) :
             LET h == bootloader_data.phdrs[i] IN
             \A k \in 0 .. h.p_memsz - 1 : h.p_type = "PT_LOAD" =>
                LET n == (h.offset + k) \div PAGE_SIZE
                    v == h.vpage + n
                IN  /\ v \in DOMAIN T
                    /\ T[v].addr = h.ppage + n
                    /\ T[v].rw <=> h.writable /\ v \notin Protected
       /\ new_stack \in BootWindow(bootloader_data)

\* new_address_space implements the abstract address space: mappings are added
\* one page at a time, none is replaced, RELRO only takes the permission to
\* write away, and after set_cr3 nothing changes.
Space == INSTANCE AddressSpace WITH
    map <- IF address_space = NULL THEN << >>
           ELSE Translation(mem, FrameOf(address_space)),
    active <- cr3 # BOOT
ImplementsAddressSpace == Space!Spec

\* A handover the kernel can live with: ranges apart, RELRO inside them, enough
\* pages, a memory map that ends in the first page of the struct, and runtime
\* services in one of the ranges.
Adequate(b) ==
    /\ Disjoint(b) /\ RelroMapped(b)
    /\ b.n_pages >= 2 + Cardinality(TablesNeeded(b))
    /\ Len(b.MemoryMap) <= DESCRIPTORS
    /\ \E c \in 1 .. NumCalls(b) : b.RT \in Pages(RangeOf(c))

\* From an adequate handover the kernel gets through new_address_space, the
\* switch and main2 to the shutdown; nothing on the way waits or loops.
AdequateShutsDown ==
    (phase = "free" /\ Adequate(bootloader_data)) ~> (phase = "shutdown")
=============================================================================
