------------------------ MODULE KernelMemoryProofs ------------------------
(***************************************************************************)
(* The kernel's page tables are sound for any geometry of the tables, any  *)
(* set of handovers and any contents of .bss; and what the processor makes *)
(* of them: its walk over the tree reaches exactly the pages asked for, so *)
(* that new_address_space implements the abstract address space.           *)
(***************************************************************************)
EXTENDS KernelMemory, FiniteSetTheorems, TLAPS

(***************************************************************************)
(* What the invariants below need to know about the progress of the code.  *)
(***************************************************************************)
Progress ==
    LET b == bootloader_data IN
    /\ phase # "kernel_main" => apic_vaddr = b.mmio_base - 1
    /\ phase = "kernel_main" => page = 0 /\ \A f \in Frame : role[f] # FreePage
    /\ phase = "free" =>
          /\ page <= b.n_pages
          /\ free_list = IF page = 0 THEN NULL ELSE b.free_memory + page - 1
    /\ phase = "map" => call \in 1 .. NumCalls(b)
    /\ phase \in {"kernel_main", "free", "stack", "root"} =>
          call = 1 /\ \A f \in Frame : ~IsTable(f)
    /\ phase = "set_cr3" => FrameOf(address_space) \in Frame

IInv ==
    /\ TypeOK
    /\ Progress
    /\ FreeListIntact
    /\ TablesFormTree
    /\ WalkOnPath
-----------------------------------------------------------------------------
(***************************************************************************)
(* Words, indexes and paths.                                               *)
(***************************************************************************)
LEMMA WordTypes ==
    /\ Zero \in Word /\ ZeroPage \in Page /\ 0 \in Index
    /\ \A a \in Nat : Pointer(a) \in Word
    /\ \A a \in Nat, rw \in BOOLEAN : Pte(a, rw) \in Word
    /\ \A w \in Word : ReadOnly(w) \in Word
  BY PagingAssumption DEF Zero, ZeroPage, Index, Word, Page, Pointer, Pte, ReadOnly

\* An index of a table is one of its entries.
LEMMA IndexType ==
    ASSUME NEW v \in Nat, NEW l \in Level
    PROVE  PAGE_LEVEL_INDEX(v, l) \in Index
<1>1. \A n \in Nat : n \div ENTRIES \in Nat /\ n % ENTRIES \in Index
  BY PagingAssumption DEF Index
<1>2. Shifted(v, l) \in Nat
  BY <1>1 DEF Shifted, Level
<1> QED
  BY <1>1, <1>2 DEF PAGE_LEVEL_INDEX

\* Nothing leads to the root.
LEMMA RootPath == /\ NoPath \in [Level -> Index]
                  /\ \A v : Path(v, 4) = NoPath
                  /\ \A l \in Level : NoPath[l] = 0
  BY WordTypes DEF NoPath, Path, Level

\* The path of a table below another one adds one index to it.
LEMMA PathProperties ==
    ASSUME NEW v \in Nat
    PROVE  /\ \A l \in Level : Path(v, l) \in [Level -> Index]
           /\ \A l \in Level : \A m \in 1 .. l : Path(v, l)[m] = 0
           /\ \A l \in 2 .. 4 :
                 [Path(v, l) EXCEPT ![l] = PAGE_LEVEL_INDEX(v, l)] = Path(v, l - 1)
<1>1. 0 \in Index
  BY WordTypes
<1>2. \A l \in Level : Path(v, l) \in [Level -> Index]
  BY <1>1, IndexType DEF Path
<1>4. \A l \in Level : \A m \in 1 .. l : Path(v, l)[m] = 0
  BY DEF Path, Level
<1>5. \A l \in 2 .. 4 :
         [Path(v, l) EXCEPT ![l] = PAGE_LEVEL_INDEX(v, l)] = Path(v, l - 1)
  <2> SUFFICES ASSUME NEW l \in 2 .. 4
               PROVE  [Path(v, l) EXCEPT ![l] = PAGE_LEVEL_INDEX(v, l)]
                         = Path(v, l - 1)
    OBVIOUS
  <2>1. \A m \in Level : (m > l - 1) <=> (m > l \/ m = l)
    BY DEF Level
  <2>2. l \in Level
    BY DEF Level
  <2> QED
    BY <2>1, <2>2 DEF Path
<1> QED
  BY <1>2, <1>4, <1>5

\* The roles are told apart.
LEMMA RoleTypes ==
    /\ Unused \in Role /\ FreePage \in Role /\ StackPage \in Role
    /\ \A l \in Level : \A p \in [Level -> Index] : TablePage(l, p) \in Role
    /\ \A l, p : TablePage(l, p).use = "table" /\ TablePage(l, p) # FreePage
    /\ FreePage.use # "table" /\ StackPage # FreePage /\ StackPage.use # "table"
    /\ Unused # FreePage /\ Unused.use # "table"
  BY RootPath DEF Unused, FreePage, StackPage, TablePage, Role, Level
-----------------------------------------------------------------------------
(***************************************************************************)
(* The handover and the ranges it asks for.                                *)
(***************************************************************************)
LEMMA HandoverTypes ==
    ASSUME NEW b \in BootloaderData
    PROVE  /\ b.self \in Nat /\ b.free_memory \in Nat /\ b.n_pages \in Nat
           /\ b.paddr_base \in Nat \ {0} /\ b.mmio_base \in Nat \ {0}
           /\ b.MemoryMap \in Seq(Descriptor) /\ b.phdrs \in Seq(Phdr)
           /\ b.paddr_base <= b.self /\ b.paddr_base <= b.free_memory
           /\ \A v \in FreeMemory(b) : v - b.paddr_base \in Frame /\ v \in Nat \ {0}
           /\ \A f \in Frame : f \in Nat
<1>1. b \in Handover
  BY KernelAssumption
<1>2. \A v \in FreeMemory(b) : v - b.paddr_base \in Frame /\ v \in Nat \ {0}
  <2> SUFFICES ASSUME NEW v \in FreeMemory(b)
               PROVE  v - b.paddr_base \in Frame /\ v \in Nat \ {0}
    OBVIOUS
  <2>1. v - b.free_memory \in 0 .. b.n_pages - 1 /\ v \in Nat /\ v >= b.free_memory
    BY <1>1 DEF Handover, FreeMemory
  <2>2. (b.free_memory + (v - b.free_memory)) - b.paddr_base \in Frame
    BY <2>1, KernelAssumption
  <2> QED
    BY <1>1, <2>1, <2>2, KernelAssumption DEF Handover
<1> QED
  BY <1>1, <1>2, KernelAssumption DEF Handover

RangeType == [ppage : Nat, vpage : Nat, n : Int, rw : BOOLEAN]

\* A range has a number of pages.
LEMMA NumPagesType ==
    ASSUME NEW offset \in 0 .. PAGE_SIZE - 1, NEW size \in Nat
    PROVE  NUM_PAGES(offset, size) \in Int
  BY PagingAssumption DEF NUM_PAGES

\* map_range is called at least three times.
LEMMA NumCallsType ==
    ASSUME NEW b \in BootloaderData
    PROVE  /\ Len(b.MemoryMap) \in Nat /\ Len(b.phdrs) \in Nat
           /\ NumCalls(b) \in Nat /\ NumCalls(b) >= 3
<1>1. b.MemoryMap \in Seq(Descriptor) /\ b.phdrs \in Seq(Phdr)
  BY HandoverTypes
<1> DEFINE n == Len(b.MemoryMap)
           k == Len(b.phdrs)
<1>2. n \in Nat /\ k \in Nat
  BY <1>1
<1>3. NumCalls(b) = 3 + n + k
  BY DEF NumCalls
<1> HIDE DEF n, k
<1>4. NumCalls(b) \in Nat /\ NumCalls(b) >= 3
  BY <1>2, <1>3
<1> QED
  BY <1>2, <1>4 DEF n, k

\* What a call of map_range is given.
LEMMA RangeTypes ==
    ASSUME NEW b \in BootloaderData, NEW apic \in Nat, NEW c \in 1 .. NumCalls(b)
    PROVE  MapRangeCall(b, apic, c) \in RangeType
<1>1. \A m \in Descriptor : RuntimeRange(m) \in RangeType
  BY DEF Descriptor, RuntimeRange, PageRange, RangeType
<1>2. \A h \in Phdr : KernelRange(h) \in RangeType
  BY NumPagesType DEF Phdr, KernelRange, PageRange, RangeType
<1> DEFINE n == Len(b.MemoryMap)
           k == Len(b.phdrs)
           i == (c - 3) - n
<1>3. n \in Nat /\ k \in Nat /\ c \in 1 .. (3 + n) + k
  <2>1. b.MemoryMap \in Seq(Descriptor) /\ b.phdrs \in Seq(Phdr)
    BY HandoverTypes
  <2>2. n \in Nat /\ k \in Nat
    BY <2>1
  <2>3. c \in 1 .. (3 + n) + k
    BY DEF NumCalls
  <2> QED
    BY <2>2, <2>3
<1>4. CASE c \in {1, 2, 3}
  BY <1>4, HandoverTypes, KernelAssumption DEF MapRangeCall, PageRange, RangeType
<1>5. CASE c > 3 /\ c <= 3 + n
  <2>1. c - 3 \in 1 .. n
    BY <1>3, <1>5
  <2>2. b.MemoryMap[c - 3] \in Descriptor
    BY <2>1, HandoverTypes
  <2>3. MapRangeCall(b, apic, c) = RuntimeRange(b.MemoryMap[c - 3])
    <3> HIDE DEF n
    <3>1. c # 1 /\ c # 2 /\ c # 3
      BY <1>5, <1>3
    <3> QED
      BY <1>5, <3>1 DEF MapRangeCall, n
  <2> QED
    BY <1>1, <2>2, <2>3
<1>6. CASE c > 3 + n
  <2>1. i \in 1 .. k
    <3> HIDE DEF n, k
    <3> QED
      BY <1>3, <1>6
  <2>2. b.phdrs[i] \in Phdr
    <3>1. b.phdrs \in Seq(Phdr)
      BY HandoverTypes
    <3> HIDE DEF i
    <3> QED
      BY <2>1, <3>1
  <2>3. MapRangeCall(b, apic, c) = KernelRange(b.phdrs[i])
    <3> HIDE DEF n
    <3>1. c # 1 /\ c # 2 /\ c # 3 /\ ~(c <= 3 + n)
      BY <1>3, <1>6
    <3> QED
      BY <3>1 DEF MapRangeCall, n
  <2> QED
    BY <1>2, <2>2, <2>3
<1> QED
  BY <1>3, <1>4, <1>5, <1>6
-----------------------------------------------------------------------------
(***************************************************************************)
(* Facts about the states the invariant allows.                            *)
(***************************************************************************)
\* The ranges of the calls are typed, and so are the segments.
LEMMA StateTypes ==
    ASSUME IInv
    PROVE  /\ bootloader_data \in BootloaderData
           /\ phase = "map" => Call \in RangeType
           /\ relro # 0 => bootloader_data.phdrs[relro] \in Phdr
           /\ RelroPages(bootloader_data) \in Int
<1>1. bootloader_data \in BootloaderData
  BY DEF IInv, TypeOK
<1>2. phase = "map" => Call \in RangeType
  BY <1>1, RangeTypes DEF IInv, TypeOK, Progress, Call
<1>3. relro # 0 => bootloader_data.phdrs[relro] \in Phdr
  <2>1. bootloader_data.phdrs \in Seq(Phdr)
    BY <1>1, HandoverTypes
  <2>2. relro \in 0 .. Len(bootloader_data.phdrs)
    BY DEF IInv, TypeOK
  <2> QED
    BY <2>1, <2>2
<1>4. RelroPages(bootloader_data) \in Int
  <2>1. CASE relro = 0
    BY <2>1 DEF RelroPages
  <2>2. CASE relro # 0
    <3>1. bootloader_data.phdrs[relro].offset \in 0 .. PAGE_SIZE - 1
          /\ bootloader_data.phdrs[relro].p_memsz \in Nat
      BY <1>3, <2>2 DEF Phdr
    <3> QED
      BY <2>2, <3>1, NumPagesType DEF RelroPages
  <2> QED
    BY <2>1, <2>2
<1> QED
  BY <1>1, <1>2, <1>3, <1>4

\* A walk is in a table of its page's path, at an entry of it.
LEMMA WalkFacts ==
    ASSUME IInv, Walking
    PROVE  /\ vpage \in Nat /\ level \in Level
           /\ FrameOf(table) \in Frame
           /\ role[FrameOf(table)] = TablePage(level, Path(vpage, level))
           /\ role[FrameOf(table)] # FreePage /\ IsTable(FrameOf(table))
           /\ PAGE_LEVEL_INDEX(vpage, level) \in Index
           /\ mem[FrameOf(table)] \in Page
           /\ entry = mem[FrameOf(table)][PAGE_LEVEL_INDEX(vpage, level)]
           /\ entry \in Word
<1>1. vpage \in Nat
  <2>1. CASE phase = "map"
    <3>1. Call.vpage \in Nat /\ page \in Nat
      BY <2>1, StateTypes DEF RangeType, IInv, TypeOK
    <3> QED
      BY <2>1, <3>1 DEF vpage
  <2>2. CASE phase = "relro"
    <3>1. relro # 0 /\ page \in Nat
      BY <2>2 DEF Walking, RelroPages, IInv, TypeOK
    <3>2. bootloader_data.phdrs[relro].vpage \in Nat
      BY <3>1, StateTypes DEF Phdr
    <3> QED
      BY <2>2, <3>1, <3>2 DEF vpage
  <2> QED
    BY <2>1, <2>2 DEF Walking
<1>2. level \in Level
  BY DEF IInv, TypeOK
<1>3. /\ FrameOf(table) \in Frame
      /\ role[FrameOf(table)] = TablePage(level, Path(vpage, level))
  BY DEF Walking, IInv, WalkOnPath
<1>4. PAGE_LEVEL_INDEX(vpage, level) \in Index
  BY <1>1, <1>2, IndexType
<1>5. mem[FrameOf(table)] \in Page
  BY <1>3 DEF IInv, TypeOK
<1>6. entry \in Word
  BY <1>4, <1>5 DEF entry, Page
<1> QED
  BY <1>1, <1>2, <1>3, <1>4, <1>5, <1>6, RoleTypes DEF IsTable, entry

\* The head of the free list is a free page, and the list goes on with the page
\* before it.
LEMMA HeadIsFree ==
    ASSUME IInv, phase # "kernel_main", free_list # NULL
    PROVE  /\ FrameOf(free_list) \in Frame
           /\ bootloader_data.paddr_base + FrameOf(free_list) = free_list
           /\ free_list \in FreeMemory(bootloader_data)
           /\ role[FrameOf(free_list)] = FreePage
           /\ NextFree(mem, bootloader_data.paddr_base, free_list) =
                 IF free_list = bootloader_data.free_memory THEN NULL
                 ELSE free_list - 1
<1>1. bootloader_data \in BootloaderData
  BY StateTypes
<1>2. free_list \in FreeMemory(bootloader_data)
  BY DEF IInv, FreeListIntact
<1>3. FrameOf(free_list) \in Frame /\ free_list \in Nat
  BY <1>1, <1>2, HandoverTypes DEF FrameOf
<1>4. bootloader_data.paddr_base + FrameOf(free_list) = free_list
  BY <1>1, <1>3, HandoverTypes DEF FrameOf
<1>5. role[FrameOf(free_list)] = FreePage
  BY <1>2, <1>3, <1>4 DEF IInv, FreeListIntact
<1>6. mem[FrameOf(free_list)][0].addr =
         IF free_list = bootloader_data.free_memory THEN NULL ELSE free_list - 1
  <2>1. \A f \in Frame : role[f] = FreePage =>
           mem[f][0].addr =
              IF bootloader_data.paddr_base + f = bootloader_data.free_memory
              THEN NULL ELSE bootloader_data.paddr_base + f - 1
    BY DEF IInv, FreeListIntact
  <2> QED
    BY <1>1, <1>3, <1>4, <1>5, <2>1, HandoverTypes DEF NULL
<1> QED
  BY <1>2, <1>3, <1>4, <1>5, <1>6 DEF NextFree, FrameOf
-----------------------------------------------------------------------------
(***************************************************************************)
(* Steps that leave the tables and the list alone.                         *)
(***************************************************************************)
LEMMA TablesUnchanged ==
    ASSUME TablesFormTree, UNCHANGED <<mem, role>> PROVE TablesFormTree'
  BY DEF TablesFormTree, PathsEnd, OneTablePerPath, EntriesLeadDown, TablesAreEntered,
         IsTable, Child

\* The free list depends on the pages that are on it.
LEMMA ListUnchanged ==
    ASSUME FreeListIntact, phase # "kernel_main",
           UNCHANGED <<mem, role, free_list, bootloader_data>>
    PROVE  FreeListIntact'
  BY DEF FreeListIntact

\* The invariant holds at the entry of kernel_main.
LEMMA InitEstablishes == Init => IInv
<1> SUFFICES ASSUME Init PROVE IInv
  OBVIOUS
<1>1. TypeOK
  <2>1. bootloader_data.phdrs \in Seq(Phdr)
    BY HandoverTypes DEF Init
  <2>2. relro \in 0 .. Len(bootloader_data.phdrs)
    BY <2>1 DEF Init
  <2> QED
    BY <2>2, WordTypes, RoleTypes, KernelAssumption
    DEF Init, TypeOK, Phase, Level, NULL, BOOT
<1>2. Progress
  BY RoleTypes DEF Init, Progress, IsTable
<1>3. FreeListIntact /\ WalkOnPath
  BY DEF Init, FreeListIntact, WalkOnPath
<1>4. TablesFormTree
  BY RoleTypes DEF Init, TablesFormTree, PathsEnd, OneTablePerPath,
                   EntriesLeadDown, TablesAreEntered, IsTable
<1> QED
  BY <1>1, <1>2, <1>3, <1>4 DEF IInv

\* kernel_main takes over the bootloader data.
LEMMA KernelMainPreserves == ASSUME IInv, KernelMain PROVE IInv'
<1>1. bootloader_data \in BootloaderData
  BY StateTypes
<1>2. TypeOK'
  BY <1>1, HandoverTypes DEF IInv, TypeOK, KernelMain, At, walk, loop, Phase, NULL
<1>3. Progress'
  BY <1>1, HandoverTypes
  DEF IInv, TypeOK, Progress, KernelMain, At, walk, loop, NULL, IsTable
<1>4. FreeListIntact'
  BY <1>1, HandoverTypes
  DEF IInv, TypeOK, Progress, KernelMain, At, FreeListIntact, NULL
<1>5. TablesFormTree'
  BY TablesUnchanged DEF IInv, KernelMain
<1>6. WalkOnPath'
  BY DEF KernelMain, WalkOnPath
<1> QED
  BY <1>2, <1>3, <1>4, <1>5, <1>6 DEF IInv

\* A page of the initial memory is freed.
LEMMA FreeInitialPagePreserves == ASSUME IInv, FreeInitialPage PROVE IInv'
<1> DEFINE b == bootloader_data
           ptr == b.free_memory + page
           f == FrameOf(ptr)
<1>1. b \in BootloaderData /\ b' = b /\ page \in Nat /\ page < b.n_pages
  BY StateTypes DEF IInv, TypeOK, FreeInitialPage
<1>2. /\ ptr \in FreeMemory(b) /\ ptr \in Nat \ {0} /\ f \in Frame
      /\ b.paddr_base + f = ptr /\ b.paddr_base \in Nat
      /\ b.free_memory \in Nat /\ b.n_pages \in Nat
  <2>1. ptr \in FreeMemory(b)
    BY <1>1, HandoverTypes DEF FreeMemory
  <2> QED
    BY <1>1, <2>1, HandoverTypes DEF FrameOf
<1>3. phase = "free" /\ phase' = "free" /\ free_list' = ptr /\ page' = page + 1
      /\ role' = [role EXCEPT ![f] = FreePage]
  BY DEF FreeInitialPage, At
<1>4. free_list = IF page = 0 THEN NULL ELSE ptr - 1
  BY <1>1, <1>2, <1>3 DEF IInv, Progress
<1>5. /\ mem' \in [Frame -> Page]
      /\ mem'[f][0] = Pointer(free_list)
      /\ \A g \in Frame \ {f} : mem'[g] = mem[g]
  <2>1. mem' = [mem EXCEPT ![f][0] = Pointer(free_list)]
    BY DEF FreeInitialPage, FreePhysicalPage, FrameOf
  <2>2. Pointer(free_list) \in Word /\ 0 \in Index /\ mem \in [Frame -> Page]
    BY WordTypes DEF IInv, TypeOK
  <2> HIDE DEF f, b, ptr
  <2> QED
    BY <1>2, <2>1, <2>2 DEF Page
<1>6. TypeOK'
  BY <1>1, <1>2, <1>3, <1>5, RoleTypes
  DEF FreeInitialPage, IInv, TypeOK, walk, Phase
<1>7. Progress'
  <2>1. \A g \in Frame : ~IsTable(g)'
    BY <1>2, <1>3, RoleTypes DEF IInv, TypeOK, Progress, IsTable
  <2> QED
    BY <1>1, <1>2, <1>3, <2>1 DEF FreeInitialPage, IInv, Progress, NULL
<1>8. FreeListIntact'
  <2>1. \A g \in Frame : role'[g] = FreePage <=>
           b.paddr_base + g \in FreeMemory(b) /\ b.paddr_base + g <= ptr
    <3> SUFFICES ASSUME NEW g \in Frame
                 PROVE  role'[g] = FreePage <=>
                          b.paddr_base + g \in FreeMemory(b) /\ b.paddr_base + g <= ptr
      OBVIOUS
    <3>1. CASE g = f
      BY <3>1, <1>2, <1>3 DEF IInv, TypeOK
    <3>2. CASE g # f
      <4>1. role'[g] = role[g]
        BY <3>2, <1>2, <1>3 DEF IInv, TypeOK
      <4>2. role[g] = FreePage <=>
              b.paddr_base + g \in FreeMemory(b) /\ b.paddr_base + g <= free_list
        BY <1>3 DEF IInv, FreeListIntact
      <4>3. g \in Nat /\ f \in Nat
        BY <1>1, <1>2, HandoverTypes
      <4>4. b.paddr_base + g \in FreeMemory(b) =>
              (b.paddr_base + g <= free_list <=> b.paddr_base + g <= ptr)
        <5> SUFFICES ASSUME b.paddr_base + g \in FreeMemory(b)
                     PROVE  b.paddr_base + g <= free_list <=> b.paddr_base + g <= ptr
          OBVIOUS
        <5>1. b.paddr_base + g >= b.free_memory /\ b.paddr_base + g # ptr
          BY <1>2, <3>2, <4>3 DEF FreeMemory
        <5> HIDE DEF f, b
        <5> QED
          BY <1>1, <1>2, <1>4, <4>3, <5>1 DEF NULL
      <4> QED
        BY <4>1, <4>2, <4>4
    <3> QED
      BY <3>1, <3>2
  <2>2. \A g \in Frame : role'[g] = FreePage =>
           mem'[g][0].addr = IF b.paddr_base + g = b.free_memory THEN NULL
                             ELSE b.paddr_base + g - 1
    <3> SUFFICES ASSUME NEW g \in Frame, role'[g] = FreePage
                 PROVE  mem'[g][0].addr =
                          IF b.paddr_base + g = b.free_memory THEN NULL
                          ELSE b.paddr_base + g - 1
      OBVIOUS
    <3>1. CASE g = f
      <4>1. mem'[f][0].addr = free_list
        BY <1>5 DEF Pointer
      <4>2. page = 0 <=> ptr = b.free_memory
        BY <1>1, <1>2
      <4>3. free_list = IF ptr = b.free_memory THEN NULL ELSE ptr - 1
        BY <4>2, <1>4
      <4>4. b.paddr_base + g = ptr /\ mem'[g][0].addr = free_list
        BY <3>1, <4>1, <1>2
      <4>5. g \in Nat
        BY <1>1, HandoverTypes
      <4> HIDE DEF ptr, b
      <4> QED
        BY <4>3, <4>4, <4>5, <1>2
    <3>2. CASE g # f
      <4>1. role[g] = FreePage /\ mem'[g] = mem[g]
        BY <3>2, <1>2, <1>3, <1>5 DEF IInv, TypeOK
      <4> QED
        BY <4>1, <1>3 DEF IInv, FreeListIntact
    <3> QED
      BY <3>1, <3>2
  <2> QED
    BY <1>1, <1>2, <1>3, <2>1, <2>2 DEF FreeListIntact
<1>9. TablesFormTree' /\ WalkOnPath'
  <2>1. \A g \in Frame : ~IsTable(g)'
    BY <1>2, <1>3, RoleTypes DEF IInv, TypeOK, Progress, IsTable
  <2> QED
    BY <1>3, <2>1 DEF TablesFormTree, PathsEnd, OneTablePerPath, EntriesLeadDown,
         TablesAreEntered, WalkOnPath
<1> QED
  BY <1>6, <1>7, <1>8, <1>9 DEF IInv
-----------------------------------------------------------------------------
(***************************************************************************)
(* Steps that take a page off the list.                                    *)
(***************************************************************************)
\* What taking a page does to the list and to the roles, provided that the
\* other free pages are not written.
LEMMA TakeKeepsList ==
    ASSUME IInv, phase # "kernel_main", NEW r \in Role, r # FreePage, TakePage(r),
           bootloader_data' = bootloader_data,
           \A g \in Frame : g # FrameOf(free_list) /\ role[g] = FreePage =>
                              mem'[g] = mem[g]
    PROVE  /\ FreeListIntact'
           /\ free_list' \in Nat
           /\ role' \in [Frame -> Role]
           /\ role'[FrameOf(free_list)] = r
           /\ \A g \in Frame : g # FrameOf(free_list) => role'[g] = role[g]
<1> DEFINE b == bootloader_data
           f == FrameOf(free_list)
           next == NextFree(mem, b.paddr_base, free_list)
<1>1. /\ b \in BootloaderData /\ b' = b
      /\ free_list # NULL /\ free_list' = next
      /\ role' = [role EXCEPT ![f] = r] /\ role \in [Frame -> Role]
  BY StateTypes DEF TakePage, IInv, TypeOK
<1>2. /\ f \in Frame /\ b.paddr_base + f = free_list
      /\ free_list \in FreeMemory(b) /\ role[f] = FreePage
      /\ next = IF free_list = b.free_memory THEN NULL ELSE free_list - 1
  BY <1>1, HeadIsFree
<1>3. /\ b.paddr_base \in Nat /\ b.free_memory \in Nat \ {0} /\ b.n_pages \in Nat
      /\ free_list \in Nat /\ f \in Nat /\ b.free_memory <= free_list
  BY <1>1, <1>2, HandoverTypes DEF FreeMemory, IInv, TypeOK
<1>4. next \in {NULL} \cup FreeMemory(b) /\ next \in Nat
  <2> HIDE DEF next, b
  <2> QED
    BY <1>2, <1>3 DEF FreeMemory, NULL
<1>5. /\ role' \in [Frame -> Role] /\ role'[f] = r
      /\ \A g \in Frame : g # f => role'[g] = role[g]
  BY <1>1, <1>2
<1>6. \A g \in Frame : role'[g] = FreePage <=>
         b.paddr_base + g \in FreeMemory(b) /\ b.paddr_base + g <= next
  <2> SUFFICES ASSUME NEW g \in Frame
               PROVE  role'[g] = FreePage <=>
                        b.paddr_base + g \in FreeMemory(b) /\ b.paddr_base + g <= next
    OBVIOUS
  <2>1. g \in Nat
    BY <1>1, HandoverTypes
  <2>2. CASE g = f
    <3> HIDE DEF next, b, f
    <3> QED
      BY <2>2, <1>2, <1>3, <1>5 DEF NULL
  <2>3. CASE g # f
    <3>1. role'[g] = FreePage <=>
            b.paddr_base + g \in FreeMemory(b) /\ b.paddr_base + g <= free_list
      BY <2>3, <1>5 DEF IInv, FreeListIntact
    <3>2. b.paddr_base + g # free_list
      BY <2>1, <2>3, <1>2, <1>3
    <3>3. b.paddr_base + g \in FreeMemory(b) =>
            (b.paddr_base + g <= free_list <=> b.paddr_base + g <= next)
      <4> HIDE DEF next, b, f
      <4> QED
        BY <2>1, <3>2, <1>2, <1>3 DEF FreeMemory, NULL
    <3> QED
      BY <3>1, <3>3
  <2> QED
    BY <2>2, <2>3
<1>7. \A g \in Frame : role'[g] = FreePage =>
         mem'[g][0].addr = IF b.paddr_base + g = b.free_memory THEN NULL
                           ELSE b.paddr_base + g - 1
  <2> SUFFICES ASSUME NEW g \in Frame, role'[g] = FreePage
               PROVE  mem'[g][0].addr =
                        IF b.paddr_base + g = b.free_memory THEN NULL
                        ELSE b.paddr_base + g - 1
    OBVIOUS
  <2>1. role[g] = FreePage /\ mem'[g] = mem[g]
    BY <1>5
  <2> QED
    BY <2>1 DEF IInv, FreeListIntact
<1>8. FreeListIntact'
  BY <1>1, <1>4, <1>6, <1>7 DEF FreeListIntact
<1> QED
  BY <1>1, <1>4, <1>5, <1>8

\* The page of the new stack is taken from the free list.
LEMMA AllocateStackPreserves == ASSUME IInv, AllocateStack PROVE IInv'
<1>1. /\ phase = "stack" /\ phase' = "root" /\ mem' = mem
      /\ bootloader_data' = bootloader_data /\ free_list # NULL
  BY DEF AllocateStack, At, AfterAllocate, AllocatePhysicalPage, Implied,
         APP_NORMAL, TakePage
<1>2. /\ FreeListIntact' /\ free_list' \in Nat /\ role' \in [Frame -> Role]
      /\ role'[FrameOf(free_list)] = StackPage
      /\ \A g \in Frame : g # FrameOf(free_list) => role'[g] = role[g]
  BY <1>1, TakeKeepsList, RoleTypes DEF AllocateStack
<1>3. new_stack' = free_list
  BY DEF AllocateStack, Allocated, Returned, Implied, APP_NORMAL
<1>4. TypeOK'
  BY <1>1, <1>2, <1>3 DEF AllocateStack, IInv, TypeOK, walk, loop, Phase
<1>5. \A g \in Frame : ~IsTable(g)'
  BY <1>1, <1>2, RoleTypes DEF IInv, Progress, IsTable
<1>6. Progress'
  BY <1>1, <1>5 DEF AllocateStack, IInv, Progress, loop
<1>7. TablesFormTree' /\ WalkOnPath'
  BY <1>1, <1>5 DEF TablesFormTree, PathsEnd, OneTablePerPath, EntriesLeadDown,
         TablesAreEntered, WalkOnPath
<1> QED
  BY <1>2, <1>4, <1>6, <1>7 DEF IInv

\* The root table is allocated and cleared.
LEMMA AllocateRootPreserves == ASSUME IInv, AllocateRoot PROVE IInv'
<1> DEFINE f == FrameOf(free_list)
<1>1. /\ phase = "root" /\ phase' = "map" /\ bootloader_data' = bootloader_data
      /\ free_list # NULL /\ free_list \in Nat
      /\ mem' = [mem EXCEPT ![f] = ZeroPage]
      /\ address_space' = free_list /\ table' = free_list /\ level' = 4 /\ page' = 0
  BY DEF AllocateRoot, At, AfterAllocate, AllocatePhysicalPage, Implied,
         TakePage, Allocated, Returned, FrameOf, IInv, TypeOK
<1>2. f \in Frame /\ role[f] = FreePage
  BY <1>1, HeadIsFree
<1>3. mem' \in [Frame -> Page] /\ mem'[f] = ZeroPage
      /\ \A g \in Frame \ {f} : mem'[g] = mem[g]
  BY <1>1, <1>2, WordTypes DEF IInv, TypeOK
<1>4. TablePage(4, NoPath) \in Role /\ TablePage(4, NoPath) # FreePage
  BY RoleTypes, RootPath DEF Level
<1>5. /\ FreeListIntact' /\ free_list' \in Nat /\ role' \in [Frame -> Role]
      /\ role'[f] = TablePage(4, NoPath)
      /\ \A g \in Frame : g # f => role'[g] = role[g]
  BY <1>1, <1>3, <1>4, TakeKeepsList DEF AllocateRoot
<1>6. TypeOK'
  <2> HIDE DEF f
  <2>1. /\ phase' \in Phase /\ level' \in Level /\ page' \in Nat
        /\ address_space' \in Nat /\ table' \in Nat
    BY <1>1 DEF Phase, Level
  <2>2. UNCHANGED <<bootloader_data, apic_vaddr, new_stack, call, relro, cr3>>
    BY DEF AllocateRoot
  <2> QED
    BY <1>3, <1>5, <2>1, <2>2 DEF IInv, TypeOK
<1>7. Progress'
  <2>1. bootloader_data \in BootloaderData
    BY StateTypes
  <2>2. 1 \in 1 .. NumCalls(bootloader_data)
    BY <2>1, NumCallsType
  <2> QED
    BY <1>1, <2>2 DEF AllocateRoot, IInv, Progress
<1>8. \A g \in Frame : IsTable(g)' => g = f
  BY <1>1, <1>5 DEF IInv, Progress, IsTable
<1>9. TablesFormTree'
  <2>1. role'[f].level = 4 /\ role'[f].path = NoPath
    BY <1>5 DEF TablePage
  <2>2. \A i \in Index : mem'[f][i] = Zero
    BY <1>3 DEF ZeroPage
  <2>3. \A l \in 1 .. role'[f].level : role'[f].path[l] = 0
    BY <2>1, RootPath DEF Level
  <2> HIDE DEF f
  <2>4. \A g \in Frame : IsTable(g)' => role'[g].level = 4 /\ role'[g].level \in Level
    BY <1>8, <2>1 DEF Level
  <2>5. PathsEnd'
    BY <1>8, <2>3, <2>4 DEF PathsEnd
  <2>6. OneTablePerPath'
    BY <1>8 DEF OneTablePerPath
  <2>7. EntriesLeadDown'
    BY <1>8, <2>2 DEF EntriesLeadDown
  <2>8. TablesAreEntered'
    BY <2>4 DEF TablesAreEntered
  <2> QED
    BY <2>5, <2>6, <2>7, <2>8 DEF TablesFormTree
<1>10. WalkOnPath'
  BY <1>1, <1>2, <1>5, RootPath DEF WalkOnPath, FrameOf
<1> QED
  BY <1>5, <1>6, <1>7, <1>9, <1>10 DEF IInv
-----------------------------------------------------------------------------
(***************************************************************************)
(* Steps that change neither memory nor roles.                             *)
(***************************************************************************)
LEMMA InitialPagesFreedPreserves == ASSUME IInv, InitialPagesFreed PROVE IInv'
<1>1. /\ phase = "free" /\ phase' = "stack"
      /\ UNCHANGED <<bootloader_data, apic_vaddr, mem, free_list, new_stack,
                     address_space, call, page, relro, table, level, cr3, role>>
  BY DEF InitialPagesFreed, At, walk, loop
<1>2. TypeOK' /\ Progress' /\ WalkOnPath'
  BY <1>1 DEF IInv, TypeOK, Progress, WalkOnPath, Phase, IsTable
<1>3. FreeListIntact' /\ TablesFormTree'
  BY <1>1, ListUnchanged, TablesUnchanged DEF IInv
<1> QED
  BY <1>2, <1>3 DEF IInv

\* map_range returns and the next one is called.
LEMMA MapRangeReturnsPreserves == ASSUME IInv, MapRangeReturns PROVE IInv'
<1> DEFINE b == bootloader_data
           k == Len(b.phdrs)
           n == Len(b.MemoryMap)
<1>1. /\ phase = "map" /\ page >= Call.n /\ call' = call + 1 /\ page' = 0
      /\ phase' = IF call = NumCalls(b) THEN "relro" ELSE "map"
      /\ relro' = RelroAfter(b, call)
      /\ UNCHANGED <<bootloader_data, apic_vaddr, mem, free_list, new_stack,
                     address_space, table, level, cr3, role>>
  BY DEF MapRangeReturns, At, walk
<1>2. call \in 1 .. NumCalls(b) /\ relro \in 0 .. k /\ NumCalls(b) = 3 + n + k
  BY <1>1 DEF IInv, TypeOK, Progress, NumCalls
<1>3. n \in Nat /\ k \in Nat /\ NumCalls(b) \in Nat
  BY StateTypes, NumCallsType
<1>4. relro' \in 0 .. k
  <2>1. RelroAfter(b, call) \in {relro, call - 3 - n}
        /\ (RelroAfter(b, call) # relro => call - 3 - n >= 1)
    BY DEF RelroAfter
  <2> HIDE DEF k, n, b
  <2> QED
    BY <1>1, <1>2, <1>3, <2>1
<1>5. TypeOK'
  <2>1. phase' \in Phase /\ call' \in Nat /\ page' \in Nat
    BY <1>1 DEF IInv, TypeOK, Phase
  <2> QED
    BY <1>1, <1>4, <2>1 DEF IInv, TypeOK
<1>6. Progress'
  <2>1. phase' = "map" => call' \in 1 .. NumCalls(b)
    <3> DEFINE N == NumCalls(b)
    <3>1. /\ call \in 1 .. N /\ N \in Nat /\ call' = call + 1
          /\ phase' = "map" => call # N
      BY <1>1, <1>2, <1>3
    <3> HIDE DEF N
    <3>2. phase' = "map" => call' \in 1 .. N
      BY <3>1
    <3> QED
      BY <3>2 DEF N
  <2>2. phase' \in {"map", "relro"}
    BY <1>1
  <2> QED
    BY <1>1, <2>1, <2>2 DEF IInv, Progress
<1>7. FreeListIntact' /\ TablesFormTree'
  BY <1>1, ListUnchanged, TablesUnchanged DEF IInv
<1>8. WalkOnPath'
  <2>1. ~Walking
    <3>1. Call.n \in Int /\ page \in Nat
      BY <1>1, StateTypes DEF RangeType, IInv, TypeOK
    <3> QED
      BY <1>1, <3>1 DEF Walking
  <2>2. /\ table = address_space /\ level = 4
        /\ FrameOf(address_space) \in Frame
        /\ role[FrameOf(address_space)] = TablePage(4, NoPath)
    BY <1>1, <2>1 DEF IInv, WalkOnPath
  <2>3. /\ table' = address_space' /\ level' = 4
        /\ FrameOf(address_space)' \in Frame
        /\ role'[FrameOf(address_space)'] = TablePage(4, NoPath)
    BY <1>1, <2>2 DEF FrameOf
  <2>4. Path(vpage', 4) = NoPath
    BY RootPath
  <2> QED
    BY <2>3, <2>4 DEF WalkOnPath, FrameOf
<1> QED
  BY <1>5, <1>6, <1>7, <1>8 DEF IInv

\* The table an entry above level 1 leads to.
LEMMA EntryLeadsDown ==
    ASSUME IInv, Walking, level > 1
    PROVE  /\ level \in 2 .. 4
           /\ Child(role[FrameOf(table)], PAGE_LEVEL_INDEX(vpage, level))
                 = TablePage(level - 1, Path(vpage, level - 1))
           /\ \/ entry = Zero
              \/ \E g \in Frame :
                    /\ entry = Pte(g, TRUE)
                    /\ role[g] = TablePage(level - 1, Path(vpage, level - 1))
<1> DEFINE t == FrameOf(table)
           i == PAGE_LEVEL_INDEX(vpage, level)
<1>1. /\ vpage \in Nat /\ level \in Level /\ t \in Frame /\ IsTable(t)
      /\ role[t] = TablePage(level, Path(vpage, level))
      /\ i \in Index /\ entry = mem[t][i]
  BY WalkFacts
<1>2. level \in 2 .. 4
  BY <1>1 DEF Level
<1>3. role[t].level = level /\ role[t].path = Path(vpage, level)
  BY <1>1 DEF TablePage
<1>4. [Path(vpage, level) EXCEPT ![level] = i] = Path(vpage, level - 1)
  BY <1>1, <1>2, PathProperties
<1>5. Child(role[t], i) = TablePage(level - 1, Path(vpage, level - 1))
  BY <1>3, <1>4 DEF Child
<1>6. \/ mem[t][i] = Zero
      \/ \E g \in Frame : mem[t][i] = Pte(g, TRUE) /\ role[g] = Child(role[t], i)
  BY <1>1, <1>3 DEF IInv, TablesFormTree, EntriesLeadDown
<1> QED
  BY <1>1, <1>2, <1>5, <1>6

\* What a step that stays with its page keeps.
LEMMA SamePage ==
    ASSUME UNCHANGED <<phase, bootloader_data, apic_vaddr, call, page, relro>>
    PROVE  vpage' = vpage /\ (Walking' <=> Walking)
  BY DEF vpage, Walking, Call, RelroPages

\* The walk goes down to a table that is present.
LEMMA EnterTablePreserves == ASSUME IInv, EnterTable PROVE IInv'
<1> DEFINE b == bootloader_data
<1>1. /\ Walking /\ level > 1 /\ entry.p
      /\ table' = b.paddr_base + entry.addr /\ level' = level - 1
      /\ UNCHANGED <<phase, bootloader_data, apic_vaddr, mem, free_list, new_stack,
                     address_space, call, page, relro, cr3, role>>
  BY DEF EnterTable, loop, NextPageLevel
<1>2. PICK g \in Frame : /\ entry = Pte(g, TRUE)
                         /\ role[g] = TablePage(level - 1, Path(vpage, level - 1))
  <2>1. ~Zero.p
    BY DEF Zero
  <2> QED
    BY <1>1, <2>1, EntryLeadsDown
<1>3. level \in 2 .. 4 /\ g \in Nat /\ b.paddr_base \in Nat
  BY <1>1, EntryLeadsDown, StateTypes, HandoverTypes
<1>4. table' = b.paddr_base + g
  BY <1>1, <1>2 DEF Pte
<1>5. FrameOf(table)' = g
  <2>1. FrameOf(table)' = table' - b.paddr_base
    BY <1>1 DEF FrameOf
  <2> HIDE DEF b
  <2> QED
    BY <1>3, <1>4, <2>1
<1>6. TypeOK'
  <2>1. table' \in Nat /\ level' \in Level
    <3> HIDE DEF b
    <3> QED
      BY <1>1, <1>3, <1>4 DEF Level
  <2> QED
    BY <1>1, <2>1 DEF IInv, TypeOK
<1>7. Progress'
  BY <1>1 DEF IInv, Progress, IsTable, FrameOf
<1>8. FreeListIntact' /\ TablesFormTree'
  <2>1. phase # "kernel_main"
    BY <1>1 DEF Walking
  <2> QED
    BY <1>1, <2>1, ListUnchanged, TablesUnchanged DEF IInv
<1>9. WalkOnPath'
  <2>1. vpage' = vpage /\ Walking' /\ phase \in {"map", "relro"}
    BY <1>1, SamePage DEF Walking
  <2>2. /\ FrameOf(address_space)' \in Frame
        /\ role'[FrameOf(address_space)'] = TablePage(4, NoPath)
    BY <1>1, <2>1 DEF IInv, WalkOnPath, FrameOf
  <2>3. role'[FrameOf(table)'] = TablePage(level', Path(vpage', level'))
    BY <1>1, <1>2, <1>5, <2>1
  <2> QED
    BY <1>5, <2>1, <2>2, <2>3 DEF WalkOnPath
<1> QED
  BY <1>6, <1>7, <1>8, <1>9 DEF IInv
-----------------------------------------------------------------------------
(***************************************************************************)
(* Steps that write a table.                                               *)
(***************************************************************************)
\* A table has one parent, which has one entry for it.
LEMMA ChildInjective ==
    ASSUME NEW r \in Role, NEW s \in Role, NEW i \in Index, NEW j \in Index,
           r.use = "table", s.use = "table", r.level \in Level, s.level \in Level,
           r.path[r.level] = 0, s.path[s.level] = 0, Child(r, i) = Child(s, j)
    PROVE  r = s /\ i = j
<1> DEFINE l == r.level
<1>1. /\ r.path \in [Level -> Index] /\ s.path \in [Level -> Index]
      /\ r = [use |-> "table", level |-> r.level, path |-> r.path]
      /\ s = [use |-> "table", level |-> s.level, path |-> s.path]
  BY DEF Role
<1>2. /\ r.level - 1 = s.level - 1
      /\ [r.path EXCEPT ![r.level] = i] = [s.path EXCEPT ![s.level] = j]
  BY DEF Child, TablePage
<1>3. s.level = l /\ l \in Level
  BY <1>2 DEF Level
<1>4. [r.path EXCEPT ![l] = i] = [s.path EXCEPT ![l] = j]
  BY <1>2, <1>3
<1>5. i = j
  BY <1>1, <1>3, <1>4
<1>6. \A m \in Level : r.path[m] = s.path[m]
  BY <1>1, <1>3, <1>4
<1>7. r.path = s.path
  BY <1>1, <1>6
<1> QED
  BY <1>1, <1>3, <1>5, <1>7

\* The walk allocates the table that is missing.
LEMMA MakeTablePreserves == ASSUME IInv, MakeTable PROVE IInv'
<1> DEFINE b == bootloader_data
           f == FrameOf(free_list)
           t == FrameOf(table)
           i == PAGE_LEVEL_INDEX(vpage, level)
           r == TablePage(level - 1, Path(vpage, level - 1))
<1>1. /\ phase = "map" /\ Walking /\ level > 1 /\ ~entry.p
      /\ TakePage(r) /\ free_list # NULL /\ level' = level - 1
      /\ UNCHANGED <<phase, bootloader_data, apic_vaddr, new_stack, address_space,
                     call, page, relro, cr3>>
  BY DEF MakeTable, At, loop, TakePage
<1>2. /\ f \in Frame /\ role[f] = FreePage /\ f \in Nat
      /\ b.paddr_base + f = free_list /\ b.paddr_base \in Nat
  BY <1>1, HeadIsFree, StateTypes, HandoverTypes
<1>3. /\ vpage \in Nat /\ t \in Frame /\ IsTable(t) /\ role[t] # FreePage
      /\ role[t] = TablePage(level, Path(vpage, level))
      /\ i \in Index /\ entry = mem[t][i]
  BY <1>1, WalkFacts
<1>4. level \in 2 .. 4 /\ Child(role[t], i) = r
  BY <1>1, EntryLeadsDown
<1>5. f # t
  BY <1>2, <1>3
<1>6. level - 1 \in Level /\ level \in Level
  BY <1>4 DEF Level
<1>7. r \in Role /\ r # FreePage /\ r.use = "table" /\ r.level = level - 1
      /\ \A m \in 1 .. level - 1 : r.path[m] = 0
  <2>1. Path(vpage, level - 1) \in [Level -> Index]
        /\ \A m \in 1 .. level - 1 : Path(vpage, level - 1)[m] = 0
    BY <1>3, <1>6, PathProperties
  <2> QED
    BY <1>6, <2>1, RoleTypes DEF TablePage
<1>8. Allocated({"APP_PTE"}) = f
  BY DEF Allocated, Returned, Implied, FrameOf
<1>9. /\ mem' \in [Frame -> Page] /\ mem'[f] = ZeroPage
      /\ mem'[t] \in [Index -> Word] /\ mem'[t][i] = Pte(f, TRUE)
      /\ \A j \in Index \ {i} : mem'[t][j] = mem[t][j]
      /\ \A g \in Frame \ {f, t} : mem'[g] = mem[g]
  <2>1. AfterAllocate({"APP_PTE"}) = [mem EXCEPT ![f] = ZeroPage]
    BY DEF AfterAllocate, AllocatePhysicalPage, Implied, FrameOf
  <2>2. mem' = [[mem EXCEPT ![f] = ZeroPage] EXCEPT ![t][i] = Pte(f, TRUE)]
    BY <1>8, <2>1 DEF MakeTable
  <2>3. /\ Pte(f, TRUE) \in Word /\ ZeroPage \in Page
        /\ mem \in [Frame -> [Index -> Word]]
    BY <1>2, WordTypes DEF IInv, TypeOK, Page
  <2> HIDE DEF f, t, i
  <2> QED
    BY <1>2, <1>3, <1>5, <2>2, <2>3 DEF Page
<1>10. table' = b.paddr_base + f /\ FrameOf(table)' = f
  <2>1. table' = b.paddr_base + f /\ FrameOf(table)' = table' - b.paddr_base
    BY <1>1, <1>8 DEF MakeTable, FrameOf
  <2> HIDE DEF f, b
  <2> QED
    BY <1>2, <2>1
<1>11. /\ FreeListIntact' /\ free_list' \in Nat /\ role' \in [Frame -> Role]
       /\ role'[f] = r
       /\ \A g \in Frame : g # f => role'[g] = role[g]
  <2>1. \A g \in Frame : g # f /\ role[g] = FreePage => mem'[g] = mem[g]
    BY <1>3, <1>9
  <2> QED
    BY <1>1, <1>7, <2>1, TakeKeepsList
<1>12. TypeOK'
  <2>1. table' \in Nat /\ level' \in Level
    <3> HIDE DEF f, b
    <3> QED
      BY <1>1, <1>2, <1>6, <1>10
  <2> QED
    BY <1>1, <1>9, <1>11, <2>1 DEF IInv, TypeOK
<1>13. Progress'
  BY <1>1 DEF IInv, Progress
<1>14. ~IsTable(f)
  BY <1>2, RoleTypes DEF IsTable
<1>15. \A g \in Frame : IsTable(g) => g # f /\ role'[g] = role[g]
  BY <1>11, <1>14
<1>16. \A g \in Frame : IsTable(g)' /\ g # f => IsTable(g) /\ role'[g] = role[g]
  BY <1>11 DEF IsTable
<1>17. \A g \in Frame : IsTable(g) => role[g] # r
  <2> SUFFICES ASSUME NEW g \in Frame, IsTable(g), role[g] = r PROVE FALSE
    OBVIOUS
  <2>1. role[g].level < 4
    BY <1>7, <1>4
  <2>2. PICK p \in Frame, j \in Index :
           IsTable(p) /\ role[g] = Child(role[p], j) /\ mem[p][j] = Pte(g, TRUE)
    BY <2>1 DEF IInv, TablesFormTree, TablesAreEntered
  <2>3. /\ role[p] \in Role /\ role[t] \in Role
        /\ role[p].use = "table" /\ role[t].use = "table"
        /\ role[p].level \in Level /\ role[t].level \in Level
        /\ role[p].path[role[p].level] = 0 /\ role[t].path[role[t].level] = 0
    <3>1. \A h \in Frame : IsTable(h) => /\ role[h].use = "table"
                                         /\ role[h].level \in Level
                                         /\ role[h].path[role[h].level] = 0
      BY DEF IInv, TablesFormTree, PathsEnd, IsTable, Level
    <3> QED
      BY <1>3, <2>2, <3>1 DEF IInv, TypeOK
  <2>4. role[p] = role[t] /\ j = i
    BY <1>3, <1>4, <2>2, <2>3, ChildInjective
  <2>5. p = t
    BY <1>3, <2>2, <2>4 DEF IInv, TablesFormTree, OneTablePerPath
  <2>6. entry.p
    BY <1>3, <2>2, <2>4, <2>5 DEF Pte
  <2> QED
    BY <1>1, <2>6
<1>18. PathsEnd'
  <2> SUFFICES ASSUME NEW g \in Frame, IsTable(g)'
               PROVE  /\ role'[g].level \in Level
                      /\ \A m \in 1 .. role'[g].level : role'[g].path[m] = 0
    BY DEF PathsEnd
  <2>1. CASE g = f
    BY <2>1, <1>6, <1>7, <1>11
  <2>2. CASE g # f
    BY <2>2, <1>16 DEF IInv, TablesFormTree, PathsEnd
  <2> QED
    BY <2>1, <2>2
<1>19. OneTablePerPath'
  <2> SUFFICES ASSUME NEW g \in Frame, NEW h \in Frame, IsTable(g)', IsTable(h)',
                      role'[g] = role'[h]
               PROVE  g = h
    BY DEF OneTablePerPath
  <2>1. CASE g = f \/ h = f
    BY <2>1, <1>11, <1>16, <1>17
  <2>2. CASE g # f /\ h # f
    BY <2>2, <1>16 DEF IInv, TablesFormTree, OneTablePerPath
  <2> QED
    BY <2>1, <2>2
<1>20. EntriesLeadDown'
  <2> SUFFICES ASSUME NEW g \in Frame, IsTable(g)', role'[g].level > 1, NEW j \in Index
               PROVE  \/ mem'[g][j] = Zero
                      \/ \E h \in Frame : /\ mem'[g][j] = Pte(h, TRUE)
                                          /\ role'[h] = Child(role'[g], j)
    BY DEF EntriesLeadDown, Child
  <2>1. CASE g = f
    BY <2>1, <1>9 DEF ZeroPage
  <2>2. CASE g = t /\ j = i
    BY <2>2, <1>2, <1>3, <1>4, <1>9, <1>11, <1>15
  <2>3. CASE g # f /\ ~(g = t /\ j = i)
    <3>1. IsTable(g) /\ role'[g] = role[g] /\ mem'[g][j] = mem[g][j]
      BY <2>3, <1>9, <1>16
    <3>2. \/ mem[g][j] = Zero
          \/ \E h \in Frame : mem[g][j] = Pte(h, TRUE) /\ role[h] = Child(role[g], j)
      BY <3>1 DEF IInv, TablesFormTree, EntriesLeadDown
    <3>3. \A h \in Frame : role[h] = Child(role[g], j) => role'[h] = role[h]
      BY <1>15, RoleTypes DEF Child, IsTable
    <3> QED
      BY <3>1, <3>2, <3>3
  <2> QED
    BY <2>1, <2>2, <2>3
<1>21. TablesAreEntered'
  <2> SUFFICES ASSUME NEW g \in Frame, IsTable(g)', role'[g].level < 4
               PROVE  \E p \in Frame, j \in Index :
                         /\ role'[p].use = "table" /\ role'[g] = Child(role'[p], j)
                         /\ mem'[p][j] = Pte(g, TRUE)
    BY DEF TablesAreEntered, Child, IsTable
  <2>1. CASE g = f
    <3>1. role'[t].use = "table" /\ role'[t] = role[t]
      BY <1>3, <1>15 DEF IsTable
    <3> QED
      <4> HIDE DEF f, t, i, r
      <4> QED
        BY <2>1, <3>1, <1>3, <1>4, <1>9, <1>11
  <2>2. CASE g # f
    <3>1. IsTable(g) /\ role'[g] = role[g]
      BY <2>2, <1>16
    <3>2. PICK p \in Frame, j \in Index :
             IsTable(p) /\ role[g] = Child(role[p], j) /\ mem[p][j] = Pte(g, TRUE)
      BY <3>1 DEF IInv, TablesFormTree, TablesAreEntered
    <3>3. ~(p = t /\ j = i)
      BY <1>1, <1>3, <3>2 DEF Pte
    <3>4. role'[p].use = "table" /\ role'[p] = role[p] /\ mem'[p][j] = mem[p][j]
      BY <1>9, <1>15, <3>2, <3>3 DEF IsTable
    <3> QED
      BY <3>1, <3>2, <3>4
  <2> QED
    BY <2>1, <2>2
<1>22. WalkOnPath'
  <2>1. vpage' = vpage /\ Walking'
    BY <1>1, SamePage
  <2>2. /\ FrameOf(address_space) \in Frame
        /\ role[FrameOf(address_space)] = TablePage(4, NoPath)
    BY <1>1 DEF IInv, WalkOnPath
  <2>3. /\ FrameOf(address_space)' = FrameOf(address_space)
        /\ role'[FrameOf(address_space)] = TablePage(4, NoPath)
    <3>1. IsTable(FrameOf(address_space))
      BY <2>2, RoleTypes DEF IsTable
    <3> QED
      BY <1>1, <1>15, <2>2, <3>1 DEF FrameOf
  <2>4. role'[FrameOf(table)'] = TablePage(level', Path(vpage', level'))
    BY <1>1, <1>10, <1>11, <2>1
  <2> QED
    BY <1>2, <1>10, <2>1, <2>2, <2>3, <2>4 DEF WalkOnPath
<1> QED
  BY <1>11, <1>12, <1>13, <1>18, <1>19, <1>20, <1>21, <1>22 DEF IInv, TablesFormTree

\* What writing a word of a level 1 table and going on to the next page keeps.
LEMMA LeafWriteKeepsTree ==
    ASSUME IInv, Walking, level = 1, NEW w \in Word, NextPage,
           mem' = [mem EXCEPT ![FrameOf(table)][PAGE_LEVEL_INDEX(vpage, 1)] = w],
           UNCHANGED <<phase, bootloader_data, apic_vaddr, free_list, new_stack,
                       address_space, call, relro, cr3, role>>
    PROVE  IInv'
<1> DEFINE t == FrameOf(table)
           i == PAGE_LEVEL_INDEX(vpage, 1)
<1>1. /\ t \in Frame /\ role[t] # FreePage /\ IsTable(t) /\ i \in Index
      /\ role[t] = TablePage(1, Path(vpage, 1))
  BY WalkFacts
<1>2. /\ mem' \in [Frame -> Page]
      /\ \A g \in Frame \ {t} : mem'[g] = mem[g]
  <2>1. mem \in [Frame -> [Index -> Word]]
    BY DEF IInv, TypeOK, Page
  <2> QED
    BY <1>1, <2>1 DEF Page
<1>3. /\ page' = page + 1 /\ table' = address_space /\ level' = 4
      /\ phase \in {"map", "relro"}
  BY DEF NextPage, Walking
<1>4. TypeOK'
  <2>1. page' \in Nat /\ table' \in Nat /\ level' \in Level
    BY <1>3 DEF IInv, TypeOK, Level
  <2> QED
    BY <1>2, <2>1 DEF IInv, TypeOK
<1>5. Progress'
  BY <1>3 DEF IInv, Progress
<1>6. FreeListIntact'
  <2>1. \A f \in Frame : role'[f] = FreePage => mem'[f] = mem[f]
    BY <1>1, <1>2
  <2> QED
    BY <1>3, <2>1 DEF IInv, FreeListIntact
<1>7. role[t].level = 1
  BY <1>1 DEF TablePage
<1>8. PathsEnd' /\ OneTablePerPath'
  BY DEF IInv, TablesFormTree, PathsEnd, OneTablePerPath, IsTable
<1>9. EntriesLeadDown'
  <2>1. \A f \in Frame : role[f].level > 1 => mem'[f] = mem[f]
    BY <1>2, <1>7
  <2> QED
    BY <2>1 DEF IInv, TablesFormTree, EntriesLeadDown, IsTable, Child
<1>10. TablesAreEntered'
  <2> SUFFICES ASSUME NEW g \in Frame, IsTable(g), role[g].level < 4
               PROVE  \E f \in Frame, j \in Index :
                         /\ IsTable(f) /\ role[g] = Child(role[f], j)
                         /\ mem'[f][j] = Pte(g, TRUE)
    BY DEF TablesAreEntered, IsTable, Child
  <2>1. PICK f \in Frame, j \in Index :
           IsTable(f) /\ role[g] = Child(role[f], j) /\ mem[f][j] = Pte(g, TRUE)
    BY DEF IInv, TablesFormTree, TablesAreEntered
  <2>2. role[g].level = role[f].level - 1
    BY <2>1 DEF Child, TablePage
  <2>3. role[g].level \in Level /\ role[f].level \in Level
    BY <2>1 DEF IInv, TablesFormTree, PathsEnd
  <2>4. f # t
    BY <1>7, <2>2, <2>3 DEF Level
  <2> QED
    BY <1>2, <2>1, <2>4
<1>11. WalkOnPath'
  <2>1. /\ FrameOf(address_space) \in Frame
        /\ role[FrameOf(address_space)] = TablePage(4, NoPath)
    BY <1>3 DEF IInv, WalkOnPath
  <2>2. /\ FrameOf(address_space)' = FrameOf(address_space)
        /\ FrameOf(table)' = FrameOf(address_space)
    BY <1>3 DEF FrameOf
  <2>3. Path(vpage', 4) = NoPath
    BY RootPath
  <2> QED
    BY <1>3, <2>1, <2>2, <2>3 DEF WalkOnPath
<1> QED
  BY <1>4, <1>5, <1>6, <1>8, <1>9, <1>10, <1>11 DEF IInv, TablesFormTree

\* The walk ends and the page is mapped.
LEMMA MapPagePreserves == ASSUME IInv, MapPage PROVE IInv'
<1>1. phase = "map" /\ Walking /\ level = 1 /\ NextPage
  BY DEF MapPage, At
<1>2. Pte(Call.ppage + page, Call.rw) \in Word
  <2>1. Call \in RangeType /\ page \in Nat
    BY <1>1, StateTypes DEF IInv, TypeOK
  <2> QED
    BY <2>1, WordTypes DEF RangeType
<1> QED
  BY <1>1, <1>2, LeafWriteKeepsTree DEF MapPage

\* set_vpage_ro makes a page read-only.
LEMMA SetVpageRoPreserves == ASSUME IInv, SetVpageRo PROVE IInv'
<1>1. phase = "relro" /\ Walking /\ level = 1 /\ NextPage
  BY DEF SetVpageRo, At
<1>2. ReadOnly(entry) \in Word
  BY <1>1, WalkFacts, WordTypes
<1> QED
  BY <1>1, <1>2, LeafWriteKeepsTree DEF SetVpageRo

\* The steps after the last table is written, and those that stop the kernel.
LEMMA LastStepsPreserve ==
    ASSUME IInv, AddressSpaceDone \/ SetCr3 \/ ResetSystem \/ Halt \/ PageFault
    PROVE  IInv'
<1>1. /\ UNCHANGED <<bootloader_data, apic_vaddr, mem, free_list, new_stack,
                     address_space, call, page, relro, table, level, role>>
      /\ phase' \in {"set_cr3", "main2", "shutdown", "nomem", "remap", "assert",
                     "fault"}
  BY DEF AddressSpaceDone, SetCr3, ResetSystem, Halt, PageFault, loop, walk
<1>2. phase = "kernel_main" => phase' = "fault" /\ Touched # {}
  BY DEF AddressSpaceDone, SetCr3, ResetSystem, Halt, PageFault, At,
         NoMemory, Remap, Missing
<1>3. phase # "kernel_main"
  BY <1>2 DEF Touched
<1>4. cr3' \in Frame \cup {BOOT}
  <2>1. CASE SetCr3
    BY <2>1 DEF SetCr3, At, IInv, Progress
  <2>2. CASE ~SetCr3
    BY <2>2 DEF AddressSpaceDone, ResetSystem, Halt, PageFault, IInv, TypeOK
  <2> QED
    BY <2>1, <2>2
<1>5. TypeOK'
  BY <1>1, <1>4 DEF IInv, TypeOK, Phase
<1>6. phase' = "set_cr3" => FrameOf(address_space)' \in Frame
  <2>1. phase' = "set_cr3" => phase = "relro"
    BY DEF AddressSpaceDone, SetCr3, ResetSystem, Halt, PageFault, At
  <2> QED
    BY <1>1, <2>1 DEF IInv, WalkOnPath, FrameOf
<1>7. Progress' /\ WalkOnPath'
  BY <1>1, <1>3, <1>6 DEF IInv, Progress, WalkOnPath
<1>8. FreeListIntact' /\ TablesFormTree'
  BY <1>1, <1>3, ListUnchanged, TablesUnchanged DEF IInv
<1> QED
  BY <1>5, <1>7, <1>8 DEF IInv

\* Nothing changes.
LEMMA StutterPreserves == ASSUME IInv, UNCHANGED vars PROVE IInv'
<1>1. TypeOK' /\ Progress' /\ FreeListIntact'
  BY DEF vars, IInv, TypeOK, Progress, FreeListIntact, IsTable, FrameOf
<1>2. TablesFormTree'
  BY TablesUnchanged DEF vars, IInv
<1>3. WalkOnPath'
  BY SamePage DEF vars, IInv, WalkOnPath, FrameOf
<1> QED
  BY <1>1, <1>2, <1>3 DEF IInv

\* Every step of the kernel keeps the invariant.
LEMMA NextPreserves == ASSUME IInv, [Next]_vars PROVE IInv'
<1>1. CASE Next
  BY <1>1, KernelMainPreserves, FreeInitialPagePreserves,
     InitialPagesFreedPreserves, AllocateStackPreserves, AllocateRootPreserves,
     MapRangeReturnsPreserves, EnterTablePreserves, MakeTablePreserves,
     MapPagePreserves, SetVpageRoPreserves, LastStepsPreserve, StutterPreserves
  DEF Next, Hang
<1>2. CASE UNCHANGED vars
  BY <1>2, StutterPreserves
<1> QED
  BY <1>1, <1>2
-----------------------------------------------------------------------------
(***************************************************************************)
(* The remap check.  Every present leaf stems from a page that map_page    *)
(* has finished, and a page is known by its indexes.                       *)
(***************************************************************************)
LEMMA Quotient ==
    ASSUME NEW x \in Nat
    PROVE  /\ x \div ENTRIES \in Nat
           /\ x = ENTRIES * (x \div ENTRIES) + (x % ENTRIES)
           /\ \A y \in Nat : x < ENTRIES * y => x \div ENTRIES < y
<1> DEFINE q == x \div ENTRIES
<1>1. q \in Nat /\ x = ENTRIES * q + (x % ENTRIES) /\ x % ENTRIES \in Nat
  BY PagingAssumption
<1> HIDE DEF q
<1>2. ASSUME NEW y \in Nat, x < ENTRIES * y PROVE q < y
  <2> SUFFICES ASSUME q >= y PROVE FALSE
    BY <1>1
  <2>1. PICK d \in Nat : q = y + d
    BY <1>1
  <2>2. ENTRIES * q = ENTRIES * y + ENTRIES * d /\ ENTRIES * d \in Nat
    BY <2>1, PagingAssumption
  <2>3. ENTRIES * y \in Nat /\ ENTRIES * q \in Nat
    BY <1>1, PagingAssumption
  <2> QED
    BY <1>1, <1>2, <2>2, <2>3
<1> QED
  BY <1>1, <1>2 DEF q

\* The four indexes of a page tell it from every other.
LEMMA IndexesIdentify ==
    ASSUME NEW v \in VPage, NEW w \in VPage,
           \A l \in Level : PAGE_LEVEL_INDEX(v, l) = PAGE_LEVEL_INDEX(w, l)
    PROVE  v = w
<1> DEFINE E == ENTRIES
           v1 == v \div E
           v2 == v1 \div E
           v3 == v2 \div E
           w1 == w \div E
           w2 == w1 \div E
           w3 == w2 \div E
<1>1. /\ v % E = w % E /\ v1 % E = w1 % E
      /\ v2 % E = w2 % E /\ v3 % E = w3 % E
  BY DEF PAGE_LEVEL_INDEX, Shifted, Level
<1>2. /\ E \in Nat /\ E * E \in Nat /\ E * (E * E) \in Nat
      /\ E * E * E * E = E * (E * (E * E))
  BY PagingAssumption
<1>3. v \in Nat /\ w \in Nat /\ v < E * (E * (E * E)) /\ w < E * (E * (E * E))
  BY <1>2 DEF VPage
<1>4. /\ v1 \in Nat /\ v = E * v1 + (v % E) /\ v1 < E * (E * E)
      /\ w1 \in Nat /\ w = E * w1 + (w % E) /\ w1 < E * (E * E)
  BY <1>2, <1>3, Quotient
<1>5. /\ v2 \in Nat /\ v1 = E * v2 + (v1 % E) /\ v2 < E * E
      /\ w2 \in Nat /\ w1 = E * w2 + (w1 % E) /\ w2 < E * E
  BY <1>2, <1>4, Quotient
<1>6. /\ v3 \in Nat /\ v2 = E * v3 + (v2 % E) /\ v3 < E
      /\ w3 \in Nat /\ w2 = E * w3 + (w2 % E) /\ w3 < E
  BY <1>2, <1>5, Quotient
<1>7. \A x \in Nat : x < E => x % E = x
  BY PagingAssumption
<1>8. v3 = w3
  BY <1>1, <1>6, <1>7
<1>9. v2 = w2
  BY <1>1, <1>6, <1>8
<1>10. v1 = w1
  BY <1>1, <1>5, <1>9
<1> QED
  BY <1>1, <1>4, <1>10

\* Page k of call c is finished.
IsCompleted(c, k) ==
    /\ c \in 1 .. NumCalls(bootloader_data)
    /\ k \in Nat /\ k < RangeOf(c).n
    /\ c < call \/ (c = call /\ k < page)

\* The table and the index of a leaf are those of a finished page.
AskedFor(f, i) ==
    \E c, k : /\ IsCompleted(c, k)
              /\ role[f].path = Path(RangeOf(c).vpage + k, 1)
              /\ i = PAGE_LEVEL_INDEX(RangeOf(c).vpage + k, 1)

LeavesAskedFor ==
    \A f \in Frame, i \in Index :
       IsTable(f) /\ role[f].level = 1 /\ mem[f][i].p => AskedFor(f, i)

\* A step after KernelMain that neither loses finished pages nor changes the
\* role of the table keeps what was asked for.
LEMMA StaysAskedFor ==
    ASSUME IInv, NEW f \in Frame, NEW i \in Index, AskedFor(f, i),
           UNCHANGED <<bootloader_data, apic_vaddr>>, role'[f] = role[f],
           \/ call' = call /\ page' \in Nat /\ page' >= page
           \/ call' > call
           \/ call > NumCalls(bootloader_data) /\ call' = call,
           call' \in Nat
    PROVE  AskedFor(f, i)'
<1>1. PICK c, k : /\ IsCompleted(c, k)
                  /\ role[f].path = Path(RangeOf(c).vpage + k, 1)
                  /\ i = PAGE_LEVEL_INDEX(RangeOf(c).vpage + k, 1)
  BY DEF AskedFor
<1>2. RangeOf(c)' = RangeOf(c)
  BY DEF RangeOf
<1>3. NumCalls(bootloader_data) \in Nat /\ call \in Nat /\ page \in Nat
  BY StateTypes, NumCallsType DEF IInv, TypeOK
<1>4. IsCompleted(c, k)'
  <2> DEFINE N == NumCalls(bootloader_data)
  <2>1. /\ c \in 1 .. N /\ k \in Nat /\ k < RangeOf(c)'.n
        /\ c < call \/ (c = call /\ k < page)
        /\ N \in Nat /\ NumCalls(bootloader_data)' = N
    BY <1>1, <1>2, <1>3 DEF IsCompleted
  <2> HIDE DEF N
  <2>2. c < call' \/ (c = call' /\ k < page')
    BY <1>3, <2>1 DEF N
  <2> QED
    BY <2>1, <2>2 DEF IsCompleted
<1> QED
  BY <1>1, <1>2, <1>4 DEF AskedFor

\* The step that writes a leaf.
LEMMA MapPageAskedFor ==
    ASSUME IInv, MapPage, LeavesAskedFor PROVE LeavesAskedFor'
<1> DEFINE t == FrameOf(table)
           j == PAGE_LEVEL_INDEX(vpage, 1)
<1>1. /\ phase = "map" /\ Walking /\ level = 1 /\ page' = page + 1
      /\ mem' = [mem EXCEPT ![t][j] = Pte(Call.ppage + page, Call.rw)]
      /\ UNCHANGED <<bootloader_data, apic_vaddr, call, role>>
  BY DEF MapPage, At, NextPage
<1>2. /\ t \in Frame /\ role[t] = TablePage(1, Path(vpage, 1)) /\ j \in Index
      /\ mem \in [Frame -> [Index -> Word]] /\ call \in Nat /\ page \in Nat
  BY <1>1, WalkFacts DEF IInv, TypeOK, Page
<1>3. \A f \in Frame, i \in Index : ~(f = t /\ i = j) => mem'[f][i] = mem[f][i]
  <2> HIDE DEF t, j
  <2> QED
    BY <1>1, <1>2
<1>4. role'[t].path = Path(vpage, 1)
  BY <1>1, <1>2 DEF TablePage
<1>5. PICK c \in Nat, k \in Nat : c = call /\ k = page
  BY <1>2
<1>6. /\ vpage = RangeOf(c).vpage + k
      /\ RangeOf(c)' = RangeOf(c)
      /\ IsCompleted(c, k)'
  <2>1. c \in 1 .. NumCalls(bootloader_data) /\ RangeOf(c) = Call /\ k < RangeOf(c).n
    BY <1>1, <1>5 DEF IInv, Progress, Walking, RangeOf, Call
  <2>2. RangeOf(c)' = RangeOf(c)
    BY <1>1 DEF RangeOf
  <2>3. k < page' /\ c = call' /\ NumCalls(bootloader_data)' = NumCalls(bootloader_data)
    BY <1>1, <1>2, <1>5
  <2>4. vpage = RangeOf(c).vpage + k
    BY <1>1, <1>5, <2>1 DEF vpage
  <2> QED
    BY <1>5, <2>1, <2>2, <2>3, <2>4 DEF IsCompleted
<1> SUFFICES ASSUME NEW f \in Frame, NEW i \in Index, IsTable(f)',
                    role'[f].level = 1, mem'[f][i].p
             PROVE  AskedFor(f, i)'
  BY DEF LeavesAskedFor
<1>7. CASE f = t /\ i = j
  BY <1>4, <1>6, <1>7 DEF AskedFor
<1>8. CASE ~(f = t /\ i = j)
  <2>1. AskedFor(f, i)
    BY <1>1, <1>3, <1>8 DEF LeavesAskedFor, IsTable
  <2> QED
    BY <1>1, <1>2, <2>1, StaysAskedFor
<1> QED
  BY <1>7, <1>8

\* The steps that write no leaf: a leaf that is present afterwards was present
\* before, in the same table.
LEMMA OthersAskedFor ==
    ASSUME IInv, IInv', LeavesAskedFor, [Next]_vars, ~MapPage
    PROVE  LeavesAskedFor'
<1> SUFFICES ASSUME NEW f \in Frame, NEW i \in Index, IsTable(f)',
                    role'[f].level = 1, mem'[f][i].p
             PROVE  AskedFor(f, i)'
  BY DEF LeavesAskedFor
<1>1. phase' \notin {"kernel_main", "free", "stack", "root"}
  BY DEF IInv, Progress
<1>2. call' \in Nat /\ page' \in Nat /\ call \in Nat /\ page \in Nat
  BY DEF IInv, TypeOK
<1>3. CASE KernelMain \/ FreeInitialPage \/ InitialPagesFreed \/ AllocateStack
  BY <1>1, <1>3 DEF KernelMain, FreeInitialPage, InitialPagesFreed, AllocateStack, At
<1>4. CASE AllocateRoot
  <2>1. role'[f].level = 4 \/ role'[f] = role[f]
    BY <1>4 DEF AllocateRoot, TakePage, TablePage, IInv, TypeOK
  <2>2. ~IsTable(f)
    BY <1>4 DEF AllocateRoot, At, IInv, Progress
  <2> QED
    BY <2>1, <2>2 DEF IsTable
<1>5. CASE MakeTable
  <2> DEFINE g == FrameOf(free_list)
             t == FrameOf(table)
             j == PAGE_LEVEL_INDEX(vpage, level)
             w == Pte(Allocated({"APP_PTE"}), TRUE)
             r == TablePage(level - 1, Path(vpage, level - 1))
  <2>1. /\ phase = "map" /\ Walking /\ level > 1 /\ free_list # NULL
        /\ role' = [role EXCEPT ![g] = r]
        /\ mem' = [[mem EXCEPT ![g] = ZeroPage] EXCEPT ![t][j] = w]
        /\ UNCHANGED <<bootloader_data, apic_vaddr, call, page>>
    BY <1>5 DEF MakeTable, At, TakePage, AfterAllocate, AllocatePhysicalPage,
                Implied, FrameOf, loop
  <2>2. /\ g \in Frame /\ role[g] = FreePage
        /\ t \in Frame /\ role[t] = TablePage(level, Path(vpage, level))
        /\ role[t] # FreePage /\ mem \in [Frame -> Page] /\ role \in [Frame -> Role]
    BY <2>1, HeadIsFree, WalkFacts DEF IInv, TypeOK
  <2>3. f # t
    <3>1. role'[t] = role[t]
      BY <2>1, <2>2
    <3>2. role[t].level = level
      BY <2>2 DEF TablePage
    <3> QED
      BY <2>1, <3>1, <3>2
  <2>4. f # g
    <3>1. g # t
      BY <2>2
    <3>2. mem'[g] = ZeroPage
      <4> HIDE DEF g, t, j, w
      <4> QED
        BY <2>1, <2>2, <3>1
    <3>3. ~mem'[g][i].p
      BY <3>2 DEF ZeroPage, Zero
    <3> QED
      BY <3>3
  <2>5. role'[f] = role[f] /\ mem'[f] = mem[f]
    <3> HIDE DEF g, t, j, w, r
    <3> QED
      BY <2>1, <2>2, <2>3, <2>4
  <2>6. AskedFor(f, i)
    BY <2>5 DEF LeavesAskedFor, IsTable
  <2> QED
    BY <1>2, <2>1, <2>5, <2>6, StaysAskedFor
<1>6. CASE SetVpageRo
  <2> DEFINE t == FrameOf(table)
             j == PAGE_LEVEL_INDEX(vpage, 1)
  <2>1. /\ Walking /\ level = 1 /\ entry.p /\ page' = page + 1
        /\ mem' = [mem EXCEPT ![t][j] = ReadOnly(entry)]
        /\ UNCHANGED <<bootloader_data, apic_vaddr, call, role>>
    BY <1>6 DEF SetVpageRo, NextPage
  <2>2. t \in Frame /\ j \in Index /\ entry = mem[t][j]
        /\ mem \in [Frame -> [Index -> Word]]
    BY <2>1, WalkFacts DEF IInv, TypeOK, Page
  <2>3. ~(f = t /\ i = j) => mem'[f][i] = mem[f][i]
    <3> HIDE DEF t, j
    <3> QED
      BY <2>1, <2>2
  <2>4. mem[f][i].p
    BY <2>1, <2>2, <2>3
  <2>5. AskedFor(f, i)
    BY <2>1, <2>4 DEF LeavesAskedFor, IsTable
  <2> QED
    BY <1>2, <2>1, <2>5, StaysAskedFor
<1>7. CASE MapRangeReturns
  <2>1. call' = call + 1 /\ UNCHANGED <<bootloader_data, apic_vaddr, mem, role>>
    BY <1>7 DEF MapRangeReturns
  <2>2. AskedFor(f, i)
    BY <2>1 DEF LeavesAskedFor, IsTable
  <2>3. call' > call
    BY <1>2, <2>1
  <2> QED
    BY <1>2, <2>1, <2>2, <2>3, StaysAskedFor
<1>8. CASE EnterTable \/ AddressSpaceDone \/ SetCr3 \/ ResetSystem \/ Halt
           \/ PageFault \/ Hang \/ UNCHANGED vars
  <2>1. UNCHANGED <<bootloader_data, apic_vaddr, mem, role, call, page>>
    BY <1>8 DEF EnterTable, AddressSpaceDone, SetCr3, ResetSystem, Halt,
                PageFault, Hang, vars, loop
  <2>2. AskedFor(f, i)
    BY <2>1 DEF LeavesAskedFor, IsTable
  <2>3. page' >= page
    BY <1>2, <2>1
  <2> QED
    BY <1>2, <2>1, <2>2, <2>3, StaysAskedFor
<1> QED
  BY <1>3, <1>4, <1>5, <1>6, <1>7, <1>8 DEF Next

\* The remap check fires at a page that another range has already mapped.
LEMMA RemapFindsOverlap ==
    ASSUME IInv, LeavesAskedFor, Remap PROVE ~Disjoint(bootloader_data)
<1> DEFINE b == bootloader_data
           N == NumCalls(b)
           t == FrameOf(table)
<1>1. /\ phase = "map" /\ Walking /\ level = 1 /\ entry.p /\ call \in 1 .. N
      /\ page \in Nat /\ page < Call.n /\ b \in BootloaderData
  BY StateTypes DEF Remap, Walking, IInv, Progress, TypeOK
<1>2. /\ t \in Frame /\ IsTable(t) /\ role[t] = TablePage(1, Path(vpage, 1))
      /\ entry = mem[t][PAGE_LEVEL_INDEX(vpage, 1)]
      /\ PAGE_LEVEL_INDEX(vpage, 1) \in Index
  BY <1>1, WalkFacts
<1>3. role[t].level = 1 /\ role[t].path = Path(vpage, 1)
  BY <1>2 DEF TablePage
<1>4. PICK c, k : /\ IsCompleted(c, k)
                  /\ role[t].path = Path(RangeOf(c).vpage + k, 1)
                  /\ PAGE_LEVEL_INDEX(vpage, 1)
                        = PAGE_LEVEL_INDEX(RangeOf(c).vpage + k, 1)
  BY <1>1, <1>2, <1>3 DEF LeavesAskedFor, AskedFor
<1> DEFINE v == RangeOf(c).vpage + k
<1>5. vpage = RangeOf(call).vpage + page /\ RangeOf(call) = Call
  BY <1>1 DEF vpage, RangeOf, Call
<1>6. /\ c \in 1 .. N /\ k \in Nat /\ k < RangeOf(c).n
      /\ c < call \/ (c = call /\ k < page)
  BY <1>4 DEF IsCompleted
<1>7. \A d \in 1 .. N : RangeOf(d) \in RangeType /\ Pages(RangeOf(d)) \subseteq VPage
  <2>1. apic_vaddr = b.mmio_base - 1 /\ apic_vaddr \in Nat
    BY <1>1 DEF IInv, Progress, TypeOK
  <2> QED
    BY <1>1, <2>1, RangeTypes, LayoutAssumption DEF RangeOf
<1>8. v \in Pages(RangeOf(c)) /\ vpage \in Pages(RangeOf(call))
  <2>1. \A d \in 1 .. N : RangeOf(d).vpage \in Nat /\ RangeOf(d).n \in Int
    BY <1>7 DEF RangeType
  <2>2. \A x \in Nat, m \in Nat, n \in Int : m < n => x + m \in x .. x + n - 1
    OBVIOUS
  <2> QED
    BY <1>1, <1>5, <1>6, <2>1, <2>2 DEF Pages
<1>9. v = vpage
  <2>1. \A l \in 2 .. 4 : PAGE_LEVEL_INDEX(v, l) = PAGE_LEVEL_INDEX(vpage, l)
    <3>1. \A l \in 2 .. 4 : l > 1 /\ l \in Level
      BY DEF Level
    <3>2. \A l \in 2 .. 4 : Path(v, 1)[l] = PAGE_LEVEL_INDEX(v, l)
                            /\ Path(vpage, 1)[l] = PAGE_LEVEL_INDEX(vpage, l)
      BY <3>1 DEF Path
    <3> QED
      BY <1>3, <1>4, <3>2
  <2>2. \A l \in Level : l = 1 \/ l \in 2 .. 4
    BY DEF Level
  <2>3. \A l \in Level : PAGE_LEVEL_INDEX(v, l) = PAGE_LEVEL_INDEX(vpage, l)
    BY <1>4, <2>1, <2>2
  <2>4. v \in VPage /\ vpage \in VPage
    BY <1>1, <1>6, <1>7, <1>8
  <2> QED
    BY <2>3, <2>4, IndexesIdentify
<1>10. c # call
  <2>1. RangeOf(call).vpage \in Nat
    BY <1>1, <1>7 DEF RangeType
  <2> QED
    BY <1>1, <1>5, <1>6, <1>9, <2>1
<1> QED
  BY <1>1, <1>6, <1>8, <1>9, <1>10 DEF Disjoint

RInv == LeavesAskedFor /\ RemapMeansOverlap

\* The kernel keeps to the pages it was asked to map, and halts on one that is
\* mapped again only when two ranges overlap.
LEMMA RemapPreserved ==
    ASSUME IInv, IInv', RInv, [Next]_vars PROVE RInv'
<1>1. LeavesAskedFor'
  BY MapPageAskedFor, OthersAskedFor DEF RInv
<1>2. RemapMeansOverlap'
  <2>1. CASE phase = "remap" /\ UNCHANGED <<bootloader_data, apic_vaddr>>
    BY <2>1 DEF RInv, RemapMeansOverlap, Disjoint, RangeOf
  <2>2. CASE Halt /\ Remap
    <3>1. UNCHANGED <<bootloader_data, apic_vaddr>>
      BY <2>2 DEF Halt
    <3>2. ~Disjoint(bootloader_data)
      BY <2>2, RemapFindsOverlap DEF RInv
    <3>3. (Disjoint(bootloader_data))' <=> Disjoint(bootloader_data)
      BY <3>1 DEF Disjoint, RangeOf
    <3> QED
      BY <3>2, <3>3 DEF RemapMeansOverlap
  <2>3. phase' = "remap" =>
           \/ phase = "remap" /\ UNCHANGED <<bootloader_data, apic_vaddr>>
           \/ Halt /\ Remap
    BY DEF Next, vars, KernelMain, FreeInitialPage, InitialPagesFreed, AllocateStack,
           AllocateRoot, MapRangeReturns, EnterTable, MakeTable, MapPage, SetVpageRo,
           AddressSpaceDone, SetCr3, ResetSystem, Halt, PageFault, Hang, At
  <2> QED
    BY <2>1, <2>2, <2>3 DEF RemapMeansOverlap
<1> QED
  BY <1>1, <1>2 DEF RInv
-----------------------------------------------------------------------------
(***************************************************************************)
(* The theorems.                                                           *)
(***************************************************************************)
LEMMA Invariance == Spec => []IInv
<1>1. Init => IInv
  BY InitEstablishes
<1>2. IInv /\ [Next]_vars => IInv'
  BY NextPreserves
<1> QED
  BY <1>1, <1>2, PTL DEF Spec

\* Whatever the handover and the garbage in .bss, every variable of the code
\* keeps its type: no walk leaves the four levels, no pointer goes below the
\* window, and every page of memory holds pointers and page-table entries.
THEOREM KernelTypes == Spec => []TypeOK
<1>1. IInv => TypeOK
  BY DEF IInv
<1> QED
  BY <1>1, Invariance, PTL

\* The free list stays whole while map_page takes pages from it and writes
\* tables next to it, for any number of pages and any layout.
THEOREM KernelFreeList == Spec => []FreeListIntact
<1>1. IInv => FreeListIntact
  BY DEF IInv
<1> QED
  BY <1>1, Invariance, PTL

\* map_page builds a tree of tables for any sequence of ranges, also when they
\* overlap or run out of memory half-way.
THEOREM KernelTablesFormTree == Spec => []TablesFormTree
<1>1. IInv => TablesFormTree
  BY DEF IInv
<1> QED
  BY <1>1, Invariance, PTL

\* map_page and set_vpage_ro are at every step in the table that their page's
\* indexes lead to.
THEOREM KernelWalkOnPath == Spec => []WalkOnPath
<1>1. IInv => WalkOnPath
  BY DEF IInv
<1> QED
  BY <1>1, Invariance, PTL

\* map_page's remap check never fires unless two ranges of the handover share a
\* virtual page, whichever tables the ranges share.
THEOREM KernelRemapMeansOverlap == Spec => []RemapMeansOverlap
<1>1. Init => RInv
  <2>1. Init => RemapMeansOverlap
    BY DEF Init, RemapMeansOverlap
  <2>2. Init => LeavesAskedFor
    BY RoleTypes DEF Init, LeavesAskedFor, IsTable
  <2> QED
    BY <2>1, <2>2 DEF RInv
<1>2. IInv /\ IInv' /\ RInv /\ [Next]_vars => RInv'
  BY RemapPreserved
<1>3. RInv => RemapMeansOverlap
  BY DEF RInv
<1> QED
  BY <1>1, <1>2, <1>3, Invariance, PTL DEF Spec

-----------------------------------------------------------------------------
(***************************************************************************)
(* The index the processor computes is the one the code computes.          *)
(***************************************************************************)

\* Division is unique.
LEMMA DivisionUnique ==
    ASSUME NEW y \in Nat \ {0}, NEW q \in Nat, NEW r \in Nat, r < y
    PROVE  (y * q + r) \div y = q
<1> DEFINE x == y * q + r
           d == x \div y
           s == x % y
<1>1. x \in Nat /\ y * q \in Nat
  OBVIOUS
<1>2. d \in Nat /\ s \in Nat /\ s < y /\ x = y * d + s
  <2> HIDE DEF x
  <2> QED BY <1>1
<1> HIDE DEF d, s
<1>3. ASSUME NEW a \in Nat, NEW b \in Nat, a < b PROVE y * a + y <= y * b
  <2>1. PICK e \in Nat : b = a + 1 + e
    BY <1>3
  <2>2. y * b = y * a + y + y * e /\ y * e \in Nat /\ y * a \in Nat
    BY <2>1
  <2> QED BY <2>2
<1>4. y * d \in Nat
  BY <1>2
<1>5. ~(d < q)
  <2> SUFFICES ASSUME d < q PROVE FALSE
    OBVIOUS
  <2>1. y * d + y <= y * q
    BY <1>2, <1>3
  <2> QED BY <1>1, <1>2, <1>4, <2>1
<1>6. ~(q < d)
  <2> SUFFICES ASSUME q < d PROVE FALSE
    OBVIOUS
  <2>1. y * q + y <= y * d
    BY <1>2, <1>3
  <2> QED BY <1>1, <1>2, <1>4, <2>1
<1>7. d = q
  BY <1>2, <1>5, <1>6
<1> QED BY <1>7 DEF d

\* Dividing by y and then by ENTRIES is dividing by their product.
LEMMA DivisionTwice ==
    ASSUME NEW x \in Nat, NEW y \in Nat \ {0}
    PROVE  x \div (y * ENTRIES) = (x \div y) \div ENTRIES
<1> DEFINE E == ENTRIES
           a == x \div y
           r == x % y
           b == a \div E
           s == a % E
<1>0. E \in Nat \ {0}
  BY PagingAssumption
<1>1. a \in Nat /\ r \in Nat /\ r < y /\ x = y * a + r
  OBVIOUS
<1>2. b \in Nat /\ s \in Nat /\ s < E /\ a = E * b + s
  <2> HIDE DEF a, E
  <2> QED BY <1>0, <1>1
<1> HIDE DEF a, r, b, s, E
<1>3. y * E \in Nat \ {0} /\ y * s \in Nat /\ y * s + r \in Nat
  BY <1>0, <1>1, <1>2
<1>4. y * s + r < y * E
  <2>1. PICK e \in Nat : E = s + 1 + e
    BY <1>0, <1>2
  <2>2. y * E = y * s + y + y * e /\ y * e \in Nat
    BY <1>2, <2>1
  <2> QED BY <1>1, <1>3, <2>2
<1>5. x = (y * E) * b + (y * s + r)
  <2>1. y * a = y * (E * b + s)
    BY <1>2
  <2>2. y * (E * b + s) = (y * E) * b + y * s
    BY <1>0, <1>2
  <2>3. (y * E) * b \in Nat /\ y * a \in Nat
    BY <1>0, <1>1, <1>2
  <2> QED BY <1>1, <1>3, <2>1, <2>2, <2>3
<1>6. ((y * E) * b + (y * s + r)) \div (y * E) = b
  BY <1>2, <1>3, <1>4, DivisionUnique
<1> QED BY <1>5, <1>6 DEF b, a, E

\* The processor's index into the table of a level is PAGE_LEVEL_INDEX.
LEMMA ProcessorIndex ==
    ASSUME NEW v \in Nat, NEW l \in Level
    PROVE  (v \div Covers(l)) % ENTRIES = PAGE_LEVEL_INDEX(v, l)
<1> DEFINE E == ENTRIES
<1>1. E \in Nat \ {0} /\ E * E \in Nat \ {0}
  BY PagingAssumption
<1>2. CASE l = 1
  BY <1>2 DEF Covers, PAGE_LEVEL_INDEX, Shifted
<1>3. CASE l = 2
  BY <1>3 DEF Covers, PAGE_LEVEL_INDEX, Shifted
<1>4. v \div (E * E) = (v \div E) \div E
  BY <1>1, DivisionTwice
<1>5. v \div ((E * E) * E) = (v \div (E * E)) \div E
  BY <1>1, DivisionTwice
<1>6. CASE l = 3
  BY <1>4, <1>6 DEF Covers, PAGE_LEVEL_INDEX, Shifted
<1>7. CASE l = 4
  BY <1>4, <1>5, <1>7 DEF Covers, PAGE_LEVEL_INDEX, Shifted
<1> QED BY <1>2, <1>3, <1>6, <1>7 DEF Level
-----------------------------------------------------------------------------
(***************************************************************************)
(* The walk of the processor over the tree.                                *)
(***************************************************************************)
\* The root table, once it is allocated.
Root == FrameOf(address_space)
RootKept ==
    address_space # NULL => Root \in Frame /\ role[Root] = TablePage(4, NoPath)

\* Frame f is the table of level l on the path of page v.
OnPath(f, v, l) == f \in Frame /\ role[f] = TablePage(l, Path(v, l))

\* A table on a path is a table, and there is one for each path.
LEMMA OnPathIsTable ==
    ASSUME IInv, NEW v \in Nat, NEW l \in Level, NEW f, OnPath(f, v, l)
    PROVE  /\ f \in Frame /\ IsTable(f) /\ role[f].level = l
           /\ mem[f] \in Page /\ PAGE_LEVEL_INDEX(v, l) \in Index
           /\ mem[f][PAGE_LEVEL_INDEX(v, l)] \in Word
           /\ \A g : OnPath(g, v, l) => g = f
<1>1. f \in Frame /\ IsTable(f) /\ role[f].level = l
  BY DEF OnPath, IsTable, TablePage
<1>2. mem[f] \in Page
  BY <1>1 DEF IInv, TypeOK
<1>3. PAGE_LEVEL_INDEX(v, l) \in Index
  BY IndexType
<1>4. \A g : OnPath(g, v, l) => g = f
  BY DEF IInv, TablesFormTree, OneTablePerPath, OnPath, IsTable, TablePage
<1> QED BY <1>1, <1>2, <1>3, <1>4 DEF Page

\* The tables above level 1 lead to the next table of the path or nowhere.
LEMMA WalkDown ==
    ASSUME IInv, NEW v \in Nat, NEW l \in 2 .. 4, NEW f, OnPath(f, v, l)
    PROVE  \/ mem[f][PAGE_LEVEL_INDEX(v, l)] = Zero
           \/ \E g \in Frame : /\ mem[f][PAGE_LEVEL_INDEX(v, l)] = Pte(g, TRUE)
                               /\ OnPath(g, v, l - 1)
<1> DEFINE i == PAGE_LEVEL_INDEX(v, l)
<1>0. l \in Level /\ l > 1
  BY DEF Level
<1>1. f \in Frame /\ IsTable(f) /\ role[f].level = l /\ i \in Index
  BY <1>0, OnPathIsTable
<1>2. \/ mem[f][i] = Zero
      \/ \E g \in Frame : mem[f][i] = Pte(g, TRUE) /\ role[g] = Child(role[f], i)
  BY <1>0, <1>1 DEF IInv, TablesFormTree, EntriesLeadDown
<1>3. role[f].path = Path(v, l)
  BY DEF OnPath, TablePage
<1>4. [Path(v, l) EXCEPT ![l] = i] = Path(v, l - 1)
  BY PathProperties
<1>5. Child(role[f], i) = TablePage(l - 1, Path(v, l - 1))
  BY <1>1, <1>3, <1>4 DEF Child
<1> QED BY <1>2, <1>5 DEF OnPath

\* A table below the root is entered from the table above it on the path.
LEMMA WalkUp ==
    ASSUME IInv, NEW v \in Nat, NEW l \in 1 .. 3, NEW g, OnPath(g, v, l)
    PROVE  \E f \in Frame : /\ OnPath(f, v, l + 1)
                            /\ mem[f][PAGE_LEVEL_INDEX(v, l + 1)] = Pte(g, TRUE)
<1> DEFINE j == PAGE_LEVEL_INDEX(v, l + 1)
           s == TablePage(l + 1, Path(v, l + 1))
<1>0. l \in Level /\ l + 1 \in Level /\ l < 4 /\ l + 1 \in 2 .. 4 /\ (l + 1) - 1 = l
  BY DEF Level
<1>1. g \in Frame /\ IsTable(g) /\ role[g].level = l /\ role[g] = TablePage(l, Path(v, l))
  BY <1>0, OnPathIsTable DEF OnPath
<1>2. PICK f \in Frame, i \in Index :
         IsTable(f) /\ role[g] = Child(role[f], i) /\ mem[f][i] = Pte(g, TRUE)
  BY <1>0, <1>1 DEF IInv, TablesFormTree, TablesAreEntered
<1>3. j \in Index /\ Path(v, l + 1) \in [Level -> Index] /\ Path(v, l + 1)[l + 1] = 0
      /\ [Path(v, l + 1) EXCEPT ![l + 1] = j] = Path(v, l)
  <2>1. [Path(v, l + 1) EXCEPT ![l + 1] = j] = Path(v, (l + 1) - 1)
    BY <1>0, PathProperties
  <2>2. l + 1 \in 1 .. l + 1
    OBVIOUS
  <2> QED BY <1>0, <2>1, <2>2, IndexType, PathProperties
<1>4. s \in Role /\ s.use = "table" /\ s.level = l + 1 /\ s.path = Path(v, l + 1)
  BY <1>0, <1>3, RoleTypes DEF TablePage
<1>5. Child(s, j) = role[g]
  <2>1. Child(s, j) = TablePage((l + 1) - 1, [Path(v, l + 1) EXCEPT ![l + 1] = j])
    BY <1>4 DEF Child
  <2> QED BY <1>0, <1>1, <1>3, <2>1
<1>6. /\ role[f] \in Role /\ role[f].use = "table" /\ role[f].level \in Level
      /\ role[f].path[role[f].level] = 0
  <2>1. role[f].level \in 1 .. role[f].level
    BY <1>2 DEF IInv, TablesFormTree, PathsEnd, Level
  <2> QED BY <1>2, <2>1 DEF IInv, TypeOK, TablesFormTree, PathsEnd, IsTable
<1>7. role[f] = s /\ i = j
  <2>1. s.path[s.level] = 0 /\ s.level \in Level
    BY <1>0, <1>3, <1>4
  <2>2. Child(role[f], i) = Child(s, j)
    BY <1>2, <1>5
  <2> HIDE DEF s, j
  <2> QED BY <1>2, <1>3, <1>4, <1>6, <2>1, <2>2, ChildInjective
<1> QED BY <1>2, <1>7 DEF OnPath

\* The processor's entry in the table of a level, for the pages of the code.
LEMMA ProcessorEntry ==
    ASSUME NEW v \in Nat, NEW f
    PROVE  \A l \in Level : Entry(mem, f, v, l) = mem[f][PAGE_LEVEL_INDEX(v, l)]
  BY ProcessorIndex DEF Entry

\* A page the processor finds has a leaf in a table of level 1 on its path.
LEMMA MappedHasLeaf ==
    ASSUME IInv, RootKept, address_space # NULL, NEW v \in Nat, Mapped(mem, Root, v)
    PROVE  \E f \in Frame : OnPath(f, v, 1) /\ mem[f][PAGE_LEVEL_INDEX(v, 1)].p
<1>0. 1 \in Level /\ 2 \in Level /\ 3 \in Level /\ 4 \in Level
  BY DEF Level
<1>1. OnPath(Root, v, 4) /\ ~Zero.p
  BY RootPath DEF RootKept, OnPath, Zero
<1>2. PICK g3 \in Frame : /\ mem[Root][PAGE_LEVEL_INDEX(v, 4)] = Pte(g3, TRUE)
                          /\ OnPath(g3, v, 3)
  <2>1. mem[Root][PAGE_LEVEL_INDEX(v, 4)].p
    BY <1>0, ProcessorEntry DEF Mapped
  <2>2. 4 - 1 = 3 /\ 4 \in 2 .. 4
    OBVIOUS
  <2> QED BY <1>1, <2>1, <2>2, WalkDown
<1>3. Table3(mem, Root, v) = g3
  BY <1>0, <1>2, ProcessorEntry DEF Table3, Pte
<1>4. PICK g2 \in Frame : /\ mem[g3][PAGE_LEVEL_INDEX(v, 3)] = Pte(g2, TRUE)
                          /\ OnPath(g2, v, 2)
  <2>1. mem[g3][PAGE_LEVEL_INDEX(v, 3)].p
    BY <1>0, <1>3, ProcessorEntry DEF Mapped
  <2>2. 3 - 1 = 2 /\ 3 \in 2 .. 4
    OBVIOUS
  <2> QED BY <1>1, <1>2, <2>1, <2>2, WalkDown
<1>5. Table2(mem, Root, v) = g2
  BY <1>0, <1>3, <1>4, ProcessorEntry DEF Table2, Pte
<1>6. PICK g1 \in Frame : /\ mem[g2][PAGE_LEVEL_INDEX(v, 2)] = Pte(g1, TRUE)
                          /\ OnPath(g1, v, 1)
  <2>1. mem[g2][PAGE_LEVEL_INDEX(v, 2)].p
    BY <1>0, <1>5, ProcessorEntry DEF Mapped
  <2>2. 2 - 1 = 1 /\ 2 \in 2 .. 4
    OBVIOUS
  <2> QED BY <1>1, <1>4, <2>1, <2>2, WalkDown
<1>7. Table1(mem, Root, v) = g1
  BY <1>0, <1>5, <1>6, ProcessorEntry DEF Table1, Pte
<1>8. mem[g1][PAGE_LEVEL_INDEX(v, 1)].p
  BY <1>0, <1>7, ProcessorEntry DEF Mapped, Leaf
<1> QED BY <1>6, <1>8

\* A leaf of a table of level 1 is what the processor finds for its page.
LEMMA LeafIsReached ==
    ASSUME IInv, RootKept, address_space # NULL, NEW v \in Nat,
           NEW f, OnPath(f, v, 1)
    PROVE  /\ Leaf(mem, Root, v) = mem[f][PAGE_LEVEL_INDEX(v, 1)]
           /\ Mapped(mem, Root, v) <=> mem[f][PAGE_LEVEL_INDEX(v, 1)].p
           /\ Writable(mem, Root, v) <=> mem[f][PAGE_LEVEL_INDEX(v, 1)].rw
<1>0. 1 \in Level /\ 2 \in Level /\ 3 \in Level /\ 4 \in Level
  BY DEF Level
<1>1. PICK g2 \in Frame : /\ OnPath(g2, v, 2)
                          /\ mem[g2][PAGE_LEVEL_INDEX(v, 2)] = Pte(f, TRUE)
  <2>1. 1 + 1 = 2 /\ 1 \in 1 .. 3
    OBVIOUS
  <2> QED BY <2>1, WalkUp
<1>2. PICK g3 \in Frame : /\ OnPath(g3, v, 3)
                          /\ mem[g3][PAGE_LEVEL_INDEX(v, 3)] = Pte(g2, TRUE)
  <2>1. 2 + 1 = 3 /\ 2 \in 1 .. 3
    OBVIOUS
  <2> QED BY <1>1, <2>1, WalkUp
<1>3. PICK g4 \in Frame : /\ OnPath(g4, v, 4)
                          /\ mem[g4][PAGE_LEVEL_INDEX(v, 4)] = Pte(g3, TRUE)
  <2>1. 3 + 1 = 4 /\ 3 \in 1 .. 3
    OBVIOUS
  <2> QED BY <1>2, <2>1, WalkUp
<1>4. g4 = Root
  <2>1. OnPath(Root, v, 4)
    BY RootPath DEF RootKept, OnPath
  <2> QED BY <1>0, <1>3, <2>1, OnPathIsTable
<1>5. /\ Entry(mem, Root, v, 4) = Pte(g3, TRUE) /\ Entry(mem, g3, v, 3) = Pte(g2, TRUE)
      /\ Entry(mem, g2, v, 2) = Pte(f, TRUE)
      /\ Entry(mem, f, v, 1) = mem[f][PAGE_LEVEL_INDEX(v, 1)]
  BY <1>0, <1>1, <1>2, <1>3, <1>4, ProcessorEntry
<1>6. \A g : Pte(g, TRUE).addr = g /\ Pte(g, TRUE).p = TRUE /\ Pte(g, TRUE).rw = TRUE
  BY DEF Pte
<1>7. Table3(mem, Root, v) = g3
  BY <1>5, <1>6 DEF Table3
<1>8. Table2(mem, Root, v) = g2
  BY <1>5, <1>6, <1>7 DEF Table2
<1>9. Table1(mem, Root, v) = f
  BY <1>5, <1>6, <1>8 DEF Table1
<1>10. Leaf(mem, Root, v) = mem[f][PAGE_LEVEL_INDEX(v, 1)]
  BY <1>5, <1>9 DEF Leaf
<1> QED BY <1>5, <1>6, <1>7, <1>8, <1>9, <1>10 DEF Mapped, Writable
-----------------------------------------------------------------------------
(***************************************************************************)
(* The order in which kernel_main and main2 do things.                     *)
(***************************************************************************)
Early == {"kernel_main", "free", "stack", "root"}

\* The root exists from new_address_space on, all ranges are mapped before RELRO
\* is protected, and the switch comes last.
Stage ==
    LET b == bootloader_data IN
    /\ phase \in Early => address_space = NULL
    /\ phase \in {"map", "relro", "set_cr3", "main2"} => address_space # NULL
    /\ phase \in {"relro", "set_cr3", "main2"} => call > NumCalls(b)
    /\ phase \in Early \cup {"map", "relro", "set_cr3"} => cr3 = BOOT
    /\ cr3 # BOOT => address_space # NULL /\ cr3 = Root /\ call > NumCalls(b)
    /\ phase = "root" \/ address_space # NULL => new_stack \in FreeMemory(b)

\* A pointer to a frame is not NULL.
LEMMA FrameNotNull ==
    ASSUME IInv, NEW ptr \in Nat, FrameOf(ptr) \in Frame
    PROVE  ptr # NULL /\ FrameOf(ptr) \in Nat /\ FrameOf(ptr) # BOOT
<1>1. bootloader_data.paddr_base \in Nat \ {0} /\ FrameOf(ptr) \in Nat
  BY StateTypes, HandoverTypes
<1> QED BY <1>1 DEF FrameOf, NULL, BOOT

\* Every step keeps the order.
LEMMA StagePreserved ==
    ASSUME IInv, IInv', Stage, [Next]_vars PROVE Stage'
<1> DEFINE b == bootloader_data
<1>0. b \in BootloaderData /\ call \in Nat /\ NumCalls(b) \in Nat
  BY StateTypes, NumCallsType DEF IInv, TypeOK
<1>1. CASE KernelMain \/ FreeInitialPage \/ InitialPagesFreed
  BY <1>1 DEF KernelMain, FreeInitialPage, InitialPagesFreed, At, Stage, Early, Root, FrameOf, loop
<1>2. CASE AllocateStack
  <2>1. free_list # NULL /\ phase = "stack" /\ phase' = "root" /\ new_stack' = free_list
        /\ UNCHANGED <<bootloader_data, address_space, call, cr3>>
    BY <1>2 DEF AllocateStack, At, TakePage, Allocated, Returned, Implied, APP_NORMAL, loop
  <2>2. free_list \in FreeMemory(b)
    BY <2>1, HeadIsFree
  <2> QED BY <2>1, <2>2 DEF Stage, Early, Root, FrameOf
<1>3. CASE AllocateRoot
  <2>1. phase = "root" /\ phase' = "map" /\ UNCHANGED <<bootloader_data, new_stack, call, cr3>>
    BY <1>3 DEF AllocateRoot, At
  <2>2. FrameOf(address_space)' \in Frame /\ address_space' \in Nat
    BY <2>1 DEF IInv, WalkOnPath, TypeOK
  <2>3. address_space' # NULL
    <3>1. FrameOf(address_space') \in Frame
      BY <2>1, <2>2 DEF FrameOf
    <3> QED BY <2>2, <3>1, FrameNotNull
  <2> QED BY <2>1, <2>3 DEF Stage, Early
<1>4. CASE MapRangeReturns
  <2>1. /\ phase = "map" /\ call' = call + 1
        /\ phase' = IF call = NumCalls(b) THEN "relro" ELSE "map"
        /\ UNCHANGED <<bootloader_data, address_space, new_stack, cr3>>
    BY <1>4 DEF MapRangeReturns, At
  <2> HIDE DEF b
  <2>2. call = NumCalls(b) => call' > NumCalls(b)
    BY <1>0, <2>1
  <2> QED BY <2>1, <2>2 DEF Stage, Early, b
<1>5. CASE EnterTable \/ MakeTable \/ MapPage \/ SetVpageRo
  <2>1. UNCHANGED <<phase, bootloader_data, address_space, new_stack, call, cr3>>
    BY <1>5 DEF EnterTable, MakeTable, MapPage, SetVpageRo, loop
  <2> QED BY <2>1 DEF Stage, Root, FrameOf
<1>6. CASE AddressSpaceDone
  <2>1. /\ phase = "relro" /\ phase' = "set_cr3"
        /\ UNCHANGED <<bootloader_data, address_space, new_stack, call, cr3>>
    BY <1>6 DEF AddressSpaceDone, At, loop
  <2> QED BY <2>1 DEF Stage, Early, Root, FrameOf
<1>7. CASE SetCr3
  <2>1. /\ phase = "set_cr3" /\ phase' = "main2" /\ cr3' = Root
        /\ UNCHANGED <<bootloader_data, address_space, new_stack, call>>
    BY <1>7 DEF SetCr3, At, loop, Root
  <2> QED BY <2>1 DEF Stage, Early, Root, FrameOf
<1>8. CASE ResetSystem \/ Halt \/ PageFault
  <2>1. /\ phase' \in {"shutdown", "nomem", "remap", "assert", "fault"}
        /\ UNCHANGED <<bootloader_data, address_space, new_stack, call, cr3>>
    BY <1>8 DEF ResetSystem, Halt, PageFault, loop
  <2> QED BY <2>1 DEF Stage, Early, Root, FrameOf
<1>9. CASE Hang \/ UNCHANGED vars
  <2>1. UNCHANGED <<phase, bootloader_data, address_space, new_stack, call, cr3>>
    BY <1>9 DEF Hang, vars
  <2> QED BY <2>1 DEF Stage, Root, FrameOf
<1> QED
  BY <1>1, <1>2, <1>3, <1>4, <1>5, <1>6, <1>7, <1>8, <1>9 DEF Next

\* A table keeps its role: only free pages get a new one.
LEMMA TablesStay ==
    ASSUME IInv, [Next]_vars, NEW f \in Frame, IsTable(f)
    PROVE  role'[f] = role[f]
<1>0. role \in [Frame -> Role] /\ role[f] # FreePage
  BY RoleTypes DEF IInv, TypeOK, IsTable
<1>1. CASE FreeInitialPage
  BY <1>1 DEF FreeInitialPage, At, IInv, Progress
<1>2. CASE AllocateStack \/ AllocateRoot \/ MakeTable
  <2>1. phase # "kernel_main" /\ free_list # NULL
        /\ \E r : role' = [role EXCEPT ![FrameOf(free_list)] = r]
    BY <1>2 DEF AllocateStack, AllocateRoot, MakeTable, At, TakePage
  <2>2. role[FrameOf(free_list)] = FreePage
    BY <2>1, HeadIsFree
  <2> QED BY <1>0, <2>1, <2>2
<1>3. CASE UNCHANGED role
  BY <1>3
<1> QED
  BY <1>1, <1>2, <1>3 DEF Next, vars, KernelMain, InitialPagesFreed, MapRangeReturns, EnterTable,
         MapPage, SetVpageRo, AddressSpaceDone, SetCr3, ResetSystem, Halt, PageFault, Hang

\* The root stays where it is.
LEMMA RootPreserved ==
    ASSUME IInv, IInv', Stage, RootKept, [Next]_vars PROVE RootKept'
<1>1. CASE AllocateRoot
  BY <1>1 DEF AllocateRoot, At, IInv, WalkOnPath, RootKept, Root
<1>2. CASE ~AllocateRoot
  <2>1. UNCHANGED <<address_space, bootloader_data>>
    BY <1>2 DEF Next, vars, KernelMain, FreeInitialPage, InitialPagesFreed, AllocateStack,
           MapRangeReturns, EnterTable, MakeTable, MapPage, SetVpageRo, AddressSpaceDone,
           SetCr3, ResetSystem, Halt, PageFault, Hang
  <2>2. Root' = Root
    BY <2>1 DEF Root, FrameOf
  <2>3. address_space # NULL => Root \in Frame /\ IsTable(Root)
    BY RoleTypes DEF RootKept, IsTable
  <2> QED BY <2>1, <2>2, <2>3, TablesStay DEF RootKept
<1> QED BY <1>1, <1>2

\* relro is the last RELRO segment that the loop over the segments has passed.
RelroSeen ==
    LET b == bootloader_data IN
    /\ relro # 0 => b.phdrs[relro].p_type = "PT_GNU_RELRO"
    /\ \A i \in 1 .. Len(b.phdrs) :
          b.phdrs[i].p_type = "PT_GNU_RELRO" /\ i < call - 3 - Len(b.MemoryMap) => i <= relro

\* Every step keeps track of RELRO.
LEMMA RelroPreserved ==
    ASSUME IInv, RelroSeen, [Next]_vars PROVE RelroSeen'
<1> DEFINE b == bootloader_data
           n == Len(b.MemoryMap)
           m == Len(b.phdrs)
<1>1. CASE MapRangeReturns
  <2>1. /\ phase = "map" /\ call' = call + 1 /\ relro' = RelroAfter(b, call)
        /\ bootloader_data' = b
    BY <1>1 DEF MapRangeReturns, At
  <2>2. /\ n \in Nat /\ m \in Nat /\ call \in 1 .. NumCalls(b) /\ NumCalls(b) = 3 + n + m
        /\ relro \in 0 .. m
    BY <2>1, StateTypes, NumCallsType DEF IInv, TypeOK, Progress, NumCalls
  <2> DEFINE i == call - 3 - n
  <2>3. relro' = IF i >= 1 /\ b.phdrs[i].p_type = "PT_GNU_RELRO" THEN i ELSE relro
    BY <2>1 DEF RelroAfter
  <2>4. relro' # 0 => b.phdrs[relro'].p_type = "PT_GNU_RELRO"
    BY <2>3 DEF RelroSeen
  <2>5. ASSUME NEW k \in 1 .. m, b.phdrs[k].p_type = "PT_GNU_RELRO", k < call' - 3 - n
        PROVE  k <= relro'
    <3>1. k < i \/ k = i
      <4> HIDE DEF n, m, b
      <4> QED BY <2>1, <2>2, <2>5
    <3>2. k < i => k <= relro
      BY <2>5 DEF RelroSeen
    <3>3. i \in Int
      <4> HIDE DEF n, m, b
      <4> QED BY <2>2
    <3> HIDE DEF n, m, b, i
    <3> QED BY <2>2, <2>3, <2>5, <3>1, <3>2, <3>3
  <2> QED BY <2>1, <2>4, <2>5 DEF RelroSeen
<1>2. CASE ~MapRangeReturns
  <2>1. UNCHANGED <<bootloader_data, relro, call>>
    BY <1>2 DEF Next, vars, KernelMain, FreeInitialPage, InitialPagesFreed, AllocateStack,
           AllocateRoot, EnterTable, MakeTable, MapPage, SetVpageRo, AddressSpaceDone,
           SetCr3, ResetSystem, Halt, PageFault, Hang, loop
  <2> QED BY <2>1 DEF RelroSeen
<1> QED BY <1>1, <1>2
-----------------------------------------------------------------------------
(***************************************************************************)
(* Every page that map_page has finished has its leaf.                     *)
(***************************************************************************)
\* Page k of call c, and the leaf it is to have.
Asked(c, k) == RangeOf(c).vpage + k
Wanted(c, k) ==
    Pte(RangeOf(c).ppage + k, RangeOf(c).rw /\ Asked(c, k) \notin Protected)

CompletedMapped ==
    address_space # NULL =>
       \A c, k : IsCompleted(c, k) =>
          \E f \in Frame : /\ OnPath(f, Asked(c, k), 1)
                           /\ mem[f][PAGE_LEVEL_INDEX(Asked(c, k), 1)] = Wanted(c, k)

TInv == Stage /\ RootKept /\ RelroSeen /\ LeavesAskedFor /\ CompletedMapped

\* The ranges of the calls are typed and lie in the address space.
LEMMA RangesInSpace ==
    ASSUME IInv, phase # "kernel_main", NEW c \in 1 .. NumCalls(bootloader_data)
    PROVE  RangeOf(c) \in RangeType /\ Pages(RangeOf(c)) \subseteq VPage
<1>1. apic_vaddr = bootloader_data.mmio_base - 1 /\ apic_vaddr \in Nat
      /\ bootloader_data \in BootloaderData
  BY DEF IInv, Progress, TypeOK
<1> QED BY <1>1, RangeTypes, LayoutAssumption DEF RangeOf

\* A finished page is a page of its range.
LEMMA CompletedPage ==
    ASSUME IInv, phase # "kernel_main", NEW c, NEW k, IsCompleted(c, k)
    PROVE  /\ c \in 1 .. NumCalls(bootloader_data) /\ k \in Nat
           /\ Asked(c, k) \in VPage /\ Asked(c, k) \in Nat
           /\ Asked(c, k) \in Pages(RangeOf(c))
           /\ RangeOf(c).ppage + k \in Nat /\ RangeOf(c).rw \in BOOLEAN
<1>1. c \in 1 .. NumCalls(bootloader_data) /\ k \in Nat /\ k < RangeOf(c).n
  BY DEF IsCompleted
<1>2. RangeOf(c) \in RangeType /\ Pages(RangeOf(c)) \subseteq VPage
  BY <1>1, RangesInSpace
<1>3. /\ RangeOf(c).vpage \in Nat /\ RangeOf(c).n \in Int /\ RangeOf(c).ppage \in Nat
      /\ RangeOf(c).rw \in BOOLEAN
  BY <1>2 DEF RangeType
<1>4. Asked(c, k) \in Pages(RangeOf(c)) /\ Asked(c, k) \in Nat /\ RangeOf(c).ppage + k \in Nat
  BY <1>1, <1>3 DEF Asked, Pages
<1> QED BY <1>1, <1>2, <1>3, <1>4

\* A page is known by the path to its leaf's table and the index in it.
LEMMA PathIdentifies ==
    ASSUME NEW v \in VPage, NEW w \in VPage, Path(v, 1) = Path(w, 1),
           PAGE_LEVEL_INDEX(v, 1) = PAGE_LEVEL_INDEX(w, 1)
    PROVE  v = w
<1>1. \A l \in 2 .. 4 : l > 1 /\ l \in Level
  BY DEF Level
<1>2. \A l \in 2 .. 4 : /\ Path(v, 1)[l] = PAGE_LEVEL_INDEX(v, l)
                        /\ Path(w, 1)[l] = PAGE_LEVEL_INDEX(w, l)
  BY <1>1 DEF Path
<1>3. \A l \in Level : l = 1 \/ l \in 2 .. 4
  BY DEF Level
<1>4. \A l \in Level : PAGE_LEVEL_INDEX(v, l) = PAGE_LEVEL_INDEX(w, l)
  BY <1>2, <1>3
<1> QED BY <1>4, IndexesIdentify

\* A step that finishes no page, protects none and writes no leaf.
LEMMA NoLeafWritten ==
    ASSUME IInv, [Next]_vars, CompletedMapped, address_space # NULL,
           UNCHANGED <<bootloader_data, apic_vaddr>>, Protected' = Protected,
           \A c, k : IsCompleted(c, k)' => IsCompleted(c, k),
           \A f \in Frame : IsTable(f) /\ role[f].level = 1 => mem'[f] = mem[f]
    PROVE  CompletedMapped'
<1> SUFFICES ASSUME NEW c, NEW k, IsCompleted(c, k)'
             PROVE  (\E f \in Frame :
                        /\ OnPath(f, Asked(c, k), 1)
                        /\ mem[f][PAGE_LEVEL_INDEX(Asked(c, k), 1)] = Wanted(c, k))'
  BY DEF CompletedMapped
<1>1. PICK f \in Frame : /\ OnPath(f, Asked(c, k), 1)
                         /\ mem[f][PAGE_LEVEL_INDEX(Asked(c, k), 1)] = Wanted(c, k)
  BY DEF CompletedMapped
<1>2. IsTable(f) /\ role[f].level = 1
  BY <1>1 DEF OnPath, IsTable, TablePage
<1>3. role'[f] = role[f] /\ mem'[f] = mem[f]
  BY <1>2, TablesStay
<1>4. Asked(c, k)' = Asked(c, k) /\ Wanted(c, k)' = Wanted(c, k)
  BY DEF Asked, Wanted, RangeOf
<1>5. OnPath(f, Asked(c, k), 1)'
  BY <1>1, <1>3, <1>4 DEF OnPath
<1> QED BY <1>1, <1>3, <1>4, <1>5

\* The step that writes a leaf finishes its page, and disturbs none that was
\* finished before.
LEMMA MapPageCompletes ==
    ASSUME IInv, Stage, CompletedMapped, MapPage PROVE CompletedMapped'
<1> DEFINE t == FrameOf(table)
           j == PAGE_LEVEL_INDEX(vpage, 1)
           w == Pte(Call.ppage + page, Call.rw)
           N == NumCalls(bootloader_data)
<1>1. /\ phase = "map" /\ Walking /\ level = 1 /\ ~entry.p /\ page' = page + 1
      /\ mem' = [mem EXCEPT ![t][j] = w] /\ page < Call.n
      /\ UNCHANGED <<bootloader_data, apic_vaddr, call, role, address_space>>
  BY DEF MapPage, At, NextPage, Walking
<1>2. /\ t \in Frame /\ role[t] = TablePage(1, Path(vpage, 1)) /\ j \in Index
      /\ mem \in [Frame -> [Index -> Word]] /\ entry = mem[t][j]
      /\ call \in 1 .. N /\ page \in Nat /\ N \in Nat /\ vpage \in Nat
  BY <1>1, WalkFacts, StateTypes, NumCallsType DEF IInv, TypeOK, Page, Progress
<1>3. \A f \in Frame, i \in Index : ~(f = t /\ i = j) => mem'[f][i] = mem[f][i]
  <2> HIDE DEF t, j, w
  <2> QED BY <1>1, <1>2
<1>4. mem'[t][j] = w
  <2> HIDE DEF t, j, w
  <2> QED BY <1>1, <1>2
<1>5. Protected = {} /\ Protected' = {}
  <2>1. ~(call > N)
    BY <1>2
  <2> QED BY <1>1, <2>1 DEF Protected
<1>6. address_space # NULL /\ phase # "kernel_main"
  BY <1>1 DEF Stage
<1> SUFFICES ASSUME NEW c, NEW k, IsCompleted(c, k)'
             PROVE  (\E f \in Frame :
                        /\ OnPath(f, Asked(c, k), 1)
                        /\ mem[f][PAGE_LEVEL_INDEX(Asked(c, k), 1)] = Wanted(c, k))'
  BY DEF CompletedMapped
<1>7. RangeOf(c)' = RangeOf(c) /\ Asked(c, k)' = Asked(c, k) /\ Wanted(c, k)' = Wanted(c, k)
  BY <1>1, <1>5 DEF RangeOf, Asked, Wanted
<1>8. \A f \in Frame : OnPath(f, Asked(c, k), 1)' <=> OnPath(f, Asked(c, k), 1)
  BY <1>1, <1>7 DEF OnPath
<1>9. CASE IsCompleted(c, k)
  <2>1. PICK f \in Frame : /\ OnPath(f, Asked(c, k), 1)
                           /\ mem[f][PAGE_LEVEL_INDEX(Asked(c, k), 1)] = Wanted(c, k)
    BY <1>6, <1>9 DEF CompletedMapped
  <2>2. Wanted(c, k).p
    BY DEF Wanted, Pte
  <2>3. PAGE_LEVEL_INDEX(Asked(c, k), 1) \in Index
    BY <1>6, <1>9, CompletedPage, IndexType DEF Level
  <2>4. ~(f = t /\ PAGE_LEVEL_INDEX(Asked(c, k), 1) = j)
    <3> HIDE DEF t, j
    <3> QED BY <1>1, <1>2, <2>1, <2>2
  <2>5. mem'[f][PAGE_LEVEL_INDEX(Asked(c, k), 1)] = Wanted(c, k)
    BY <1>3, <2>1, <2>3, <2>4
  <2> QED BY <1>7, <1>8, <2>1, <2>5
<1>10. CASE ~IsCompleted(c, k)
  <2>1. c = call /\ k = page
    <3>1. /\ c \in 1 .. N /\ k \in Nat /\ k < RangeOf(c).n
          /\ c < call \/ (c = call /\ k < page + 1)
      BY <1>1, <1>7 DEF IsCompleted
    <3>2. ~(c < call \/ (c = call /\ k < page))
      BY <3>1, <1>10 DEF IsCompleted
    <3> HIDE DEF N
    <3> QED BY <1>2, <3>1, <3>2
  <2>2. RangeOf(c) = Call
    BY <2>1 DEF RangeOf, Call
  <2>3. Asked(c, k) = vpage
    BY <1>1, <2>1, <2>2 DEF Asked, vpage
  <2>4. Call.rw \in BOOLEAN
    BY <1>1, StateTypes DEF RangeType
  <2>5. Wanted(c, k) = w
    BY <1>5, <2>1, <2>2, <2>4 DEF Wanted
  <2>6. OnPath(t, Asked(c, k), 1)
    BY <1>2, <2>3 DEF OnPath
  <2> QED BY <1>2, <1>4, <1>7, <1>8, <2>3, <2>5, <2>6
<1> QED BY <1>9, <1>10

\* The page set_vpage_ro is at is a page of the address space, outside the
\* window.
LEMMA RelroPage ==
    ASSUME IInv, RelroSeen, phase = "relro", Walking
    PROVE  /\ vpage \in VPage /\ vpage \notin BootWindow(bootloader_data)
           /\ relro \in 1 .. Len(bootloader_data.phdrs)
<1> DEFINE b == bootloader_data
           h == b.phdrs[relro]
<1>1. page < RelroPages(b) /\ page \in Nat /\ vpage = h.vpage + page /\ b \in BootloaderData
  BY DEF Walking, vpage, IInv, TypeOK
<1>2. relro # 0 /\ RelroPages(b) = NUM_PAGES(h.offset, h.p_memsz)
  BY <1>1 DEF RelroPages
<1>3. relro \in 1 .. Len(b.phdrs) /\ h \in Phdr /\ RelroPages(b) \in Int
  <2>1. Len(b.phdrs) \in Nat
    BY <1>1, NumCallsType
  <2> QED BY <1>2, <2>1, StateTypes DEF IInv, TypeOK
<1>4. h.vpage .. h.vpage + NUM_PAGES(h.offset, h.p_memsz) - 1 \subseteq VPage \ BootWindow(b)
  <2>1. h.p_type = "PT_GNU_RELRO"
    BY <1>2 DEF RelroSeen
  <2> QED BY <1>1, <1>3, <2>1, LayoutAssumption DEF RelroApart
<1>5. vpage \in h.vpage .. h.vpage + NUM_PAGES(h.offset, h.p_memsz) - 1
  <2>1. h.vpage \in Nat
    BY <1>3 DEF Phdr
  <2> HIDE DEF h, b
  <2> QED BY <1>1, <1>2, <1>3, <2>1
<1> QED BY <1>3, <1>4, <1>5

\* Protecting a page takes PTE_RW from its leaf and changes no other.
LEMMA SetVpageRoProtects ==
    ASSUME IInv, Stage, RelroSeen, CompletedMapped, SetVpageRo PROVE CompletedMapped'
<1> DEFINE t == FrameOf(table)
           j == PAGE_LEVEL_INDEX(vpage, 1)
           N == NumCalls(bootloader_data)
<1>1. /\ phase = "relro" /\ Walking /\ level = 1 /\ entry.p /\ page' = page + 1
      /\ mem' = [mem EXCEPT ![t][j] = ReadOnly(entry)]
      /\ UNCHANGED <<bootloader_data, apic_vaddr, call, relro, role, address_space>>
  BY DEF SetVpageRo, At, NextPage
<1>2. /\ t \in Frame /\ role[t] = TablePage(1, Path(vpage, 1)) /\ j \in Index
      /\ mem \in [Frame -> [Index -> Word]] /\ entry = mem[t][j]
      /\ page \in Nat /\ call \in Nat /\ N \in Nat /\ vpage \in Nat /\ vpage \in VPage
  BY <1>1, WalkFacts, StateTypes, NumCallsType, RelroPage DEF IInv, TypeOK, Page
<1>3. \A f \in Frame, i \in Index : ~(f = t /\ i = j) => mem'[f][i] = mem[f][i]
  <2> HIDE DEF t, j
  <2> QED BY <1>1, <1>2
<1>4. mem'[t][j] = ReadOnly(mem[t][j])
  <2> HIDE DEF t, j
  <2> QED BY <1>1, <1>2
<1>5. Protected' = Protected \cup {vpage}
  <2>1. call > N /\ vpage = bootloader_data.phdrs[relro].vpage + page
    BY <1>1 DEF Stage, vpage
  <2>2. \A x : x \in 0 .. (page + 1) - 1 <=> x \in 0 .. page - 1 \/ x = page
    BY <1>2
  <2> QED BY <1>1, <2>1, <2>2 DEF Protected
<1>6. address_space # NULL /\ phase # "kernel_main"
  BY <1>1 DEF Stage
<1> SUFFICES ASSUME NEW c, NEW k, IsCompleted(c, k)'
             PROVE  (\E f \in Frame :
                        /\ OnPath(f, Asked(c, k), 1)
                        /\ mem[f][PAGE_LEVEL_INDEX(Asked(c, k), 1)] = Wanted(c, k))'
  BY DEF CompletedMapped
<1>7. RangeOf(c)' = RangeOf(c) /\ Asked(c, k)' = Asked(c, k)
  BY <1>1 DEF RangeOf, Asked
<1>8. IsCompleted(c, k)
  <2>1. /\ c \in 1 .. N /\ k \in Nat /\ k < RangeOf(c).n
    BY <1>1, <1>7 DEF IsCompleted
  <2>2. c < call
    BY <1>1, <1>2, <2>1 DEF Stage
  <2> QED BY <2>1, <2>2 DEF IsCompleted
<1>9. PICK f \in Frame : /\ OnPath(f, Asked(c, k), 1)
                         /\ mem[f][PAGE_LEVEL_INDEX(Asked(c, k), 1)] = Wanted(c, k)
  BY <1>6, <1>8 DEF CompletedMapped
<1>10. OnPath(f, Asked(c, k), 1)'
  BY <1>1, <1>7, <1>9 DEF OnPath
<1>11. /\ Asked(c, k) \in VPage /\ Asked(c, k) \in Nat /\ RangeOf(c).rw \in BOOLEAN
       /\ PAGE_LEVEL_INDEX(Asked(c, k), 1) \in Index
  BY <1>6, <1>8, CompletedPage, IndexType DEF Level
<1>12. CASE Asked(c, k) = vpage
  <2>1. f = t
    BY <1>2, <1>9, <1>12, OnPathIsTable DEF OnPath, Level
  <2>2. mem'[f][j] = ReadOnly(Wanted(c, k))
    BY <1>4, <1>9, <1>12, <2>1
  <2>3. Wanted(c, k)' = Pte(RangeOf(c).ppage + k, FALSE)
    BY <1>5, <1>7, <1>12 DEF Wanted
  <2>4. ReadOnly(Wanted(c, k)) = Pte(RangeOf(c).ppage + k, FALSE)
    BY DEF Wanted, ReadOnly, Pte
  <2> QED BY <1>7, <1>10, <1>12, <2>2, <2>3, <2>4
<1>13. CASE Asked(c, k) # vpage
  <2>1. ~(f = t /\ PAGE_LEVEL_INDEX(Asked(c, k), 1) = j)
    <3> SUFFICES ASSUME f = t, PAGE_LEVEL_INDEX(Asked(c, k), 1) = j PROVE FALSE
      OBVIOUS
    <3>1. Path(Asked(c, k), 1) = Path(vpage, 1)
      BY <1>2, <1>9 DEF OnPath, TablePage
    <3> QED BY <1>2, <1>11, <1>13, <3>1, PathIdentifies
  <2>2. mem'[f][PAGE_LEVEL_INDEX(Asked(c, k), 1)] = Wanted(c, k)
    BY <1>3, <1>9, <1>11, <2>1
  <2>3. Wanted(c, k)' = Wanted(c, k)
    BY <1>5, <1>7, <1>13 DEF Wanted
  <2> QED BY <1>7, <1>10, <2>2, <2>3
<1> QED BY <1>12, <1>13

\* The table that map_page makes is cleared and entered without a word of a
\* leaf being written.
LEMMA MakeTableKeepsLeaves ==
    ASSUME IInv, MakeTable, NEW f \in Frame, IsTable(f), role[f].level = 1
    PROVE  mem'[f] = mem[f]
<1> DEFINE g == FrameOf(free_list)
           t == FrameOf(table)
           j == PAGE_LEVEL_INDEX(vpage, level)
           w == Pte(Allocated({"APP_PTE"}), TRUE)
<1>1. /\ phase = "map" /\ Walking /\ level > 1 /\ free_list # NULL
      /\ mem' = [[mem EXCEPT ![g] = ZeroPage] EXCEPT ![t][j] = w]
  BY DEF MakeTable, At, TakePage, AfterAllocate, AllocatePhysicalPage, Implied, FrameOf
<1>2. /\ g \in Frame /\ role[g] = FreePage
      /\ t \in Frame /\ role[t] = TablePage(level, Path(vpage, level))
      /\ mem \in [Frame -> Page] /\ level \in Nat
  BY <1>1, HeadIsFree, WalkFacts DEF IInv, TypeOK, Level
<1>3. f # t
  BY <1>1, <1>2 DEF TablePage
<1>4. f # g
  BY <1>2, RoleTypes DEF IsTable
<1> HIDE DEF g, t, j, w
<1> QED BY <1>1, <1>2, <1>3, <1>4

\* The steps that neither write nor protect a leaf.
LEMMA OthersComplete ==
    ASSUME IInv, Stage, CompletedMapped, [Next]_vars, ~MapPage, ~SetVpageRo
    PROVE  CompletedMapped'
<1> DEFINE N == NumCalls(bootloader_data)
<1>0. call \in Nat /\ page \in Nat /\ N \in Nat
  BY StateTypes, NumCallsType DEF IInv, TypeOK
<1>1. CASE KernelMain \/ FreeInitialPage \/ InitialPagesFreed \/ AllocateStack
  <2>1. address_space' = NULL
    BY <1>1 DEF KernelMain, FreeInitialPage, InitialPagesFreed, AllocateStack, At, Stage, Early
  <2> QED BY <2>1 DEF CompletedMapped
<1>2. CASE AllocateRoot
  <2>1. call' = 1 /\ page' = 0
    BY <1>2 DEF AllocateRoot, At, IInv, Progress
  <2>2. \A c, k : ~IsCompleted(c, k)'
    <3> SUFFICES ASSUME NEW c, NEW k, IsCompleted(c, k)' PROVE FALSE
      OBVIOUS
    <3>1. c \in Nat /\ c >= 1 /\ k \in Nat /\ (c < 1 \/ (c = 1 /\ k < 0))
      <4>1. c \in 1 .. N
        BY <1>2 DEF AllocateRoot, IsCompleted
      <4> HIDE DEF N
      <4> QED BY <1>0, <2>1, <4>1 DEF IsCompleted
    <3> QED BY <3>1
  <2> QED BY <2>2 DEF CompletedMapped
<1>3. CASE address_space # NULL /\ MapRangeReturns
  <2>1. /\ phase = "map" /\ page >= Call.n /\ call' = call + 1 /\ page' = 0
        /\ UNCHANGED <<bootloader_data, apic_vaddr, mem, role>>
    BY <1>3 DEF MapRangeReturns, At
  <2>2. call \in 1 .. N /\ Call \in RangeType
    BY <2>1, StateTypes DEF IInv, Progress
  <2>3. Protected' = Protected
    <3>1. ~(call > N)
      BY <1>0, <2>2
    <3>2. call' > N => page' = 0
      BY <2>1
    <3>3. NumCalls(bootloader_data)' = N
      BY <2>1
    <3>4. 0 .. 0 - 1 = {}
      OBVIOUS
    <3> QED BY <3>1, <3>2, <3>3, <3>4 DEF Protected
  <2>4. ASSUME NEW c, NEW k, IsCompleted(c, k)' PROVE IsCompleted(c, k)
    <3>1. RangeOf(c)' = RangeOf(c)
      BY <2>1 DEF RangeOf
    <3>2. /\ c \in 1 .. N /\ k \in Nat /\ k < RangeOf(c).n
          /\ c < call + 1 \/ (c = call + 1 /\ k < 0)
      BY <2>1, <2>4, <3>1 DEF IsCompleted
    <3>3. c = call => RangeOf(c) = Call
      BY DEF RangeOf, Call
    <3>4. Call.n \in Int
      BY <2>2 DEF RangeType
    <3>5. c < call \/ (c = call /\ k < page)
      <4> HIDE DEF N
      <4> QED BY <1>0, <2>1, <3>2, <3>3, <3>4
    <3> QED BY <3>2, <3>5 DEF IsCompleted
  <2> QED BY <1>3, <2>1, <2>3, <2>4, NoLeafWritten
<1>4. CASE address_space # NULL /\ MakeTable
  <2>1. UNCHANGED <<bootloader_data, apic_vaddr, call, page, relro>>
    BY <1>4 DEF MakeTable, loop
  <2>2. Protected' = Protected /\ \A c, k : IsCompleted(c, k)' <=> IsCompleted(c, k)
    BY <2>1 DEF Protected, IsCompleted, RangeOf
  <2> QED BY <1>4, <2>1, <2>2, MakeTableKeepsLeaves, NoLeafWritten
<1>5. CASE /\ address_space # NULL
           /\ EnterTable \/ AddressSpaceDone \/ SetCr3 \/ ResetSystem \/ Halt
              \/ PageFault \/ Hang \/ UNCHANGED vars
  <2>1. UNCHANGED <<bootloader_data, apic_vaddr, call, page, relro, mem>>
    BY <1>5 DEF EnterTable, AddressSpaceDone, SetCr3, ResetSystem, Halt,
                PageFault, Hang, vars, loop
  <2>2. Protected' = Protected /\ \A c, k : IsCompleted(c, k)' <=> IsCompleted(c, k)
    BY <2>1 DEF Protected, IsCompleted, RangeOf
  <2> QED BY <1>5, <2>1, <2>2, NoLeafWritten
<1>6. CASE address_space = NULL /\ ~AllocateRoot
  <2>1. address_space' = NULL
    BY <1>6 DEF Next, vars, KernelMain, FreeInitialPage, InitialPagesFreed, AllocateStack,
           MapRangeReturns, EnterTable, MakeTable, MapPage, SetVpageRo, AddressSpaceDone,
           SetCr3, ResetSystem, Halt, PageFault, Hang
  <2> QED BY <2>1 DEF CompletedMapped
<1> QED
  BY <1>1, <1>2, <1>3, <1>4, <1>5, <1>6 DEF Next

\* The initial states.
LEMMA InitTInv == Init => TInv
<1> SUFFICES ASSUME Init PROVE TInv
  OBVIOUS
<1>1. Stage
  BY DEF Init, Stage, Early
<1>2. RootKept /\ CompletedMapped
  BY DEF Init, RootKept, CompletedMapped
<1>3. LeavesAskedFor
  BY RoleTypes DEF Init, LeavesAskedFor, IsTable
<1>4. RelroSeen
  <2> DEFINE n == Len(bootloader_data.MemoryMap)
  <2>1. n \in Nat /\ call = 1 /\ relro = 0
    BY NumCallsType DEF Init
  <2>2. \A i \in 1 .. Len(bootloader_data.phdrs) : ~(i < call - 3 - n)
    <3> HIDE DEF n
    <3> QED BY <2>1
  <2> QED BY <2>1, <2>2 DEF RelroSeen
<1> QED BY <1>1, <1>2, <1>3, <1>4 DEF TInv

\* Every step keeps the invariant.
LEMMA TInvPreserved ==
    ASSUME IInv, IInv', TInv, [Next]_vars PROVE TInv'
<1>1. Stage' /\ RootKept' /\ RelroSeen'
  BY StagePreserved, RootPreserved, RelroPreserved DEF TInv
<1>2. LeavesAskedFor'
  BY MapPageAskedFor, OthersAskedFor DEF TInv
<1>3. CompletedMapped'
  BY MapPageCompletes, SetVpageRoProtects, OthersComplete DEF TInv
<1> QED BY <1>1, <1>2, <1>3 DEF TInv

\* Both invariants hold.
LEMMA TInvariance == Spec => [](IInv /\ TInv)
<1>1. Init => TInv
  BY InitTInv
<1>2. IInv /\ IInv' /\ TInv /\ [Next]_vars => TInv'
  BY TInvPreserved
<1> QED BY <1>1, <1>2, Invariance, PTL DEF Spec
-----------------------------------------------------------------------------
(***************************************************************************)
(* The translation is exact.                                               *)
(***************************************************************************)
\* Completed holds the pages that IsCompleted tells.
LEMMA CompletedPairs ==
    ASSUME IInv, phase # "kernel_main"
    PROVE  /\ \A p \in Completed : IsCompleted(p[1], p[2])
           /\ \A c, k : IsCompleted(c, k) => <<c, k>> \in Completed
<1> DEFINE N == NumCalls(bootloader_data)
           U == UNION {{c} \X (0 .. RangeOf(c).n - 1) : c \in 1 .. N}
<1>1. \A c \in 1 .. N : RangeOf(c).n \in Int
  BY RangesInSpace DEF RangeType
<1>2. \A p \in Completed : IsCompleted(p[1], p[2])
  <2> SUFFICES ASSUME NEW p \in Completed PROVE IsCompleted(p[1], p[2])
    OBVIOUS
  <2>1. p \in U /\ (p[1] < call \/ (p[1] = call /\ p[2] < page))
    BY DEF Completed
  <2>2. PICK c \in 1 .. N : p \in {c} \X (0 .. RangeOf(c).n - 1)
    BY <2>1
  <2>3. p[1] = c /\ p[2] \in 0 .. RangeOf(c).n - 1
    BY <2>2
  <2>4. p[2] \in Nat /\ p[2] < RangeOf(c).n
    BY <1>1, <2>3
  <2> QED BY <2>1, <2>3, <2>4 DEF IsCompleted
<1>3. ASSUME NEW c, NEW k, IsCompleted(c, k) PROVE <<c, k>> \in Completed
  <2>1. /\ c \in 1 .. N /\ k \in Nat /\ k < RangeOf(c).n
        /\ c < call \/ (c = call /\ k < page)
    BY <1>3 DEF IsCompleted
  <2>2. k \in 0 .. RangeOf(c).n - 1
    BY <1>1, <2>1
  <2>3. <<c, k>> \in {c} \X (0 .. RangeOf(c).n - 1)
    BY <2>2
  <2>4. <<c, k>> \in U
    BY <2>1, <2>3
  <2> QED BY <2>1, <2>4 DEF Completed
<1> QED BY <1>2, <1>3
\* The processor finds a page exactly when map_page has finished it, and then
\* its leaf is the one wanted.
LEMMA FoundIsFinished ==
    ASSUME IInv, TInv, address_space # NULL, NEW v \in VPage
    PROVE  /\ Mapped(mem, Root, v) <=> \E c, k : IsCompleted(c, k) /\ v = Asked(c, k)
           /\ \A c, k : IsCompleted(c, k) /\ v = Asked(c, k) =>
                 /\ Leaf(mem, Root, v) = Wanted(c, k)
                 /\ Writable(mem, Root, v) <=> Wanted(c, k).rw
<1>1. v \in Nat /\ phase # "kernel_main"
  BY PagingAssumption DEF VPage, TInv, Stage, Early
<1>2. ASSUME NEW c, NEW k, IsCompleted(c, k), v = Asked(c, k)
      PROVE  /\ Mapped(mem, Root, v)
             /\ Leaf(mem, Root, v) = Wanted(c, k)
             /\ Writable(mem, Root, v) <=> Wanted(c, k).rw
  <2>1. PICK f \in Frame : /\ OnPath(f, v, 1)
                           /\ mem[f][PAGE_LEVEL_INDEX(v, 1)] = Wanted(c, k)
    BY <1>2 DEF TInv, CompletedMapped
  <2>2. Wanted(c, k).p
    BY DEF Wanted, Pte
  <2> QED
    BY <1>1, <2>1, <2>2, LeafIsReached DEF TInv
<1>3. ASSUME Mapped(mem, Root, v)
      PROVE  \E c, k : IsCompleted(c, k) /\ v = Asked(c, k)
  <2>1. PICK f \in Frame : OnPath(f, v, 1) /\ mem[f][PAGE_LEVEL_INDEX(v, 1)].p
    BY <1>1, <1>3, MappedHasLeaf DEF TInv
  <2>2. /\ IsTable(f) /\ role[f].level = 1 /\ PAGE_LEVEL_INDEX(v, 1) \in Index
        /\ role[f].path = Path(v, 1)
    <3>1. 1 \in Level
      BY DEF Level
    <3>2. IsTable(f) /\ role[f].level = 1 /\ PAGE_LEVEL_INDEX(v, 1) \in Index
      BY <1>1, <2>1, <3>1, OnPathIsTable
    <3> QED
      BY <2>1, <3>2 DEF OnPath, TablePage
  <2>3. AskedFor(f, PAGE_LEVEL_INDEX(v, 1))
    BY <2>1, <2>2 DEF TInv, LeavesAskedFor
  <2>4. PICK c, k : /\ IsCompleted(c, k)
                    /\ role[f].path = Path(Asked(c, k), 1)
                    /\ PAGE_LEVEL_INDEX(v, 1) = PAGE_LEVEL_INDEX(Asked(c, k), 1)
    BY <2>3 DEF AskedFor, Asked
  <2>5. v = Asked(c, k)
    BY <1>1, <2>2, <2>4, CompletedPage, PathIdentifies
  <2> QED
    BY <2>4, <2>5
<1> QED
  BY <1>2, <1>3

\* The invariants make the translation exact.
LEMMA ExactFollows ==
    ASSUME IInv, TInv PROVE TranslationExact
<1> SUFFICES ASSUME address_space # NULL PROVE TranslationExact
  BY DEF TranslationExact
<1> DEFINE T == Translation(mem, Root)
           V(p) == RangeOf(p[1]).vpage + p[2]
<1>1. phase # "kernel_main"
  BY DEF TInv, Stage, Early
<1>2. DOMAIN T = {v \in VPage : Mapped(mem, Root, v)}
  BY DEF Translation
<1>3. ASSUME NEW p \in Completed
      PROVE  /\ IsCompleted(p[1], p[2]) /\ V(p) = Asked(p[1], p[2])
             /\ V(p) \in VPage /\ V(p) \in DOMAIN T
             /\ T[V(p)] = [addr |-> RangeOf(p[1]).ppage + p[2],
                           rw   |-> RangeOf(p[1]).rw /\ V(p) \notin Protected]
  <2>1. IsCompleted(p[1], p[2]) /\ V(p) = Asked(p[1], p[2])
    BY <1>1, CompletedPairs DEF Asked
  <2>2. V(p) \in VPage /\ RangeOf(p[1]).rw \in BOOLEAN
    BY <1>1, <2>1, CompletedPage
  <2>3. /\ Mapped(mem, Root, V(p)) /\ Leaf(mem, Root, V(p)) = Wanted(p[1], p[2])
        /\ Writable(mem, Root, V(p)) <=> Wanted(p[1], p[2]).rw
    BY <2>1, <2>2, FoundIsFinished
  <2>4. Writable(mem, Root, V(p)) \in BOOLEAN
    BY DEF Writable
  <2>5. T[V(p)] = [addr |-> Leaf(mem, Root, V(p)).addr, rw |-> Writable(mem, Root, V(p))]
    BY <2>2, <2>3 DEF Translation
  <2>6. /\ Wanted(p[1], p[2]).addr = RangeOf(p[1]).ppage + p[2]
        /\ Wanted(p[1], p[2]).rw = (RangeOf(p[1]).rw /\ V(p) \notin Protected)
    BY <2>1 DEF Wanted, Pte
  <2> HIDE DEF V, T
  <2>7. Writable(mem, Root, V(p)) = (RangeOf(p[1]).rw /\ V(p) \notin Protected)
    BY <2>2, <2>3, <2>4, <2>6, Zenon
  <2> QED
    BY <1>2, <2>1, <2>2, <2>3, <2>5, <2>6, <2>7
<1>4. DOMAIN T = {V(p) : p \in Completed}
  <2>1. ASSUME NEW v \in DOMAIN T PROVE \E p \in Completed : v = V(p)
    <3>1. v \in VPage /\ Mapped(mem, Root, v)
      BY <1>2
    <3>2. PICK c, k : IsCompleted(c, k) /\ v = Asked(c, k)
      BY <3>1, FoundIsFinished
    <3>3. <<c, k>> \in Completed /\ V(<<c, k>>) = v
      BY <1>1, <3>2, CompletedPairs DEF Asked
    <3> QED
      BY <3>3
  <2> HIDE DEF V, T
  <2> QED
    BY <1>3, <2>1
<1> QED
  BY <1>3, <1>4 DEF TranslationExact, Root

\* At every step the walk of the processor over the tables map_page has written
\* so far reaches exactly the pages asked for so far, at the frame and with the
\* permission asked for.
THEOREM KernelTranslationExact == Spec => []TranslationExact
<1>1. IInv /\ TInv => TranslationExact
  BY ExactFollows
<1> QED
  BY <1>1, TInvariance, PTL
-----------------------------------------------------------------------------
(***************************************************************************)
(* The switch to the new tables.                                           *)
(***************************************************************************)
\* Once all ranges are mapped, page counts the pages of RELRO.
RelroBound ==
    call > NumCalls(bootloader_data) => page = 0 \/ page <= RelroPages(bootloader_data)

\* Every step keeps the loop over RELRO in bounds.
LEMMA RelroBoundPreserved ==
    ASSUME IInv, RelroSeen, RelroBound, [Next]_vars PROVE RelroBound'
<1> DEFINE b == bootloader_data
<1>0. b \in BootloaderData /\ call \in Nat /\ NumCalls(b) \in Nat /\ page \in Nat
      /\ (phase = "map" => call <= NumCalls(b)) /\ b' = b
      /\ (phase \in Early => call = 1) /\ NumCalls(b) >= 3
  <2>1. b' = b
    BY DEF Next, vars, KernelMain, FreeInitialPage, InitialPagesFreed, AllocateStack, AllocateRoot,
           MapRangeReturns, EnterTable, MakeTable, MapPage, SetVpageRo, AddressSpaceDone, SetCr3,
           ResetSystem, Halt, PageFault, Hang
  <2> QED BY <2>1, StateTypes, NumCallsType DEF IInv, TypeOK, Progress, Early
<1>1. CASE FreeInitialPage
  <2>1. phase = "free" /\ call' = call
    BY <1>1 DEF FreeInitialPage, At
  <2> QED BY <1>0, <2>1 DEF RelroBound, Early
<1>2. CASE AllocateRoot \/ MapRangeReturns
  <2>1. page' = 0
    BY <1>2 DEF AllocateRoot, MapRangeReturns
  <2> QED BY <2>1 DEF RelroBound
<1>3. CASE MapPage
  <2>1. phase = "map" /\ call' = call
    BY <1>3 DEF MapPage, At
  <2> QED BY <1>0, <2>1 DEF RelroBound
<1>4. CASE SetVpageRo
  <2>1. phase = "relro" /\ Walking /\ page' = page + 1 /\ relro' = relro
    BY <1>4 DEF SetVpageRo, At, NextPage
  <2>2. page < RelroPages(b) /\ RelroPages(b)' = RelroPages(b)
    BY <1>0, <2>1 DEF Walking, RelroPages
  <2>3. RelroPages(b) \in Int
    <3>1. relro \in 1 .. Len(b.phdrs) /\ b.phdrs[relro] \in Phdr
      BY <2>1, RelroPage, StateTypes
    <3> QED BY <3>1, NumPagesType DEF RelroPages, Phdr
  <2> HIDE DEF b
  <2>4. page' <= RelroPages(b)
    BY <1>0, <2>1, <2>2, <2>3
  <2> QED BY <2>2, <2>4, <1>0 DEF RelroBound, b
<1>5. CASE UNCHANGED <<call, page, relro>>
  BY <1>0, <1>5 DEF RelroBound, RelroPages
<1>6. KernelMain \/ InitialPagesFreed \/ AllocateStack \/ EnterTable \/ MakeTable
      \/ AddressSpaceDone \/ SetCr3 \/ ResetSystem \/ Halt \/ PageFault \/ Hang
      \/ UNCHANGED vars => UNCHANGED <<call, page, relro>>
  BY DEF vars, KernelMain, InitialPagesFreed, AllocateStack, EnterTable, MakeTable,
         AddressSpaceDone, SetCr3, ResetSystem, Halt, PageFault, Hang, loop
<1> QED
  BY <1>1, <1>2, <1>3, <1>4, <1>5, <1>6 DEF Next

\* The invariants hold together.
LEMMA SwitchInvariance == Spec => [](IInv /\ TInv /\ RelroBound)
<1>1. Init => RelroBound
  BY DEF Init, RelroBound
<1>2. IInv /\ TInv /\ RelroBound /\ [Next]_vars => RelroBound'
  BY RelroBoundPreserved DEF TInv
<1> QED
  BY <1>1, <1>2, TInvariance, PTL DEF Spec

\* No page of the window is protected.
LEMMA WindowNotProtected ==
    ASSUME IInv, RelroSeen, RelroBound, NEW v \in BootWindow(bootloader_data)
    PROVE  v \notin Protected
<1> DEFINE b == bootloader_data
           h == b.phdrs[relro]
<1> SUFFICES ASSUME v \in Protected PROVE FALSE
  OBVIOUS
<1>1. PICK k \in 0 .. page - 1 : v = h.vpage + k
  BY DEF Protected
<1>2. call > NumCalls(b) /\ page \in Nat /\ k < page /\ page # 0 /\ b \in BootloaderData
  BY <1>1 DEF Protected, IInv, TypeOK
<1>3. page <= RelroPages(b)
  BY <1>2 DEF RelroBound
<1>4. relro # 0 /\ RelroPages(b) = NUM_PAGES(h.offset, h.p_memsz)
  BY <1>2, <1>3 DEF RelroPages
<1>5. relro \in 1 .. Len(b.phdrs) /\ h \in Phdr
  <2>1. Len(b.phdrs) \in Nat
    BY <1>2, NumCallsType
  <2> QED BY <1>4, <2>1, StateTypes DEF IInv, TypeOK
<1>6. h.vpage .. h.vpage + NUM_PAGES(h.offset, h.p_memsz) - 1 \subseteq VPage \ BootWindow(b)
  <2>1. h.p_type = "PT_GNU_RELRO"
    BY <1>4 DEF RelroSeen
  <2> QED BY <1>2, <1>5, <2>1, LayoutAssumption DEF RelroApart
<1>7. v \in h.vpage .. h.vpage + NUM_PAGES(h.offset, h.p_memsz) - 1
  <2>1. h.vpage \in Nat /\ NUM_PAGES(h.offset, h.p_memsz) \in Int
    BY <1>5, NumPagesType DEF Phdr
  <2> HIDE DEF h, b
  <2> QED BY <1>1, <1>2, <1>3, <1>4, <2>1
<1> QED
  BY <1>6, <1>7

\* Division is monotone.
LEMMA DivisionMonotone ==
    ASSUME NEW x \in Nat, NEW y \in Nat, x <= y, NEW d \in Nat \ {0}
    PROVE  x \div d <= y \div d /\ x \div d \in Nat
<1> DEFINE q == x \div d
           r == x % d
           s == y \div d
           t == y % d
<1>1. /\ q \in Int /\ s \in Int /\ x = d * q + r /\ y = d * s + t
      /\ r \in 0 .. d - 1 /\ t \in 0 .. d - 1
  BY Z3
<1> HIDE DEF q, r, s, t
<1>2. ASSUME q > s PROVE FALSE
  <2>1. d * q >= d * (s + 1)
    BY <1>1, <1>2
  <2> QED BY <1>1, <2>1
<1>3. ASSUME q < 0 PROVE FALSE
  <2>1. d * q <= d * (-1)
    BY <1>1, <1>3
  <2> QED BY <1>1, <2>1
<1> QED
  BY <1>1, <1>2, <1>3 DEF q, s
\* Once all ranges are mapped, the tables translate every page of every range.
LEMMA FinishedTranslates ==
    ASSUME IInv, TInv, address_space # NULL, call > NumCalls(bootloader_data),
           NEW c \in 1 .. NumCalls(bootloader_data), NEW k \in Nat, k < RangeOf(c).n
    PROVE  LET T == Translation(mem, Root)
               v == RangeOf(c).vpage + k
           IN  /\ v \in DOMAIN T
               /\ T[v] = [addr |-> RangeOf(c).ppage + k,
                          rw   |-> RangeOf(c).rw /\ v \notin Protected]
<1>1. IsCompleted(c, k) /\ phase # "kernel_main"
  <2>1. NumCalls(bootloader_data) \in Nat /\ call \in Nat
    BY NumCallsType DEF IInv, TypeOK
  <2>2. c < call
    BY <2>1
  <2> QED BY <2>2 DEF IsCompleted, TInv, Stage, Early
<1>2. <<c, k>> \in Completed
  BY <1>1, CompletedPairs
<1>3. TranslationExact
  BY ExactFollows
<1> QED
  BY <1>2, <1>3 DEF TranslationExact, Root

\* The range of the call for a segment.
LEMMA SegmentRange ==
    ASSUME IInv, NEW i \in 1 .. Len(bootloader_data.phdrs)
    PROVE  LET c == 3 + Len(bootloader_data.MemoryMap) + i IN
           /\ c \in 1 .. NumCalls(bootloader_data)
           /\ RangeOf(c) = KernelRange(bootloader_data.phdrs[i])
           /\ bootloader_data.phdrs[i] \in Phdr
<1> DEFINE b == bootloader_data
           n == Len(b.MemoryMap)
           l == Len(b.phdrs)
           c == (3 + n) + i
<1>1. b \in BootloaderData /\ n \in Nat /\ l \in Nat /\ i \in 1 .. l
  BY NumCallsType DEF IInv, TypeOK
<1>2. NumCalls(b) = (3 + n) + l
  BY DEF NumCalls
<1>3. b.phdrs \in Seq(Phdr)
  BY <1>1, HandoverTypes
<1>4. b.phdrs[i] \in Phdr
  BY <1>1, <1>3
<1>5. /\ c \in 1 .. NumCalls(b) /\ c # 1 /\ c # 2 /\ c # 3 /\ ~(c <= 3 + n)
      /\ (c - 3) - n = i
  <2> HIDE DEF n, l, b
  <2> QED BY <1>1, <1>2
<1>6. RangeOf(c) = KernelRange(b.phdrs[(c - 3) - n])
  <2> HIDE DEF c
  <2> QED BY <1>5 DEF RangeOf, MapRangeCall
<1> QED
  BY <1>4, <1>5, <1>6

\* The page of byte k of a segment is one of the pages of the segment.
LEMMA ByteInSegment ==
    ASSUME NEW offset \in 0 .. PAGE_SIZE - 1, NEW size \in Nat, NEW k \in 0 .. size - 1
    PROVE  /\ (offset + k) \div PAGE_SIZE \in Nat
           /\ (offset + k) \div PAGE_SIZE < NUM_PAGES(offset, size)
<1>0. PAGE_SIZE \in Nat \ {0}
  BY PagingAssumption
<1> DEFINE x == offset + k
           y == offset + size - 1
<1>1. x \in Nat /\ y \in Nat /\ x <= y
  BY <1>0
<1> HIDE DEF x, y
<1>2. x \div PAGE_SIZE <= y \div PAGE_SIZE /\ x \div PAGE_SIZE \in Nat
  BY <1>0, <1>1, DivisionMonotone
<1>3. y \div PAGE_SIZE \in Int
  BY <1>0, <1>1
<1> DEFINE q == x \div PAGE_SIZE
           s == y \div PAGE_SIZE
<1>4. q \in Nat /\ q < s + 1
  <2> HIDE DEF q, s
  <2>1. q <= s /\ q \in Nat /\ s \in Int
    BY <1>2, <1>3 DEF q, s
  <2> QED BY <2>1
<1> QED
  BY <1>4 DEF x, y, NUM_PAGES

\* The invariants make the switch seamless.
LEMMA SeamlessFollows ==
    ASSUME IInv, TInv, RelroBound PROVE SeamlessSwitch
<1> DEFINE b == bootloader_data
           T == Translation(mem, cr3)
<1> SUFFICES ASSUME cr3 # BOOT PROVE SeamlessSwitch
  BY DEF SeamlessSwitch
<1>1. /\ address_space # NULL /\ cr3 = Root /\ call > NumCalls(b)
      /\ new_stack \in FreeMemory(b)
  BY DEF TInv, Stage
<1>2. /\ b \in BootloaderData /\ NumCalls(b) \in Nat /\ NumCalls(b) >= 3
      /\ b.self \in Nat /\ b.free_memory \in Nat /\ b.n_pages \in Nat /\ b.paddr_base \in Nat
  BY NumCallsType, HandoverTypes DEF IInv, TypeOK
<1>3. /\ RangeOf(1) = PageRange(b.self - b.paddr_base, b.self, 1, TRUE)
      /\ RangeOf(2) = PageRange(b.free_memory - b.paddr_base, b.free_memory, b.n_pages, TRUE)
  BY DEF RangeOf, MapRangeCall
<1>4. ASSUME NEW v \in BootWindow(b)
      PROVE  v \in DOMAIN T /\ T[v] = [addr |-> FrameOf(v), rw |-> TRUE]
  <2>1. v \notin Protected
    BY WindowNotProtected DEF TInv
  <2>2. CASE v = b.self
    <3>1. 1 \in 1 .. NumCalls(b) /\ 0 \in Nat /\ 0 < RangeOf(1).n
      BY <1>2, <1>3 DEF PageRange
    <3>2. RangeOf(1).vpage + 0 = v /\ RangeOf(1).ppage + 0 = FrameOf(v) /\ RangeOf(1).rw = TRUE
      BY <1>2, <1>3, <2>2 DEF PageRange, FrameOf
    <3>3. LET w == RangeOf(1).vpage + 0
          IN  /\ w \in DOMAIN T
              /\ T[w] = [addr |-> RangeOf(1).ppage + 0, rw |-> RangeOf(1).rw /\ w \notin Protected]
      BY <1>1, <3>1, FinishedTranslates
    <3> QED BY <2>1, <3>2, <3>3
  <2>3. CASE v \in FreeMemory(b)
    <3> DEFINE k == v - b.free_memory
    <3>1. v \in Int /\ b.free_memory <= v /\ v <= b.free_memory + b.n_pages - 1
      BY <1>2, <2>3 DEF FreeMemory
    <3>2. k \in Nat /\ k < b.n_pages
      BY <1>2, <3>1
    <3>3. 2 \in 1 .. NumCalls(b) /\ k \in Nat /\ k < RangeOf(2).n
      BY <1>2, <1>3, <3>2 DEF PageRange
    <3>4. RangeOf(2).vpage + k = v /\ RangeOf(2).ppage + k = FrameOf(v) /\ RangeOf(2).rw = TRUE
      BY <1>2, <1>3, <3>1 DEF PageRange, FrameOf
    <3> HIDE DEF k
    <3>5. LET w == RangeOf(2).vpage + k
          IN  /\ w \in DOMAIN T
              /\ T[w] = [addr |-> RangeOf(2).ppage + k, rw |-> RangeOf(2).rw /\ w \notin Protected]
      BY <1>1, <3>3, FinishedTranslates
    <3> QED BY <2>1, <3>4, <3>5
  <2> QED BY <2>2, <2>3 DEF BootWindow
<1>5. ASSUME NEW i \in 1 .. Len(b.phdrs), b.phdrs[i].p_type = "PT_LOAD",
             NEW k \in 0 .. b.phdrs[i].p_memsz - 1
      PROVE  LET h == b.phdrs[i]
                 n == (h.offset + k) \div PAGE_SIZE
                 v == h.vpage + n
             IN  /\ v \in DOMAIN T
                 /\ T[v].addr = h.ppage + n
                 /\ T[v].rw <=> h.writable /\ v \notin Protected
  <2> DEFINE h == b.phdrs[i]
             n == (h.offset + k) \div PAGE_SIZE
             c == 3 + Len(b.MemoryMap) + i
  <2>1. c \in 1 .. NumCalls(b) /\ RangeOf(c) = KernelRange(h) /\ h \in Phdr
    BY SegmentRange
  <2>2. n \in Nat /\ n < NUM_PAGES(h.offset, h.p_memsz)
    <3>1. h.offset \in 0 .. PAGE_SIZE - 1 /\ h.p_memsz \in Nat
      BY <2>1 DEF Phdr
    <3> QED BY <3>1, <1>5, ByteInSegment
  <2>3. /\ RangeOf(c).n = NUM_PAGES(h.offset, h.p_memsz) /\ RangeOf(c).vpage = h.vpage
        /\ RangeOf(c).ppage = h.ppage /\ RangeOf(c).rw = h.writable
    BY <1>5, <2>1 DEF KernelRange, PageRange
  <2> HIDE DEF n, c, h
  <2>4. LET w == RangeOf(c).vpage + n
        IN  /\ w \in DOMAIN T
            /\ T[w] = [addr |-> RangeOf(c).ppage + n, rw |-> RangeOf(c).rw /\ w \notin Protected]
    BY <1>1, <2>1, <2>2, <2>3, FinishedTranslates
  <2>5. /\ h.vpage + n \in DOMAIN T /\ T[h.vpage + n].addr = h.ppage + n
        /\ T[h.vpage + n].rw <=> h.writable /\ h.vpage + n \notin Protected
    <3> DEFINE v == h.vpage + n
               w == h.writable /\ v \notin Protected
    <3>1. v \in DOMAIN T /\ T[v] = [addr |-> h.ppage + n, rw |-> w]
      <4> HIDE DEF T
      <4> QED BY <2>3, <2>4, Zenon
    <3>2. w \in BOOLEAN
      OBVIOUS
    <3> HIDE DEF v, w, T
    <3>3. T[v].addr = h.ppage + n /\ T[v].rw = w
      BY <3>1, <3>2
    <3> QED BY <3>1, <3>3 DEF v, w
  <2> QED BY <2>5 DEF h, n
<1>6. new_stack \in BootWindow(b)
  BY <1>1 DEF BootWindow
<1> HIDE DEF T
<1>7. \A i \in 1 .. Len(b.phdrs) :
         LET h == b.phdrs[i] IN
         \A k \in 0 .. h.p_memsz - 1 : h.p_type = "PT_LOAD" =>
            LET n == (h.offset + k) \div PAGE_SIZE
                v == h.vpage + n
            IN  /\ v \in DOMAIN T
                /\ T[v].addr = h.ppage + n
                /\ T[v].rw <=> h.writable /\ v \notin Protected
  BY <1>5
<1> QED
  BY <1>4, <1>6, <1>7 DEF SeamlessSwitch, T

\* Under the new tables set_cr3 loads, the pages the running kernel uses
\* through the boot tables and every byte of its image are where they were,
\* with the permission that the segment and RELRO give.
THEOREM KernelSeamlessSwitch == Spec => []SeamlessSwitch
<1>1. IInv /\ TInv /\ RelroBound => SeamlessSwitch
  BY SeamlessFollows
<1> QED
  BY <1>1, SwitchInvariance, PTL
-----------------------------------------------------------------------------
(***************************************************************************)
(* The tables implement the abstract address space.                        *)
(***************************************************************************)
\* The mapping that the tables stand for.
SpaceMap == IF address_space = NULL THEN << >> ELSE Translation(mem, Root)

\* What it holds of page k of call c.
Given(c, k) ==
    [addr |-> RangeOf(c).ppage + k,
     rw   |-> RangeOf(c).rw /\ Asked(c, k) \notin Protected]

\* It holds the finished pages.
MapIsFinished ==
    address_space # NULL =>
       /\ \A u : u \in DOMAIN SpaceMap <=> \E c, k : IsCompleted(c, k) /\ u = Asked(c, k)
       /\ \A c, k : IsCompleted(c, k) => SpaceMap[Asked(c, k)] = Given(c, k)

\* A finished walk of the calls has mapped what they ask for.
LEMMA MapIsFinishedFollows ==
    ASSUME IInv, TInv PROVE MapIsFinished
<1> SUFFICES ASSUME address_space # NULL PROVE MapIsFinished
  BY DEF MapIsFinished
<1>1. phase # "kernel_main"
  BY DEF TInv, Stage, Early
<1>2. TranslationExact /\ SpaceMap = Translation(mem, FrameOf(address_space))
  BY ExactFollows DEF SpaceMap, Root
<1>3. /\ DOMAIN SpaceMap = {Asked(p[1], p[2]) : p \in Completed}
      /\ \A p \in Completed : SpaceMap[Asked(p[1], p[2])] = Given(p[1], p[2])
  BY <1>2 DEF TranslationExact, Asked, Given
<1>4. ASSUME NEW c, NEW k, IsCompleted(c, k)
      PROVE  Asked(c, k) \in DOMAIN SpaceMap /\ SpaceMap[Asked(c, k)] = Given(c, k)
  <2>1. PICK p \in Completed : p[1] = c /\ p[2] = k
    <3>1. <<c, k>> \in Completed
      BY <1>1, <1>4, CompletedPairs
    <3> QED BY <3>1
  <2> QED BY <1>3, <2>1
<1>5. ASSUME NEW u \in DOMAIN SpaceMap
      PROVE  \E c, k : IsCompleted(c, k) /\ u = Asked(c, k)
  <2>1. PICK p \in Completed : u = Asked(p[1], p[2])
    BY <1>3
  <2> QED BY <1>1, <2>1, CompletedPairs
<1> QED
  BY <1>4, <1>5 DEF MapIsFinished

\* What the processor makes of tables is a function.
LEMMA TranslationIsFunction ==
    ASSUME NEW memory, NEW root
    PROVE  Translation(memory, root) =
              [u \in DOMAIN Translation(memory, root) |-> Translation(memory, root)[u]]
  BY DEF Translation

\* So is the mapping.
LEMMA MapIsFunction ==
    /\ address_space # NULL => SpaceMap = [u \in DOMAIN SpaceMap |-> SpaceMap[u]]
    /\ address_space' # NULL => SpaceMap' = [u \in DOMAIN SpaceMap' |-> SpaceMap'[u]]
<1>1. address_space # NULL => SpaceMap = Translation(mem, Root)
  BY DEF SpaceMap
<1>2. address_space' # NULL => SpaceMap' = Translation(mem', Root')
  BY DEF SpaceMap, Translation, Root, Mapped, Writable, Leaf, Entry, Table1, Table2, Table3
<1> QED
  BY <1>1, <1>2, TranslationIsFunction

\* A step that finishes and protects no page keeps the mapping.
LEMMA SameMap ==
    ASSUME MapIsFinished, MapIsFinished', address_space # NULL,
           UNCHANGED <<bootloader_data, apic_vaddr, address_space>>,
           \A c, k : IsCompleted(c, k)' <=> IsCompleted(c, k), Protected' = Protected
    PROVE  SpaceMap' = SpaceMap
<1>1. \A c, k : Asked(c, k)' = Asked(c, k) /\ Given(c, k)' = Given(c, k)
  BY DEF Asked, Given, RangeOf
<1>2. DOMAIN SpaceMap' = DOMAIN SpaceMap
  BY <1>1 DEF MapIsFinished
<1>3. \A u \in DOMAIN SpaceMap : SpaceMap'[u] = SpaceMap[u]
  BY <1>1 DEF MapIsFinished
<1> QED
  BY <1>2, <1>3, MapIsFunction

\* At level 1 the processor finds the page iff its leaf is present.
LEMMA LeafTells ==
    ASSUME IInv, TInv, address_space # NULL, Walking, level = 1, vpage \in VPage
    PROVE  vpage \in DOMAIN SpaceMap <=> entry.p
<1>1. OnPath(FrameOf(table), vpage, 1) /\ vpage \in Nat
      /\ entry = mem[FrameOf(table)][PAGE_LEVEL_INDEX(vpage, 1)]
  BY WalkFacts DEF OnPath
<1>2. Mapped(mem, Root, vpage) <=> entry.p
  BY <1>1, LeafIsReached DEF TInv
<1> QED
  BY <1>2 DEF SpaceMap, Translation
\* A function on nothing is the empty one.
LEMMA EmptyFunction ==
    ASSUME NEW f, f = [u \in DOMAIN f |-> f[u]], DOMAIN f = {} PROVE f = << >>
<1>1. << >> = [u \in {} |-> f[u]]
  OBVIOUS
<1> QED
  BY <1>1

\* The new root maps nothing.
LEMMA RootMapsNothing ==
    ASSUME IInv, IInv', Stage, Stage', MapIsFinished', AllocateRoot
    PROVE  SpaceMap = << >> /\ SpaceMap' = << >> /\ cr3' = cr3
<1> DEFINE N == NumCalls(bootloader_data)
<1>1. phase = "root" /\ phase' = "map" /\ call' = 1 /\ page' = 0 /\ cr3' = cr3
      /\ bootloader_data' = bootloader_data
  BY DEF AllocateRoot, At, IInv, Progress
<1>2. address_space = NULL /\ address_space' # NULL
  BY <1>1 DEF Stage, Early
<1>3. N \in Nat
  BY NumCallsType DEF IInv, TypeOK
<1>4. \A c, k : ~IsCompleted(c, k)'
  <2> SUFFICES ASSUME NEW c, NEW k, IsCompleted(c, k)' PROVE FALSE
    OBVIOUS
  <2>1. c \in 1 .. N /\ k \in Nat /\ (c < call' \/ (c = call' /\ k < page'))
    BY <1>1 DEF IsCompleted
  <2> HIDE DEF N
  <2> QED BY <1>1, <1>3, <2>1
<1>5. DOMAIN SpaceMap' = {}
  BY <1>2, <1>4 DEF MapIsFinished
<1>6. SpaceMap' = << >>
  BY <1>2, <1>5, MapIsFunction, EmptyFunction
<1> QED
  BY <1>1, <1>2, <1>6 DEF SpaceMap

\* map_page adds one page and touches no other.
LEMMA MapPageMaps ==
    ASSUME IInv, TInv, MapIsFinished, MapIsFinished', MapPage
    PROVE  /\ cr3 = BOOT /\ cr3' = cr3
           /\ \E v \in DOMAIN SpaceMap' \ DOMAIN SpaceMap :
                 /\ DOMAIN SpaceMap' = DOMAIN SpaceMap \cup {v}
                 /\ \A u \in DOMAIN SpaceMap : SpaceMap'[u] = SpaceMap[u]
<1> DEFINE N == NumCalls(bootloader_data)
<1>1. /\ phase = "map" /\ Walking /\ level = 1 /\ ~entry.p /\ page' = page + 1 /\ page < Call.n
      /\ UNCHANGED <<bootloader_data, apic_vaddr, call, cr3, address_space>>
  BY DEF MapPage, At, NextPage, Walking
<1>2. address_space # NULL /\ cr3 = BOOT
  BY <1>1 DEF TInv, Stage
<1>3. call \in 1 .. N /\ page \in Nat /\ N \in Nat
  BY <1>1, NumCallsType DEF IInv, TypeOK, Progress
<1>4. Protected = {} /\ Protected' = {}
  <2>1. ~(call > N)
    BY <1>3
  <2> QED BY <1>1, <2>1 DEF Protected
<1>5. vpage = Asked(call, page) /\ RangeOf(call) = Call
  BY <1>1 DEF vpage, Asked, RangeOf, Call
<1>6. \A c, k : IsCompleted(c, k)' <=> IsCompleted(c, k) \/ (c = call /\ k = page)
  <2> SUFFICES ASSUME NEW c, NEW k
               PROVE  IsCompleted(c, k)' <=> IsCompleted(c, k) \/ (c = call /\ k = page)
    OBVIOUS
  <2>1. IsCompleted(c, k)' <=> /\ c \in 1 .. N /\ k \in Nat /\ k < RangeOf(c).n
                               /\ c < call \/ (c = call /\ k < page + 1)
    BY <1>1 DEF IsCompleted, RangeOf
  <2>2. IsCompleted(c, k) <=> /\ c \in 1 .. N /\ k \in Nat /\ k < RangeOf(c).n
                              /\ c < call \/ (c = call /\ k < page)
    BY DEF IsCompleted
  <2> HIDE DEF N
  <2>3. k \in Nat => (k < page + 1 <=> k < page \/ k = page)
    BY <1>3
  <2> QED BY <1>1, <1>3, <1>5, <2>1, <2>2, <2>3
<1>7. \A c, k : Asked(c, k)' = Asked(c, k) /\ Given(c, k)' = Given(c, k)
  BY <1>1, <1>4 DEF Asked, Given, RangeOf
<1>8. vpage \notin DOMAIN SpaceMap
  <2>1. vpage \in VPage
    <3>1. phase # "kernel_main"
      BY <1>1
    <3>2. Call \in RangeType /\ Pages(Call) \subseteq VPage
      BY <1>3, <1>5, <3>1, RangesInSpace
    <3>3. Call.vpage \in Nat /\ Call.n \in Int
      BY <3>2 DEF RangeType
    <3>4. Call.vpage + page \in Call.vpage .. Call.vpage + Call.n - 1
      BY <1>1, <1>3, <3>3
    <3> QED BY <1>1, <3>2, <3>4 DEF vpage, Pages
  <2> QED BY <1>1, <1>2, <2>1, LeafTells
<1>9. \A u : u \in DOMAIN SpaceMap' <=> u \in DOMAIN SpaceMap \/ u = vpage
  BY <1>1, <1>2, <1>5, <1>6, <1>7 DEF MapIsFinished
<1>10. \A u \in DOMAIN SpaceMap : SpaceMap'[u] = SpaceMap[u]
  BY <1>1, <1>2, <1>6, <1>7 DEF MapIsFinished
<1> QED
  BY <1>1, <1>2, <1>8, <1>9, <1>10

\* Taking the permission to write keeps the frame.
LEMMA TakeWrite ==
    ASSUME NEW r \in [addr : Nat, rw : BOOLEAN], NEW w, w = FALSE
    PROVE  [r EXCEPT !.rw = w] = [addr |-> r.addr, rw |-> w]
  OBVIOUS

\* set_vpage_ro takes the permission to write from one mapped page.
LEMMA SetVpageRoTakes ==
    ASSUME IInv, TInv, MapIsFinished, MapIsFinished', SetVpageRo
    PROVE  /\ cr3 = BOOT /\ cr3' = cr3
           /\ \E v \in DOMAIN SpaceMap : SpaceMap' = [SpaceMap EXCEPT ![v].rw = FALSE]
<1> DEFINE N == NumCalls(bootloader_data)
           b == bootloader_data
<1>1. /\ phase = "relro" /\ Walking /\ level = 1 /\ entry.p /\ page' = page + 1
      /\ UNCHANGED <<bootloader_data, apic_vaddr, call, relro, cr3, address_space>>
  BY DEF SetVpageRo, At, NextPage, Walking
<1>2. address_space # NULL /\ cr3 = BOOT /\ call > N
  BY <1>1 DEF TInv, Stage
<1>3. vpage \in VPage /\ vpage = b.phdrs[relro].vpage + page /\ page \in Nat
  BY <1>1, RelroPage DEF TInv, vpage, IInv, TypeOK
<1>4. Protected' = Protected \cup {vpage}
  <2> DEFINE q == b.phdrs[relro].vpage
  <2>1. Protected = {q + k : k \in 0 .. page - 1} /\ Protected' = {q + k : k \in 0 .. page}
    <3>1. 0 .. page' - 1 = 0 .. page
      BY <1>1, <1>3
    <3> QED BY <1>1, <1>2, <3>1 DEF Protected
  <2>2. \A k : k \in 0 .. page <=> k \in 0 .. page - 1 \/ k = page
    BY <1>3
  <2> HIDE DEF q
  <2>3. vpage = q + page
    BY <1>3 DEF q
  <2> QED BY <2>1, <2>2, <2>3
<1>5. vpage \in DOMAIN SpaceMap
  BY <1>1, <1>2, <1>3, LeafTells
<1>6. \A c, k : IsCompleted(c, k)' <=> IsCompleted(c, k)
  <2>1. call \in Nat /\ N \in Nat
    BY NumCallsType DEF IInv, TypeOK
  <2>2. \A c \in 1 .. N : c < call
    BY <1>2, <2>1
  <2> QED BY <1>1, <2>2 DEF IsCompleted, RangeOf
<1>7. \A c, k : Asked(c, k)' = Asked(c, k)
  BY <1>1 DEF Asked, RangeOf
<1>8. DOMAIN SpaceMap' = DOMAIN SpaceMap
  BY <1>1, <1>2, <1>6, <1>7 DEF MapIsFinished
<1>9. ASSUME NEW u \in DOMAIN SpaceMap
      PROVE  SpaceMap'[u] = IF u = vpage THEN [SpaceMap[u] EXCEPT !.rw = FALSE] ELSE SpaceMap[u]
  <2>1. PICK c, k : IsCompleted(c, k) /\ u = Asked(c, k)
    BY <1>2, <1>9 DEF MapIsFinished
  <2>2. SpaceMap[u] = Given(c, k) /\ SpaceMap'[u] = Given(c, k)'
    BY <1>1, <1>2, <1>6, <1>7, <2>1 DEF MapIsFinished
  <2> DEFINE a == RangeOf(c).ppage + k
             r == RangeOf(c).rw
  <2>3. Given(c, k) = [addr |-> a, rw |-> r /\ u \notin Protected]
    BY <2>1 DEF Given
  <2>4. Given(c, k)' = [addr |-> a, rw |-> r /\ u \notin Protected']
    <3>1. RangeOf(c)' = RangeOf(c) /\ Asked(c, k)' = u
      BY <1>1, <1>7, <2>1 DEF RangeOf
    <3> QED BY <3>1 DEF Given
  <2> HIDE DEF a, r
  <2>5. CASE u = vpage
    <3>1. (r /\ u \notin Protected') = FALSE
      BY <1>4, <2>5
    <3>2. Given(c, k)' = [addr |-> a, rw |-> FALSE]
      BY <2>4, <3>1
    <3>3. [Given(c, k) EXCEPT !.rw = FALSE] = [addr |-> a, rw |-> FALSE]
      <4>1. a \in Nat
        BY <1>1, <2>1, CompletedPage DEF a
      <4>2. Given(c, k) \in [addr : Nat, rw : BOOLEAN] /\ Given(c, k).addr = a
        BY <2>3, <4>1
      <4> QED BY <4>2, TakeWrite
    <3> QED BY <2>2, <2>5, <3>2, <3>3
  <2>6. CASE u # vpage
    <3>1. (r /\ u \notin Protected') = (r /\ u \notin Protected)
      BY <1>4, <2>6
    <3> QED BY <2>2, <2>3, <2>4, <2>6, <3>1
  <2> QED BY <2>5, <2>6
<1>10. SpaceMap' = [SpaceMap EXCEPT ![vpage].rw = FALSE]
  <2>1. /\ SpaceMap = [u \in DOMAIN SpaceMap |-> SpaceMap[u]]
        /\ SpaceMap' = [u \in DOMAIN SpaceMap' |-> SpaceMap'[u]]
    BY <1>1, <1>2, MapIsFunction
  <2> QED BY <1>5, <1>8, <1>9, <2>1
<1> QED
  BY <1>1, <1>2, <1>5, <1>10
\* The other steps leave the mapping alone; set_cr3 puts it in force.
LEMMA OthersKeepMap ==
    ASSUME IInv, IInv', TInv, TInv', MapIsFinished, MapIsFinished', [Next]_vars,
           ~MapPage, ~SetVpageRo, ~AllocateRoot
    PROVE  /\ SpaceMap' = SpaceMap
           /\ cr3' = cr3 \/ (SetCr3 /\ cr3 = BOOT /\ cr3' # BOOT)
<1> DEFINE N == NumCalls(bootloader_data)
<1>1. CASE KernelMain \/ FreeInitialPage \/ InitialPagesFreed \/ AllocateStack
  <2>1. phase \in Early /\ address_space' = address_space /\ cr3' = cr3
    BY <1>1 DEF KernelMain, FreeInitialPage, InitialPagesFreed, AllocateStack, At, Early
  <2>2. address_space = NULL
    BY <2>1 DEF TInv, Stage
  <2> QED BY <2>1, <2>2 DEF SpaceMap
<1>2. CASE MakeTable
  <2>1. /\ phase = "map" /\ cr3' = cr3
        /\ UNCHANGED <<bootloader_data, apic_vaddr, address_space, call, page, relro>>
    BY <1>2 DEF MakeTable, At, loop
  <2>2. address_space # NULL
    BY <2>1 DEF TInv, Stage
  <2>3. Protected' = Protected /\ \A c, k : IsCompleted(c, k)' <=> IsCompleted(c, k)
    BY <2>1 DEF Protected, IsCompleted, RangeOf
  <2> QED BY <2>1, <2>2, <2>3, SameMap
<1>3. CASE SetCr3
  <2>1. phase = "set_cr3" /\ phase' = "main2" /\ cr3' = Root
        /\ UNCHANGED <<mem, address_space, bootloader_data>>
    BY <1>3 DEF SetCr3, At, Root
  <2>2. cr3 = BOOT /\ address_space # NULL
    BY <2>1 DEF TInv, Stage
  <2>3. Root \in Frame /\ address_space \in Nat
    BY <2>2 DEF TInv, RootKept, IInv, TypeOK
  <2>4. cr3' # BOOT
    BY <2>1, <2>3, FrameNotNull DEF Root
  <2>5. SpaceMap' = SpaceMap
    BY <2>1 DEF SpaceMap, Root, FrameOf
  <2> QED BY <1>3, <2>2, <2>4, <2>5
<1>4. CASE MapRangeReturns \/ EnterTable \/ AddressSpaceDone \/ ResetSystem
           \/ Halt \/ PageFault \/ Hang \/ UNCHANGED vars
  <2>1. UNCHANGED <<mem, address_space, bootloader_data, cr3>>
    BY <1>4 DEF MapRangeReturns, EnterTable, AddressSpaceDone, ResetSystem, Halt, PageFault,
                Hang, vars
  <2> QED BY <2>1 DEF SpaceMap, Root, FrameOf
<1> QED
  BY <1>1, <1>2, <1>3, <1>4 DEF Next

\* Every step is a step of the abstract address space or leaves it alone.
LEMMA SpaceSteps ==
    ASSUME IInv, IInv', TInv, TInv', MapIsFinished, MapIsFinished', [Next]_vars
    PROVE  \/ Space!Next
           \/ SpaceMap' = SpaceMap /\ (cr3 # BOOT)' = (cr3 # BOOT)
<1>1. CASE MapPage
  <2>1. /\ cr3 = BOOT /\ cr3' = cr3
        /\ \E v \in DOMAIN SpaceMap' \ DOMAIN SpaceMap :
              /\ DOMAIN SpaceMap' = DOMAIN SpaceMap \cup {v}
              /\ \A u \in DOMAIN SpaceMap : SpaceMap'[u] = SpaceMap[u]
    BY <1>1, MapPageMaps
  <2>2. Space!Map
    BY <2>1 DEF Space!Map, SpaceMap, Root
  <2> QED BY <2>2 DEF Space!Next
<1>2. CASE SetVpageRo
  <2>1. /\ cr3 = BOOT /\ cr3' = cr3
        /\ \E v \in DOMAIN SpaceMap : SpaceMap' = [SpaceMap EXCEPT ![v].rw = FALSE]
    BY <1>2, SetVpageRoTakes
  <2>2. Space!Protect
    BY <2>1 DEF Space!Protect, SpaceMap, Root
  <2> QED BY <2>2 DEF Space!Next
<1>3. CASE AllocateRoot
  BY <1>3, RootMapsNothing DEF TInv
<1>4. CASE ~MapPage /\ ~SetVpageRo /\ ~AllocateRoot
  <2>1. /\ SpaceMap' = SpaceMap
        /\ cr3' = cr3 \/ (SetCr3 /\ cr3 = BOOT /\ cr3' # BOOT)
    BY <1>4, OthersKeepMap
  <2>2. CASE cr3' = cr3
    BY <2>1, <2>2
  <2>3. CASE cr3 = BOOT /\ cr3' # BOOT
    <3>1. Space!Activate
      BY <2>1, <2>3 DEF Space!Activate, SpaceMap, Root
    <3> QED BY <3>1 DEF Space!Next
  <2> QED BY <2>1, <2>2, <2>3
<1> QED
  BY <1>1, <1>2, <1>3, <1>4

\* new_address_space implements the abstract address space: mappings are added
\* one page at a time, none is replaced, set_vpage_ro only takes the permission
\* to write away, and after set_cr3 nothing changes.
THEOREM KernelImplementsAddressSpace == Spec => ImplementsAddressSpace
<1>1. Init => Space!Init
  BY DEF Init, Space!Init
<1>2. IInv /\ TInv => MapIsFinished
  BY MapIsFinishedFollows
<1>3. IInv /\ IInv' /\ TInv /\ TInv' /\ MapIsFinished /\ MapIsFinished' /\ [Next]_vars =>
         [Space!Next]_<<IF address_space = NULL THEN << >>
                        ELSE Translation(mem, FrameOf(address_space)), cr3 # BOOT>>
  BY SpaceSteps DEF SpaceMap, Root
<1> QED
  BY <1>1, <1>2, <1>3, TInvariance, PTL DEF Spec, ImplementsAddressSpace, Space!Spec
-----------------------------------------------------------------------------
(***************************************************************************)
(* The calls of halt() tell the truth.                                     *)
(***************************************************************************)

\* On the path of a page that is mapped every entry is present.
LEMMA MappedEntriesPresent ==
    ASSUME IInv, NEW v \in Nat, NEW f, OnPath(f, v, 1), mem[f][PAGE_LEVEL_INDEX(v, 1)].p,
           NEW l \in Level, NEW t, OnPath(t, v, l)
    PROVE  mem[t][PAGE_LEVEL_INDEX(v, l)].p
<1>0. Level = {1, 2, 3, 4} /\ 1 + 1 = 2 /\ 2 + 1 = 3 /\ 3 + 1 = 4
      /\ 1 \in 1 .. 3 /\ 2 \in 1 .. 3 /\ 3 \in 1 .. 3
  BY DEF Level
<1>1. \A g, h : Pte(g, h).p = TRUE
  BY DEF Pte
<1>2. PICK f2 \in Frame : OnPath(f2, v, 2) /\ mem[f2][PAGE_LEVEL_INDEX(v, 2)] = Pte(f, TRUE)
  BY <1>0, WalkUp
<1>3. PICK f3 \in Frame : OnPath(f3, v, 3) /\ mem[f3][PAGE_LEVEL_INDEX(v, 3)] = Pte(f2, TRUE)
  <2>1. \E g \in Frame : /\ OnPath(g, v, 2 + 1)
                         /\ mem[g][PAGE_LEVEL_INDEX(v, 2 + 1)] = Pte(f2, TRUE)
    BY <1>0, <1>2, WalkUp
  <2> QED BY <1>0, <2>1
<1>4. PICK f4 \in Frame : OnPath(f4, v, 4) /\ mem[f4][PAGE_LEVEL_INDEX(v, 4)] = Pte(f3, TRUE)
  <2>1. \E g \in Frame : /\ OnPath(g, v, 3 + 1)
                         /\ mem[g][PAGE_LEVEL_INDEX(v, 3 + 1)] = Pte(f3, TRUE)
    BY <1>0, <1>3, WalkUp
  <2> QED BY <1>0, <2>1
<1>5. l = 1 => t = f
  BY OnPathIsTable
<1>6. l = 2 => t = f2
  BY <1>2, OnPathIsTable
<1>7. l = 3 => t = f3
  BY <1>3, OnPathIsTable
<1>8. l = 4 => t = f4
  BY <1>4, OnPathIsTable
<1> QED
  BY <1>0, <1>1, <1>2, <1>3, <1>4, <1>5, <1>6, <1>7, <1>8

\* The asserts of set_vpage_ro fire only for RELRO outside the mapped ranges.
LEMMA AssertTellsTruth ==
    ASSUME IInv, TInv, Missing PROVE ~RelroMapped(bootloader_data)
<1> DEFINE b == bootloader_data
           N == NumCalls(b)
           h == b.phdrs[relro]
           n == NUM_PAGES(h.offset, h.p_memsz)
<1> SUFFICES ASSUME RelroMapped(b) PROVE FALSE
  OBVIOUS
<1>1. phase = "relro" /\ Walking /\ ~entry.p /\ call > N /\ address_space # NULL
      /\ page < RelroPages(b) /\ vpage = h.vpage + page
  BY DEF Missing, Walking, TInv, Stage, vpage
<1>2. b \in BootloaderData /\ page \in Nat /\ call \in Nat /\ N \in Nat /\ phase # "kernel_main"
      /\ Len(b.phdrs) \in Nat /\ Len(b.MemoryMap) \in Nat
  BY <1>1, NumCallsType DEF IInv, TypeOK
<1>3. /\ vpage \in VPage /\ relro \in 1 .. Len(b.phdrs) /\ relro # 0
      /\ RelroPages(b) = n
  <2>1. vpage \in VPage /\ relro \in 1 .. Len(b.phdrs)
    BY <1>1, RelroPage DEF TInv
  <2>2. relro # 0
    BY <1>1, <1>2 DEF RelroPages
  <2> QED BY <2>1, <2>2 DEF RelroPages
<1>4. h.p_type = "PT_GNU_RELRO"
  BY <1>3 DEF TInv, RelroSeen
<1>5. \A j \in 1 .. Len(b.phdrs) : b.phdrs[j].p_type = "PT_GNU_RELRO" => j <= relro
  <2>1. N = (3 + Len(b.MemoryMap)) + Len(b.phdrs)
    BY DEF NumCalls
  <2>2. \A j \in 1 .. Len(b.phdrs) : j < call - 3 - Len(b.MemoryMap)
    <3> DEFINE lp == Len(b.phdrs)
               lm == Len(b.MemoryMap)
    <3>1. lp \in Nat /\ lm \in Nat /\ N = (3 + lm) + lp /\ call \in Nat /\ call > N
      BY <1>1, <1>2, <2>1
    <3> HIDE DEF lp, lm, N
    <3>2. \A j \in 1 .. lp : j < call - 3 - lm
      BY <3>1
    <3> QED BY <3>2 DEF lp, lm
  <2> QED BY <2>2 DEF TInv, RelroSeen
<1>6. page \in 0 .. n - 1
  <2>1. n \in Int
    <3>1. h \in Phdr
      BY <1>3, StateTypes
    <3> QED BY <3>1, NumPagesType DEF Phdr
  <2> HIDE DEF n
  <2> QED BY <1>1, <1>2, <1>3, <2>1
<1>7. PICK c \in 1 .. N : vpage \in Pages(RangeOf(c))
  <2>1. h.vpage + page \in UNION {Pages(RangeOf(c)) : c \in 1 .. N}
    <3> HIDE DEF N
    <3> QED BY <1>3, <1>4, <1>5, <1>6 DEF RelroMapped, N
  <2> QED BY <1>1, <2>1
<1>8. PICK k \in Nat : k < RangeOf(c).n /\ vpage = RangeOf(c).vpage + k
  <2> DEFINE q == RangeOf(c).vpage
             m == RangeOf(c).n
  <2>1. q \in Nat /\ m \in Int /\ vpage \in q .. q + m - 1
    BY <1>2, <1>7, RangesInSpace DEF RangeType, Pages
  <2> HIDE DEF q, m
  <2>2. vpage - q \in Nat /\ vpage - q < m /\ vpage = q + (vpage - q)
    BY <2>1
  <2> QED BY <2>2 DEF q, m
<1>9. IsCompleted(c, k) /\ vpage = Asked(c, k)
  <2>1. c < call
    BY <1>1, <1>2, <1>7
  <2> QED BY <1>7, <1>8, <2>1 DEF IsCompleted, Asked
<1>10. PICK f \in Frame : OnPath(f, vpage, 1) /\ mem[f][PAGE_LEVEL_INDEX(vpage, 1)].p
  <2>1. Wanted(c, k).p = TRUE
    BY DEF Wanted, Pte
  <2> QED BY <1>1, <1>9, <2>1 DEF TInv, CompletedMapped
<1>11. /\ OnPath(FrameOf(table), vpage, level) /\ vpage \in Nat /\ level \in Level
       /\ entry = mem[FrameOf(table)][PAGE_LEVEL_INDEX(vpage, level)]
  BY <1>1, WalkFacts DEF OnPath
<1> QED
  BY <1>1, <1>10, <1>11, MappedEntriesPresent
\* Frame k of the free memory.
FreeFrame(k) == FrameOf(bootloader_data.free_memory + k)

\* Every frame of the free memory is put to use, one as the stack of main2, the
\* others as tables that the ranges of the handover need.
FramesUsed ==
    LET b == bootloader_data IN
    /\ phase = "free" => \A k \in 0 .. page - 1 : role[FreeFrame(k)].use # "unused"
    /\ phase \in {"stack", "root", "map"} =>
          \A k \in 0 .. b.n_pages - 1 : role[FreeFrame(k)].use # "unused"
    /\ \A f \in Frame : role[f].use = "free" => role[f] = FreePage
    /\ \A f \in Frame : role[f].use = "stack" =>
          /\ role[f] = StackPage /\ f = FrameOf(new_stack)
          /\ phase \notin {"kernel_main", "free", "stack"}
    /\ \A f \in Frame : IsTable(f) /\ role[f].level # 4 =>
          <<role[f].level, role[f].path>> \in TablesNeeded(b)

\* A page taken off the list for a use that FramesUsed allows.
LEMMA TakeKeepsFramesUsed ==
    ASSUME IInv, FramesUsed, phase \in {"stack", "root", "map"}, NEW r, TakePage(r),
           r = StackPage \/ (r.use = "table" /\
                             (r.level # 4 => <<r.level, r.path>> \in TablesNeeded(bootloader_data))),
           r = StackPage => phase = "stack" /\ new_stack' = free_list,
           r # StackPage => new_stack' = new_stack,
           phase' \in {"root", "map"}, UNCHANGED <<bootloader_data, apic_vaddr>>
    PROVE  FramesUsed'
<1> DEFINE b == bootloader_data
           g == FrameOf(free_list)
<1>1. /\ free_list # NULL /\ role' = [role EXCEPT ![g] = r]
      /\ g \in Frame /\ role[g] = FreePage /\ role \in [Frame -> Role]
  BY HeadIsFree DEF TakePage, IInv, TypeOK
<1>2. /\ role'[g] = r /\ \A f \in Frame : f # g => role'[f] = role[f]
  <2> HIDE DEF g
  <2> QED BY <1>1
<1>3. StackPage.use = "stack" /\ StackPage.level = 0
  BY DEF StackPage
<1>4. r.use \in {"stack", "table"}
  BY <1>3
<1>5. \A k \in 0 .. b.n_pages - 1 : FreeFrame(k)' = FreeFrame(k) /\ FreeFrame(k) \in Frame
  BY KernelAssumption DEF FreeFrame, FrameOf, IInv, TypeOK
<1>6. \A k \in 0 .. b.n_pages - 1 : role'[FreeFrame(k)].use # "unused"
  BY <1>2, <1>4, <1>5 DEF FramesUsed
<1>7. \A f \in Frame : role'[f].use = "free" => role'[f] = FreePage
  BY <1>2, <1>4 DEF FramesUsed
<1>8. ASSUME NEW f \in Frame, role'[f].use = "stack"
      PROVE  role'[f] = StackPage /\ f = FrameOf(new_stack')
  <2>1. CASE r = StackPage
    <3>1. \A e \in Frame : role[e].use # "stack"
      BY <2>1 DEF FramesUsed
    <3> QED BY <1>2, <1>8, <2>1, <3>1
  <2>2. CASE r # StackPage
    BY <1>2, <1>8, <2>2 DEF FramesUsed
  <2> QED BY <2>1, <2>2
<1>9. ASSUME NEW f \in Frame, role'[f].use = "table", role'[f].level # 4
      PROVE  <<role'[f].level, role'[f].path>> \in TablesNeeded(b)
  BY <1>2, <1>3, <1>9 DEF FramesUsed, IsTable
<1>10. TablesNeeded(b)' = TablesNeeded(b)
  BY DEF TablesNeeded, RangeOf
<1>11. FrameOf(new_stack)' = FrameOf(new_stack')
  BY DEF FrameOf
<1> QED
  BY <1>5, <1>6, <1>7, <1>8, <1>9, <1>10, <1>11 DEF FramesUsed, IsTable

\* The table map_page makes is one that the ranges need.
LEMMA MadeIsNeeded ==
    ASSUME IInv, phase = "map", Walking, level > 1
    PROVE  <<level - 1, Path(vpage, level - 1)>> \in TablesNeeded(bootloader_data)
<1>1. call \in 1 .. NumCalls(bootloader_data) /\ page \in Nat /\ page < Call.n
  BY DEF IInv, TypeOK, Progress, Walking
<1>2. Call \in RangeType /\ RangeOf(call) = Call
  BY <1>1, RangesInSpace DEF RangeOf, Call
<1>3. vpage \in Pages(RangeOf(call))
  <2>1. Call.vpage \in Nat /\ Call.n \in Int
    BY <1>2 DEF RangeType
  <2>2. Call.vpage + page \in Call.vpage .. Call.vpage + Call.n - 1
    BY <1>1, <2>1
  <2> QED BY <1>2, <2>2 DEF vpage, Pages
<1>4. level - 1 \in 1 .. 3
  BY WalkFacts DEF Level
<1>5. vpage \in UNION {Pages(RangeOf(c)) : c \in 1 .. NumCalls(bootloader_data)}
  BY <1>1, <1>3
<1> QED
  BY <1>4, <1>5 DEF TablesNeeded
\* The initial states.
LEMMA InitFramesUsed == Init => FramesUsed
<1> SUFFICES ASSUME Init PROVE FramesUsed
  OBVIOUS
<1>1. phase = "kernel_main" /\ \A f \in Frame : role[f] = Unused
  BY DEF Init
<1>2. Unused.use = "unused"
  BY DEF Unused
<1> QED
  BY <1>1, <1>2 DEF FramesUsed, IsTable

\* Every step keeps track of the frames in use.
LEMMA FramesUsedPreserved ==
    ASSUME IInv, FramesUsed, [Next]_vars PROVE FramesUsed'
<1> DEFINE b == bootloader_data
<1>0. /\ b \in BootloaderData /\ page \in Nat /\ b.n_pages \in Nat
      /\ (phase = "free" => page <= b.n_pages)
      /\ (phase \in {"kernel_main", "free", "stack", "root"} => \A f \in Frame : ~IsTable(f))
      /\ role \in [Frame -> Role]
  BY HandoverTypes DEF IInv, TypeOK, Progress
<1>1. CASE KernelMain
  <2>1. phase = "kernel_main" /\ phase' = "free" /\ UNCHANGED <<bootloader_data, role, new_stack, page>>
    BY <1>1 DEF KernelMain, At, loop
  <2>2. page = 0 /\ 0 .. 0 - 1 = {}
    BY <2>1 DEF IInv, Progress
  <2>3. \A f \in Frame : role[f].use # "stack" /\ role[f].use # "table"
    BY <1>0, <2>1 DEF FramesUsed, IsTable
  <2> QED BY <2>1, <2>2, <2>3 DEF FramesUsed, IsTable
<1>2. CASE FreeInitialPage
  <2> DEFINE g == FreeFrame(page)
  <2>1. /\ phase = "free" /\ phase' = "free" /\ page' = page + 1 /\ page < b.n_pages
        /\ role' = [role EXCEPT ![g] = FreePage]
        /\ UNCHANGED <<bootloader_data, new_stack>>
    BY <1>2 DEF FreeInitialPage, At, FreeFrame
  <2>2. \A k \in 0 .. b.n_pages - 1 : FreeFrame(k) \in Frame /\ FreeFrame(k)' = FreeFrame(k)
    BY <1>0, <2>1, KernelAssumption DEF FreeFrame, FrameOf
  <2>3. FreePage.use = "free"
    BY DEF FreePage
  <2>4. \A f \in Frame : role'[f] = IF f = g THEN FreePage ELSE role[f]
    <3> HIDE DEF g
    <3> QED BY <1>0, <2>1
  <2>5. \A k : k \in 0 .. page' - 1 => k \in 0 .. b.n_pages - 1 /\ (k = page \/ k \in 0 .. page - 1)
    BY <1>0, <2>1
  <2>6. \A k \in 0 .. page' - 1 : role'[FreeFrame(k)].use # "unused"
    <3> SUFFICES ASSUME NEW k \in 0 .. page' - 1 PROVE role'[FreeFrame(k)].use # "unused"
      OBVIOUS
    <3>1. FreeFrame(k) \in Frame
      BY <2>2, <2>5
    <3>2. CASE FreeFrame(k) = g
      BY <3>1, <3>2, <2>3, <2>4
    <3>3. CASE FreeFrame(k) # g
      <4>1. k \in 0 .. page - 1
        BY <3>3, <2>5
      <4>2. role[FreeFrame(k)].use # "unused"
        BY <2>1, <4>1 DEF FramesUsed
      <4> QED BY <3>1, <3>3, <2>4, <4>2
    <3> QED BY <3>2, <3>3
  <2>7. \A f \in Frame : role[f].use # "stack" /\ role[f].use # "table"
    BY <1>0, <2>1 DEF FramesUsed, IsTable
  <2>8. \A k \in 0 .. page' - 1 : FreeFrame(k)' = FreeFrame(k)
    BY <2>2, <2>5
  <2> QED BY <2>1, <2>3, <2>4, <2>6, <2>7, <2>8 DEF FramesUsed, IsTable
<1>3. CASE InitialPagesFreed
  <2>1. /\ phase = "free" /\ phase' = "stack" /\ page >= b.n_pages
        /\ UNCHANGED <<bootloader_data, role, new_stack>>
    BY <1>3 DEF InitialPagesFreed, At
  <2>2. page = b.n_pages
    BY <1>0, <2>1
  <2>3. \A k : FreeFrame(k)' = FreeFrame(k)
    BY <2>1 DEF FreeFrame, FrameOf
  <2>4. \A f \in Frame : role[f].use # "stack" /\ role[f].use # "table"
    BY <1>0, <2>1 DEF FramesUsed, IsTable
  <2> QED BY <2>1, <2>2, <2>3, <2>4 DEF FramesUsed, IsTable
<1>4. CASE AllocateStack
  <2>1. /\ phase = "stack" /\ phase' = "root" /\ TakePage(StackPage) /\ new_stack' = free_list
        /\ UNCHANGED <<bootloader_data, apic_vaddr>>
    BY <1>4 DEF AllocateStack, At, Allocated, Returned, Implied, APP_NORMAL
  <2> QED BY <2>1, TakeKeepsFramesUsed
<1>5. CASE AllocateRoot
  <2>1. /\ phase = "root" /\ phase' = "map" /\ TakePage(TablePage(4, NoPath))
        /\ UNCHANGED <<bootloader_data, apic_vaddr, new_stack>>
    BY <1>5 DEF AllocateRoot, At
  <2>2. /\ TablePage(4, NoPath).use = "table" /\ TablePage(4, NoPath).level = 4
        /\ TablePage(4, NoPath) # StackPage
    BY DEF TablePage, StackPage
  <2> QED BY <2>1, <2>2, TakeKeepsFramesUsed
<1>6. CASE MakeTable
  <2> DEFINE r == TablePage(level - 1, Path(vpage, level - 1))
  <2>1. /\ phase = "map" /\ phase' = "map" /\ Walking /\ level > 1 /\ TakePage(r)
        /\ UNCHANGED <<bootloader_data, apic_vaddr, new_stack>>
    BY <1>6 DEF MakeTable, At
  <2>2. /\ r.use = "table" /\ r # StackPage
        /\ <<r.level, r.path>> \in TablesNeeded(bootloader_data)
    BY <2>1, MadeIsNeeded DEF TablePage, StackPage
  <2> HIDE DEF r
  <2> QED BY <2>1, <2>2, TakeKeepsFramesUsed
<1>7. CASE MapRangeReturns \/ EnterTable \/ MapPage \/ SetVpageRo \/ AddressSpaceDone
           \/ SetCr3 \/ ResetSystem \/ Halt \/ PageFault \/ Hang \/ UNCHANGED vars
  <2>1. UNCHANGED <<bootloader_data, apic_vaddr, role, new_stack>>
    BY <1>7 DEF MapRangeReturns, EnterTable, MapPage, SetVpageRo, AddressSpaceDone, SetCr3,
                ResetSystem, Halt, PageFault, Hang, vars
  <2>2. /\ phase' = "free" => phase = "free" /\ page' = page
        /\ phase' \in {"stack", "root", "map"} => phase \in {"stack", "root", "map"}
        /\ phase' \in {"kernel_main", "free", "stack"} => phase \in {"kernel_main", "free", "stack"}
    BY <1>7 DEF MapRangeReturns, EnterTable, MapPage, SetVpageRo, AddressSpaceDone, SetCr3,
                ResetSystem, Halt, PageFault, Hang, vars, At, Walking, loop, Stopped
  <2>3. /\ \A k : FreeFrame(k)' = FreeFrame(k)
        /\ TablesNeeded(b)' = TablesNeeded(b)
    BY <2>1 DEF FreeFrame, FrameOf, TablesNeeded, RangeOf
  <2>4. FrameOf(new_stack)' = FrameOf(new_stack)
    BY <2>1 DEF FrameOf
  <2> QED BY <2>1, <2>2, <2>3, <2>4 DEF FramesUsed, IsTable
<1> QED
  BY <1>1, <1>2, <1>3, <1>4, <1>5, <1>6, <1>7 DEF Next
\* The tables of one level that the ranges could need are finitely many.
LEMMA PathsFinite ==
    ASSUME NEW l
    PROVE  IsFiniteSet({<<l, Path(v, l)>> : v \in VPage})
<1> DEFINE T == {<<l, Path(v, l)>> : v \in VPage}
           f == [v \in VPage |-> <<l, Path(v, l)>>]
<1>1. IsFiniteSet(VPage)
  <2>1. 0 \in Int /\ ENTRIES * ENTRIES * ENTRIES * ENTRIES - 1 \in Int
    BY PagingAssumption
  <2> QED BY <2>1, FS_Interval DEF VPage
<1>2. f \in [VPage -> T] /\ \A t \in T : \E v \in VPage : f[v] = t
  OBVIOUS
<1>3. f \in Surjection(VPage, T)
  <2> HIDE DEF f, T
  <2> QED BY <1>2 DEF Surjection
<1> HIDE DEF f, T
<1>4. IsFiniteSet(T)
  BY <1>1, <1>3, FS_Surjection
<1> QED
  BY <1>4 DEF T

\* So are the tables that a handover needs.
LEMMA TablesNeededFinite ==
    ASSUME IInv, phase # "kernel_main"
    PROVE  IsFiniteSet(TablesNeeded(bootloader_data))
<1> DEFINE T(l) == {<<l, Path(v, l)>> : v \in VPage}
<1>1. IsFiniteSet(T(1)) /\ IsFiniteSet(T(2)) /\ IsFiniteSet(T(3))
  BY PathsFinite
<1>2. TablesNeeded(bootloader_data) \subseteq T(1) \cup (T(2) \cup T(3))
  <2>1. UNION {Pages(RangeOf(c)) : c \in 1 .. NumCalls(bootloader_data)} \subseteq VPage
    BY RangesInSpace
  <2>2. 1 .. 3 = {1, 2, 3}
    OBVIOUS
  <2> QED BY <2>1, <2>2 DEF TablesNeeded
<1> HIDE DEF T
<1>3. IsFiniteSet(T(1) \cup (T(2) \cup T(3)))
  BY <1>1, FS_Union
<1> QED
  BY <1>2, <1>3, FS_Subset

\* When the list is empty where a page is asked for, every frame is the stack,
\* the root or a table that is needed, and one that is needed is missing or the
\* root or the stack is not there yet.
LEMMA NoMemoryTellsTruth ==
    ASSUME IInv, TInv, FramesUsed, NoMemory
    PROVE  bootloader_data.n_pages < 2 + Cardinality(TablesNeeded(bootloader_data))
<1> DEFINE b == bootloader_data
           D == TablesNeeded(b)
           m == <<level - 1, Path(vpage, level - 1)>>
           K == 0 .. b.n_pages - 1
           S == <<0, NoPath>>
           R == <<4, NoPath>>
           g == [k \in K |-> <<role[FreeFrame(k)].level, role[FreeFrame(k)].path>>]
<1>1. /\ phase \in {"stack", "root", "map"} /\ free_list = NULL
      /\ phase = "map" => Walking /\ level > 1 /\ ~entry.p
      /\ b \in BootloaderData
  BY DEF NoMemory, IInv, TypeOK
<1>2. /\ b.n_pages \in Nat /\ b.paddr_base \in Nat /\ b.paddr_base # 0 /\ b.free_memory \in Nat
      /\ phase # "kernel_main"
  BY <1>1, HandoverTypes
<1>3. ASSUME NEW k \in K
      PROVE  /\ FreeFrame(k) \in Frame
             /\ FreeFrame(k) = (b.free_memory + k) - b.paddr_base
             /\ role[FreeFrame(k)].use \in {"stack", "table"}
  <2>1. FreeFrame(k) \in Frame /\ FreeFrame(k) = (b.free_memory + k) - b.paddr_base
    BY <1>1, KernelAssumption DEF FreeFrame, FrameOf
  <2>2. role[FreeFrame(k)].use # "unused"
    BY <1>1 DEF FramesUsed
  <2>3. role[FreeFrame(k)] # FreePage
    <3>1. ~(b.paddr_base + FreeFrame(k) <= free_list)
      <4>1. FreeFrame(k) \in Nat
        BY <2>1, KernelAssumption
      <4> QED BY <1>1, <1>2, <4>1 DEF NULL
    <3> QED BY <1>2, <2>1, <3>1 DEF IInv, FreeListIntact
  <2>4. role[FreeFrame(k)].use \in {"unused", "free", "stack", "table"}
    BY <2>1 DEF IInv, TypeOK, Role
  <2> QED BY <2>1, <2>2, <2>3, <2>4 DEF FramesUsed
<1>4. ASSUME NEW k \in K, NEW j \in K, g[k] = g[j] PROVE k = j
  <2> DEFINE x == FreeFrame(k)
             y == FreeFrame(j)
  <2>1. x \in Frame /\ y \in Frame /\ role[x].level = role[y].level /\ role[x].path = role[y].path
    BY <1>3, <1>4
  <2>2. StackPage.level = 0
    BY DEF StackPage
  <2>3. role[x].use = "table" => role[x].level # 0
    BY <2>1 DEF IInv, TablesFormTree, PathsEnd, IsTable, Level
  <2>4. role[y].use = "table" => role[y].level # 0
    BY <2>1 DEF IInv, TablesFormTree, PathsEnd, IsTable, Level
  <2>5. CASE role[x].use = "stack"
    <3>1. role[y].use = "stack"
      BY <1>3, <2>1, <2>2, <2>4, <2>5 DEF FramesUsed
    <3> QED
      <4>1. x = y
        BY <2>1, <2>5, <3>1 DEF FramesUsed
      <4> QED BY <1>2, <1>3, <4>1
  <2>6. CASE role[x].use = "table"
    <3>1. role[y].use = "table"
      BY <1>3, <2>1, <2>2, <2>3, <2>6 DEF FramesUsed
    <3>2. role[x] = role[y]
      <4>1. role[x] \in Role /\ role[y] \in Role
        BY <2>1 DEF IInv, TypeOK
      <4> QED BY <2>1, <2>6, <3>1, <4>1 DEF Role
    <3>3. x = y
      BY <2>1, <2>6, <3>1, <3>2 DEF IInv, TablesFormTree, OneTablePerPath, IsTable
    <3> QED BY <1>2, <1>3, <3>3
  <2> QED BY <1>3, <2>5, <2>6
<1>5. ASSUME NEW k \in K
      PROVE  g[k] \in ((D \cup {S}) \cup {R}) /\ (phase # "map" => g[k] = S)
             /\ (phase = "map" => g[k] # m)
  <2> DEFINE x == FreeFrame(k)
  <2>1. x \in Frame /\ g[k] = <<role[x].level, role[x].path>>
    BY <1>3
  <2>2. CASE role[x].use = "stack"
    <3>1. role[x] = StackPage
      BY <2>1, <2>2 DEF FramesUsed
    <3>2. g[k] = S
      BY <2>1, <3>1 DEF StackPage
    <3>3. phase = "map" => level - 1 # 0
      BY <1>1 DEF IInv, TypeOK, Level
    <3> QED BY <3>2, <3>3
  <2>3. CASE role[x].use = "table" /\ role[x].level # 4
    <3>1. g[k] \in D
      BY <2>1, <2>3 DEF FramesUsed, IsTable
    <3>2. phase = "map"
      BY <1>1, <2>1, <2>3 DEF IInv, Progress, IsTable
    <3>3. g[k] # m
      <4> SUFFICES ASSUME g[k] = m PROVE FALSE
        OBVIOUS
      <4> DEFINE t == FrameOf(table)
                 l == level - 1
      <4>1. /\ OnPath(t, vpage, level) /\ entry = mem[t][PAGE_LEVEL_INDEX(vpage, level)]
            /\ vpage \in Nat /\ level \in Level
        BY <1>1, <3>2, WalkFacts DEF OnPath
      <4>2. l \in 1 .. 3 /\ l + 1 = level
        BY <1>1, <3>2, <4>1 DEF Level
      <4>3. role[x].level = l /\ role[x].path = Path(vpage, l)
        BY <2>1
      <4>4. OnPath(x, vpage, l)
        <5>1. role[x] \in Role
          BY <2>1 DEF IInv, TypeOK
        <5> HIDE DEF x, l
        <5>2. role[x] = [use |-> role[x].use, level |-> role[x].level, path |-> role[x].path]
          BY <5>1 DEF Role
        <5> QED BY <2>1, <2>3, <4>3, <5>2 DEF OnPath, TablePage
      <4> HIDE DEF l
      <4>5. PICK f \in Frame : /\ OnPath(f, vpage, l + 1)
                               /\ mem[f][PAGE_LEVEL_INDEX(vpage, l + 1)] = Pte(x, TRUE)
        BY <4>1, <4>2, <4>4, WalkUp
      <4>6. f = t
        BY <4>1, <4>2, <4>5, OnPathIsTable
      <4>7. Pte(x, TRUE).p = TRUE
        BY DEF Pte
      <4> QED BY <1>1, <3>2, <4>1, <4>2, <4>5, <4>6, <4>7
    <3> QED BY <3>1, <3>2, <3>3
  <2>4. CASE role[x].use = "table" /\ role[x].level = 4
    <3>1. phase = "map"
      BY <1>1, <2>1, <2>4 DEF IInv, Progress, IsTable
    <3>2. role[x].path = NoPath
      <4>1. \A l \in 1 .. 4 : role[x].path[l] = 0
        BY <2>1, <2>4 DEF IInv, TablesFormTree, PathsEnd, IsTable
      <4>2. role[x].path \in [Level -> Index]
        BY <2>1 DEF IInv, TypeOK, Role
      <4> QED BY <4>1, <4>2 DEF NoPath, Level
    <3>3. g[k] = R
      BY <2>1, <2>4, <3>2
    <3>4. level - 1 # 4
      BY DEF IInv, TypeOK, Level
    <3> QED BY <3>1, <3>3, <3>4
  <2> QED BY <1>3, <2>2, <2>3, <2>4
<1>6. IsFiniteSet(D) /\ Cardinality(D) \in Nat
  BY <1>2, TablesNeededFinite, FS_CardinalityType
<1>7. IsFiniteSet(K) /\ Cardinality(K) = b.n_pages
  <2>1. /\ IsFiniteSet(K)
        /\ Cardinality(K) = IF 0 > b.n_pages - 1 THEN 0 ELSE (b.n_pages - 1) - 0 + 1
    <3>1. 0 \in Int /\ b.n_pages - 1 \in Int
      BY <1>2
    <3> QED BY <3>1, FS_Interval
  <2> HIDE DEF K
  <2> QED BY <1>2, <2>1
<1>8. CASE phase # "map"
  <2>1. IsFiniteSet({S}) /\ Cardinality({S}) = 1
    BY FS_Singleton
  <2>2. g \in [K -> {S}]
    BY <1>5, <1>8
  <2> HIDE DEF g, K, S, D
  <2>3. ~(1 < Cardinality(K))
    BY <1>4, <1>7, <2>1, <2>2, FS_PigeonHole
  <2> QED BY <1>2, <1>6, <1>7, <2>3 DEF D
<1>9. CASE phase = "map"
  <2> DEFINE E == ((D \ {m}) \cup {S}) \cup {R}
  <2>1. m \in D
    BY <1>1, <1>9, MadeIsNeeded
  <2>2. g \in [K -> E]
    <3> HIDE DEF m, S, R, D
    <3> QED BY <1>5, <1>9
  <2> HIDE DEF g, K, S, R, D, m
  <2>3. IsFiniteSet(D \ {m}) /\ Cardinality(D \ {m}) = Cardinality(D) - 1
    BY <1>6, <2>1, FS_RemoveElement
  <2>4. /\ IsFiniteSet((D \ {m}) \cup {S})
        /\ Cardinality((D \ {m}) \cup {S}) <= Cardinality(D)
        /\ Cardinality((D \ {m}) \cup {S}) \in Nat
    <3>1. IsFiniteSet((D \ {m}) \cup {S}) /\ Cardinality((D \ {m}) \cup {S}) =
            IF S \in D \ {m} THEN Cardinality(D \ {m}) ELSE Cardinality(D \ {m}) + 1
      BY <2>3, FS_AddElement
    <3> QED BY <1>6, <2>3, <3>1, FS_CardinalityType
  <2>5. IsFiniteSet(E) /\ Cardinality(E) <= Cardinality(D) + 1 /\ Cardinality(E) \in Nat
    <3>1. IsFiniteSet(E) /\ Cardinality(E) =
            IF R \in (D \ {m}) \cup {S} THEN Cardinality((D \ {m}) \cup {S})
            ELSE Cardinality((D \ {m}) \cup {S}) + 1
      BY <2>4, FS_AddElement
    <3> QED BY <1>6, <2>4, <3>1, FS_CardinalityType
  <2> HIDE DEF E
  <2>6. ~(Cardinality(E) < Cardinality(K))
    BY <1>4, <1>7, <2>2, <2>5, FS_PigeonHole
  <2> QED BY <1>2, <1>6, <1>7, <2>5, <2>6 DEF D
<1> QED
  BY <1>8, <1>9
\* Every step keeps what the calls of halt() say.
LEMMA HaltsPreserved ==
    ASSUME IInv, TInv, FramesUsed, HaltsTruthfully, [Next]_vars PROVE HaltsTruthfully'
<1> DEFINE b == bootloader_data
<1>1. phase' \in {"assert", "nomem"} =>
         /\ UNCHANGED <<bootloader_data, apic_vaddr>>
         /\ \/ phase' = phase
            \/ phase' = "assert" /\ Missing
            \/ phase' = "nomem" /\ NoMemory
  BY DEF Next, vars, KernelMain, FreeInitialPage, InitialPagesFreed, AllocateStack,
         AllocateRoot, MapRangeReturns, EnterTable, MakeTable, MapPage, SetVpageRo,
         AddressSpaceDone, SetCr3, ResetSystem, Halt, PageFault, Hang, At
<1>2. UNCHANGED <<bootloader_data, apic_vaddr>> =>
         /\ RelroMapped(b)' = RelroMapped(b)
         /\ TablesNeeded(b)' = TablesNeeded(b)
  BY DEF RelroMapped, TablesNeeded, RangeOf
<1>3. ASSUME phase' = "assert" PROVE ~RelroMapped(b)'
  <2>1. ~RelroMapped(b)
    BY <1>1, <1>3, AssertTellsTruth DEF HaltsTruthfully
  <2> QED BY <1>1, <1>2, <1>3, <2>1
<1>4. ASSUME phase' = "nomem"
      PROVE  b.n_pages' < 2 + Cardinality(TablesNeeded(b)')
  <2>1. b.n_pages < 2 + Cardinality(TablesNeeded(b))
    BY <1>1, <1>4, NoMemoryTellsTruth DEF HaltsTruthfully
  <2> QED BY <1>1, <1>2, <1>4, <2>1
<1> QED
  BY <1>3, <1>4 DEF HaltsTruthfully

\* The asserts of set_vpage_ro fire only when RELRO reaches outside the mapped
\* pages, and the kernel runs out of memory only when the initial pages are
\* fewer than its stack, the root and the tables that the layout needs.
THEOREM KernelHaltsTruthfully == Spec => []HaltsTruthfully
<1>1. Init => FramesUsed
  BY InitFramesUsed
<1>2. Init => HaltsTruthfully
  BY DEF Init, HaltsTruthfully
<1>3. IInv /\ FramesUsed /\ [Next]_vars => FramesUsed'
  BY FramesUsedPreserved
<1>4. IInv /\ TInv /\ FramesUsed /\ HaltsTruthfully /\ [Next]_vars => HaltsTruthfully'
  BY HaltsPreserved
<1> QED
  BY <1>1, <1>2, <1>3, <1>4, TInvariance, PTL DEF Spec
-----------------------------------------------------------------------------
(***************************************************************************)
(* What the kernel writes, and what each page is at last.                  *)
(***************************************************************************)
\* Frames that are in use or not zero are those of the free memory.
WritesFree ==
    \A f \in Frame :
       role[f] # Unused \/ mem[f] # ZeroPage =>
          bootloader_data.paddr_base + f \in FreeMemory(bootloader_data)

\* No frame is in use and all are zero at the start.
LEMMA InitWritesFree == Init => WritesFree
  BY DEF Init, WritesFree

\* A frame that the free memory does not hold is neither taken nor written.
LEMMA WritesFreePreserved ==
    ASSUME IInv, WritesFree, [Next]_vars PROVE WritesFree'
<1> DEFINE b == bootloader_data
           Ours(f) == b.paddr_base + f \in FreeMemory(b)
<1>1. b' = b
  BY DEF Next, vars, KernelMain, FreeInitialPage, InitialPagesFreed, AllocateStack, AllocateRoot,
         MapRangeReturns, EnterTable, MakeTable, MapPage, SetVpageRo, AddressSpaceDone, SetCr3,
         ResetSystem, Halt, PageFault, Hang
<1>2. mem \in [Frame -> Page] /\ role \in [Frame -> Role]
  BY DEF IInv, TypeOK
<1>3. ASSUME NEW f \in Frame, ~Ours(f)
      PROVE  mem'[f] = mem[f] /\ role'[f] = role[f]
  <2>1. CASE UNCHANGED <<mem, role>>
    BY <2>1
  <2>2. CASE FreeInitialPage
    <3> DEFINE ptr == b.free_memory + page
               g == FrameOf(ptr)
    <3>1. /\ page < b.n_pages
          /\ mem' = FreePhysicalPage(mem, b.paddr_base, ptr, free_list)
          /\ role' = [role EXCEPT ![g] = FreePage]
      BY <2>2 DEF FreeInitialPage
    <3>2. /\ b.free_memory \in Nat /\ b.n_pages \in Nat /\ b.paddr_base \in Nat /\ page \in Nat
      BY HandoverTypes DEF IInv, TypeOK
    <3>3. g = ptr - b.paddr_base
      BY DEF FrameOf
    <3> HIDE DEF b
    <3>4. ptr \in FreeMemory(b) /\ b.paddr_base + g = ptr
      BY <3>1, <3>2, <3>3 DEF FreeMemory
    <3>5. f # g
      BY <1>3, <3>4
    <3> HIDE DEF ptr, g
    <3> QED BY <1>2, <3>1, <3>3, <3>5 DEF FreePhysicalPage
  <2>3. ASSUME phase # "kernel_main", free_list # NULL PROVE f # FrameOf(free_list)
    <3>1. b.paddr_base + FrameOf(free_list) \in FreeMemory(b)
      BY <2>3, HeadIsFree
    <3> QED BY <1>3, <3>1
  <2>4. ASSUME Walking PROVE f # FrameOf(table)
    <3>1. FrameOf(table) \in Frame /\ IsTable(FrameOf(table))
      BY <2>4, WalkFacts
    <3>2. role[FrameOf(table)] # Unused
      BY <3>1 DEF IsTable, Unused
    <3>3. Ours(FrameOf(table))
      BY <3>1, <3>2 DEF WritesFree
    <3> QED BY <1>3, <3>3
  <2>5. CASE AllocateStack \/ AllocateRoot
    <3>1. /\ f # FrameOf(free_list)
          /\ \E r : role' = [role EXCEPT ![FrameOf(free_list)] = r]
      <4>1. phase # "kernel_main" /\ free_list # NULL
        BY <2>5 DEF AllocateStack, AllocateRoot, At, TakePage
      <4> QED BY <2>3, <2>5, <4>1 DEF AllocateStack, AllocateRoot, TakePage
    <3>2. mem' = mem \/ mem' = [mem EXCEPT ![FrameOf(free_list)] = ZeroPage]
      BY <2>5 DEF AllocateStack, AllocateRoot, AfterAllocate, AllocatePhysicalPage, FrameOf
    <3> QED BY <1>2, <3>1, <3>2
  <2>6. CASE MakeTable
    <3> DEFINE t == FrameOf(table)
               g == FrameOf(free_list)
               i == PAGE_LEVEL_INDEX(vpage, level)
               w == Pte(Allocated({"APP_PTE"}), TRUE)
    <3>1. /\ phase # "kernel_main" /\ free_list # NULL /\ Walking
          /\ \E r : role' = [role EXCEPT ![g] = r]
          /\ mem' = [[mem EXCEPT ![g] = ZeroPage] EXCEPT ![t][i] = w]
      BY <2>6 DEF MakeTable, At, TakePage, AfterAllocate, AllocatePhysicalPage, Implied, FrameOf
    <3>2. f # g /\ f # t
      BY <2>3, <2>4, <3>1
    <3> HIDE DEF t, g, i, w
    <3> QED BY <1>2, <3>1, <3>2
  <2>7. CASE MapPage \/ SetVpageRo
    <3>1. /\ Walking /\ role' = role
          /\ \E i, w : mem' = [mem EXCEPT ![FrameOf(table)][i] = w]
      BY <2>7 DEF MapPage, SetVpageRo
    <3> QED BY <1>2, <2>4, <3>1
  <2>8. CASE KernelMain \/ InitialPagesFreed \/ MapRangeReturns \/ EnterTable \/ AddressSpaceDone
             \/ SetCr3 \/ ResetSystem \/ Halt \/ PageFault \/ Hang \/ UNCHANGED vars
    <3>1. UNCHANGED <<mem, role>>
      BY <2>8 DEF KernelMain, InitialPagesFreed, MapRangeReturns, EnterTable, AddressSpaceDone,
                  SetCr3, ResetSystem, Halt, PageFault, Hang, vars
    <3> QED BY <3>1
  <2> QED BY <2>2, <2>5, <2>6, <2>7, <2>8 DEF Next
<1> QED BY <1>1, <1>3 DEF WritesFree

\* After the switch the tables in force hold the pages of the calls, each at the
\* place of its range, and nothing else.
LEMMA FinalTranslation ==
    ASSUME IInv, TInv, cr3 # BOOT
    PROVE  /\ \A c \in 1 .. NumCalls(bootloader_data) : \A v \in Pages(RangeOf(c)) :
                 /\ v \in DOMAIN Translation(mem, cr3)
                 /\ Translation(mem, cr3)[v].addr = RangeOf(c).ppage + (v - RangeOf(c).vpage)
           /\ \A v \in DOMAIN Translation(mem, cr3) :
                 \E c \in 1 .. NumCalls(bootloader_data) : v \in Pages(RangeOf(c))
<1> DEFINE T == Translation(mem, cr3)
           N == NumCalls(bootloader_data)
<1>1. address_space # NULL /\ cr3 = Root /\ call > N /\ phase # "kernel_main"
  BY DEF TInv, Stage, Early
<1>2. ASSUME NEW c \in 1 .. N, NEW v \in Pages(RangeOf(c))
      PROVE  v \in DOMAIN T /\ T[v].addr = RangeOf(c).ppage + (v - RangeOf(c).vpage)
  <2> DEFINE r == RangeOf(c)
             k == v - r.vpage
  <2>1. r \in RangeType
    BY <1>1, RangesInSpace
  <2>2. r.vpage \in Nat /\ r.n \in Int /\ v \in r.vpage .. r.vpage + r.n - 1
    BY <1>2, <2>1 DEF RangeType, Pages
  <2> HIDE DEF r
  <2>3. k \in Nat /\ k < r.n /\ r.vpage + k = v
    BY <2>2
  <2> HIDE DEF k
  <2>4. k < RangeOf(c).n /\ RangeOf(c).vpage + k = v
    BY <2>3 DEF r
  <2>5. /\ v \in DOMAIN Translation(mem, Root)
        /\ Translation(mem, Root)[v] = [addr |-> RangeOf(c).ppage + k,
                                       rw   |-> RangeOf(c).rw /\ v \notin Protected]
    BY <1>1, <2>3, <2>4, FinishedTranslates
  <2>6. v \in DOMAIN T /\ T[v].addr = r.ppage + k
    BY <1>1, <2>5 DEF r
  <2> QED BY <2>6 DEF r, k
<1>3. ASSUME NEW v \in DOMAIN T PROVE \E c \in 1 .. N : v \in Pages(RangeOf(c))
  <2>1. TranslationExact
    BY ExactFollows
  <2>2. PICK p \in Completed : v = RangeOf(p[1]).vpage + p[2]
    BY <1>1, <2>1 DEF TranslationExact, Root
  <2>3. IsCompleted(p[1], p[2])
    BY <1>1, CompletedPairs
  <2>4. p[1] \in 1 .. N /\ Asked(p[1], p[2]) \in Pages(RangeOf(p[1]))
    BY <1>1, <2>3, CompletedPage
  <2> QED BY <2>2, <2>4 DEF Asked
<1> QED BY <1>2, <1>3
=============================================================================
