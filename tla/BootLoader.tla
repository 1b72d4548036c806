----------------------------- MODULE BootLoader -----------------------------
(***************************************************************************)
(* The boot loader, efi/opsys-loader.c: the eleven steps of efi_main and   *)
(* efi_main2 (doc/boot.md), from the allocation of the boot memory to the  *)
(* jump to the kernel.                                                     *)
(*                                                                         *)
(* Until ExitBootServices the loader shares the machine with the firmware, *)
(* whose own allocations change the memory map at any time, and any call   *)
(* of the firmware may fail.  The firmware is external: what it does is    *)
(* taken from how the loader uses it.  The boot page tables are the set of *)
(* pages they translate; the frames of the tables count, because they turn *)
(* up in the final memory map.                                             *)
(***************************************************************************)
EXTENDS Handover, SequencesExt, FiniteSetsExt

CONSTANTS
    Setups,         \* the machines with their kernel files considered
    KERNEL_BASE,    \* first page of the kernel
    CAPACITY,       \* MemoryMap entries that fit behind bootloader_data
    MaxEvents       \* bound on the allocations of the firmware itself

\* A frame of RAM as the firmware sees it.
Region == [Type : MemoryType, runtime : BOOLEAN]

\* A segment in the file: p_vaddr is the page and the offset, relative to the
\* kernel's base, and first tells that p_offset is 0.
FilePhdr == [p_type : {"PT_LOAD", "PT_DYNAMIC", "PT_GNU_STACK",
                       "PT_GNU_RELRO"},
             writable : BOOLEAN, executable : BOOLEAN, first : BOOLEAN,
             vpage : Nat, offset : 0 .. PAGE_SIZE - 1, p_memsz : Nat]

\* d_val of DT_RELASZ is a number of entries, that of DT_RELAENT tells whether
\* it is the size of one, and a relocation has the page of its word.
Dyn == [d_tag : {"DT_RELA", "DT_RELASZ", "DT_RELAENT", "DT_REL", "DT_OTHER"},
        d_val : Nat]
Rela == [vpage : Nat, relative : BOOLEAN]
RELAENT == 1

Image == [phdrs : Seq(FilePhdr), dynamic : Seq(Dyn), relas : Seq(Rela)]

\* The pages of the memory mapped I/O in a map: the sum of NumberOfPages,
\* counted page by page.
MmioPages(d) == IF d.Type \in MmioType THEN d.NumberOfPages ELSE 0
MmioSize(map) ==
    Cardinality(UNION {{i} \X (0 .. MmioPages(map[i]) - 1) : i \in DOMAIN map})

\* Physical memory ends with the last entry but one of the map.
PaddrSize(map) ==
    IF Len(map) < 3 THEN 0
    ELSE map[Len(map) - 1].PhysicalStart + map[Len(map) - 1].NumberOfPages

\* A machine: its RAM at the time efi_main allocates, the memory mapped I/O the
\* firmware lists behind it, the frame of the runtime services table, and the
\* number of free pages a loader built for it allocates.
Machine(m) ==
    /\ IsFiniteSet(DOMAIN m.ram) /\ DOMAIN m.ram \subseteq Nat
    /\ m.ram \in [DOMAIN m.ram -> Region]
    /\ \A f \in DOMAIN m.ram : m.ram[f].Type \notin MmioType
    /\ m.mmio \in Seq(Descriptor) /\ m.mmio # << >>
    /\ \A i \in DOMAIN m.mmio :
          /\ m.mmio[i].Type \in MmioType
          /\ \A f \in DOMAIN m.ram : f < m.mmio[i].PhysicalStart
          /\ \A j \in DOMAIN m.mmio : i < j =>
                m.mmio[i].PhysicalStart + m.mmio[i].NumberOfPages
                <= m.mmio[j].PhysicalStart
    /\ m.RT \in DOMAIN m.ram
    /\ m.ram[m.RT].Type # "EfiConventionalMemory" /\ m.ram[m.RT].runtime
    /\ m.n_pages \in Nat \ {0}

\* Below the kernel there is room for the window, the I/O and the APIC, and the
\* identity mapping ends before them.
RoomBelowKernel(m) ==
    \A size \in {f + 1 : f \in DOMAIN m.ram}
                \cup {m.mmio[i].PhysicalStart + m.mmio[i].NumberOfPages :
                       i \in 1 .. Len(m.mmio) - 1} :
       /\ size + MmioSize(m.mmio) < KERNEL_BASE
       /\ size + size <= KERNEL_BASE

\* A kernel as the linker makes it with the options of the Makefile: the first
\* segment has the ELF header and is linked to 0, segments and RELRO end within
\* the address space, and the dynamic section, where it names a table of
\* relocations, gives its size; they are of words in writable segments.
Linked(i) ==
    /\ i \in Image /\ i.phdrs # << >>
    /\ \A k \in DOMAIN i.phdrs :
          LET h == i.phdrs[k] IN
          /\ h.p_type = "PT_LOAD" /\ h.first =>
                h.vpage = 0 /\ h.offset = 0 /\ h.p_memsz > 0
          /\ h.p_type \in {"PT_LOAD", "PT_GNU_RELRO"} =>
                KERNEL_BASE + h.vpage .. KERNEL_BASE + h.vpage
                   + NUM_PAGES(h.offset, h.p_memsz) - 1 \subseteq VPage
    /\ \A r \in DOMAIN i.relas : i.relas[r].relative =>
          \E k \in DOMAIN i.phdrs :
             LET h == i.phdrs[k] IN
             /\ h.p_type = "PT_LOAD" /\ h.writable
             /\ i.relas[r].vpage \in
                   h.vpage .. h.vpage + NUM_PAGES(h.offset, h.p_memsz) - 1
    /\ \A k \in DOMAIN i.dynamic :
          i.dynamic[k].d_tag = "DT_RELASZ" => i.dynamic[k].d_val = Len(i.relas)
    /\ i.relas # << >> =>
          {"DT_RELA", "DT_RELASZ"} \subseteq {i.dynamic[k].d_tag : k \in DOMAIN i.dynamic}

ASSUME BootLoaderAssumption ==
    /\ \A s \in Setups :
          Machine(s.machine) /\ RoomBelowKernel(s.machine) /\ Linked(s.image)
    /\ KERNEL_BASE \in VPage
    /\ CAPACITY \in Nat
    /\ MaxEvents \in Nat
-----------------------------------------------------------------------------
VARIABLES
    phase,          \* the step efi_main or efi_main2 is at
    machine, image, \* nothing changes them
    ram,            \* the firmware's view of each frame
    pool,           \* the frames the firmware took meanwhile
    events,         \* how often it took or released one
    new_stack, data, free_memory,   \* the boot memory
    prelim,         \* the preliminary memory map
    phdrs,          \* the program headers in the loaded image
    bd,             \* the other fields of *bootloader_data
    boot,           \* the translation of the boot page tables
    tables,         \* their frames
    current,        \* whether MapKey still is that of the firmware
    cursor,         \* i and NewLength of the loop of init_mmap
    passed,         \* the descriptors passed to SetVirtualAddressMap
    relocated       \* the relocations done

vars == <<phase, machine, image, ram, pool, events, new_stack, data, free_memory,
          prelim, phdrs, bd, boot, tables, current, cursor, passed,
          relocated>>
world == <<machine, image>>
firmware == <<ram, pool, events>>
memory == <<new_stack, data, free_memory>>
paging == <<boot, tables>>

\* bootloader_data->n_pages, which the code sets to 32.
FREE_PAGES == machine.n_pages
-----------------------------------------------------------------------------
(***************************************************************************)
(* The firmware.                                                           *)
(***************************************************************************)
Free(m) == {f \in DOMAIN m : m[f].Type = "EfiConventionalMemory"}

\* The numbers of S in ascending order.
Ascending(S) ==
    [i \in 1 .. Cardinality(S) |->
        CHOOSE x \in S : Cardinality({y \in S : y < x}) = i - 1]

Ends(S) == IF S = {} THEN {} ELSE {Min(S), Max(S)}

\* AllocatePages(AllocateAnyPages): of all the places for n pages the lowest
\* and the highest are considered.
Places(m, n) == Ends({f \in Free(m) : f .. f + n - 1 \subseteq Free(m)})

\* n single pages, the lowest or the highest ones.
SinglePages(m, n) ==
    LET F == Ascending(Free(m))
    IN  IF n > Len(F) THEN {}
        ELSE {{F[i] : i \in 1 .. n}, {F[i] : i \in Len(F) - n + 1 .. Len(F)}}

Allocate(m, frames, type) ==
    [f \in DOMAIN m |-> IF f \in frames THEN [Type |-> type, runtime |-> FALSE]
                        ELSE m[f]]

\* The map GetMemoryMap returns: the stretches of RAM in order, then the I/O.
Starts(m) == {f \in DOMAIN m : f - 1 \in DOMAIN m => m[f - 1] # m[f]}
Stretch(m, f) ==
    {g \in DOMAIN m : f <= g /\ \A h \in f .. g : h \in DOMAIN m /\ m[h] = m[f]}
GetMemoryMap(m) ==
    LET S == Ascending(Starts(m))
    IN  [i \in DOMAIN S |->
            [Type |-> m[S[i]].Type, PhysicalStart |-> S[i], VirtualStart |-> 0,
             NumberOfPages |-> Cardinality(Stretch(m, S[i])),
             runtime |-> m[S[i]].runtime]] \o machine.mmio
-----------------------------------------------------------------------------
BootServices == {"allocate", "prelim", "load", "tables", "final", "exit_bs"}
Stopped == {"exit", "halt", "fault", "kernel"}

Init ==
    /\ phase = "allocate"
    /\ \E s \in Setups : machine = s.machine /\ image = s.image
    /\ ram = machine.ram
    /\ pool = {} /\ events = 0
    /\ new_stack = NULL /\ data = NULL /\ free_memory = NULL
    /\ prelim = << >> /\ phdrs = << >>
    /\ bd = [paddr_base |-> 0, mmio_base |-> 0, MemoryMap |-> << >>,
             NumEntries |-> 0, RT |-> NULL]
    /\ boot = << >> /\ tables = {}
    /\ current = FALSE
    /\ cursor = [next |-> 1, NewLength |-> 1]
    /\ passed = << >>
    /\ relocated = {}

\* While boot services run the firmware and its pools take and release pages.
FirmwareEvent ==
    /\ phase \in BootServices
    /\ events < MaxEvents
    /\ \/ \E f \in Places(ram, 1), t \in {"EfiBootServicesData", "EfiLoaderData"} :
             /\ ram' = Allocate(ram, {f}, t)
             /\ pool' = pool \cup {f}
       \/ \E f \in pool :
             /\ ram' = Allocate(ram, {f}, "EfiConventionalMemory")
             /\ pool' = pool \ {f}
    /\ events' = events + 1
    /\ current' = FALSE
    /\ UNCHANGED <<phase, world, memory, prelim, phdrs, bd, cursor, paging,
                   passed, relocated>>

\* A call fails, as it must when memory or the space for the map runs out, and
\* EXIT_STATUS returns to the firmware.
ExitStatus ==
    /\ phase \in BootServices
    /\ phase' = "exit"
    /\ UNCHANGED <<world, firmware, memory, prelim, phdrs, bd, cursor, paging,
                   current, passed, relocated>>

\* 1. allocate boot memory
AllocateBootMemory ==
    /\ phase = "allocate"
    /\ \E s \in Places(ram, 1) :
          LET m1 == Allocate(ram, {s}, "EfiLoaderData") IN
          \E d \in Places(m1, 2) :
             LET m2 == Allocate(m1, d .. d + 1, "EfiLoaderData") IN
             \E f \in Places(m2, FREE_PAGES) :
                /\ ram' = Allocate(m2, f .. f + FREE_PAGES - 1, "EfiLoaderData")
                /\ new_stack' = s /\ data' = d /\ free_memory' = f
    /\ phase' = "prelim"
    /\ UNCHANGED <<world, pool, events, prelim, phdrs, bd, cursor, paging,
                   current, passed, relocated>>

\* 2. acquire preliminary memory map
AcquirePreliminaryMap ==
    /\ phase = "prelim"
    /\ prelim' = GetMemoryMap(ram)
    /\ phase' = "load"
    /\ UNCHANGED <<world, firmware, memory, phdrs, bd, cursor, paging, current,
                   passed, relocated>>
-----------------------------------------------------------------------------
(***************************************************************************)
(* 3. load kernel executable into physical memory                          *)
(***************************************************************************)
Loaded(h, f) ==
    [p_type |-> h.p_type, writable |-> h.writable, ppage |-> f,
     vpage |-> h.vpage + (IF h.p_type = "PT_GNU_STACK" THEN 0 ELSE KERNEL_BASE),
     offset |-> h.offset, p_memsz |-> h.p_memsz]

\* One iteration of the first loop of load_elf_pages.
LoadSegment ==
    LET h == image.phdrs[Len(phdrs) + 1]
        n == NUM_PAGES(h.offset, h.p_memsz)
        type == IF h.executable THEN "EfiLoaderCode" ELSE "EfiLoaderData"
    IN
    /\ phase = "load"
    /\ Len(phdrs) < Len(image.phdrs)
    /\ \/ /\ h.p_type = "PT_LOAD"
          /\ \E f \in Places(ram, n) :
                /\ ram' = Allocate(ram, f .. f + n - 1, type)
                /\ phdrs' = Append(phdrs, Loaded(h, f))
       \/ /\ h.p_type # "PT_LOAD"
          /\ phdrs' = Append(phdrs, Loaded(h, 0))
          /\ UNCHANGED ram
    /\ UNCHANGED <<phase, world, pool, events, memory, prelim, bd, cursor,
                   paging, current, passed, relocated>>

Vaddr(h) == h.vpage * PAGE_SIZE + h.offset
IN_RANGE(base, size, x) == base <= x /\ x < base + size

\* The PT_LOAD segments that hold the first and the last byte of segment i.
Holders(i) ==
    {j \in DOMAIN phdrs :
        /\ phdrs[j].p_type = "PT_LOAD"
        /\ IN_RANGE(Vaddr(phdrs[j]), phdrs[j].p_memsz, Vaddr(phdrs[i]))
        /\ IN_RANGE(Vaddr(phdrs[j]), phdrs[j].p_memsz,
                    Vaddr(phdrs[i]) + phdrs[i].p_memsz - 1)}

\* The second loop: p_paddr of the other segments is on the first page of the
\* segment that holds them.
SetPaddr(i) ==
    IF phdrs[i].p_type = "PT_LOAD" THEN phdrs[i]
    ELSE [phdrs[i] EXCEPT !.ppage = IF Holders(i) = {} THEN 0
                                    ELSE phdrs[Min(Holders(i))].ppage]

\* load_elf_pages and load_kernel return, unless the file does not start with
\* the first segment.
KernelLoaded ==
    /\ phase = "load"
    /\ Len(phdrs) = Len(image.phdrs)
    /\ phdrs' = [i \in DOMAIN phdrs |-> SetPaddr(i)]
    /\ phase' = IF image.phdrs[1].p_type = "PT_LOAD" /\ image.phdrs[1].first
                THEN "tables" ELSE "exit"
    /\ UNCHANGED <<world, firmware, memory, prelim, bd, cursor, paging,
                   current, passed, relocated>>
-----------------------------------------------------------------------------
(***************************************************************************)
(* 4. prepare boot page tables                                             *)
(***************************************************************************)
\* Mutant: the data of the loader is left out.
IsLoader_CodeOnly(d) == d.Type = "EfiLoaderCode"

IsLoader(d) == d.Type \in {"EfiLoaderCode", "EfiLoaderData"}

\* The loops of map_page calls: Loader segments one to one, the first page of
\* bootloader_data and the free memory in the window, the kernel.
IdentityRange(d) ==
    PageRange(d.PhysicalStart, d.PhysicalStart,
              IF IsLoader(d) THEN d.NumberOfPages ELSE 0, d.Type = "EfiLoaderData")
BootRanges(base) ==
    [i \in DOMAIN prelim |-> IdentityRange(prelim[i])]
    \o <<PageRange(data, base + data, 1, TRUE),
         PageRange(free_memory, base + free_memory, FREE_PAGES, TRUE)>>
    \o [i \in DOMAIN phdrs |-> KernelRange(phdrs[i])]

\* map_page finds a page mapped already.
Remap(R) ==
    \E i, j \in DOMAIN R : i # j /\ Pages(R[i]) \cap Pages(R[j]) # {}

AllPages(R) == UNION {Pages(R[i]) : i \in DOMAIN R}
Translated(R) ==
    [v \in AllPages(R) |->
        LET r == R[CHOOSE i \in DOMAIN R : v \in Pages(R[i])]
        IN  [addr |-> r.ppage + (v - r.vpage), rw |-> r.rw]]

\* The page tables map_page makes on its way: the root, and one for each path
\* to one of the pages.
TablesNeeded(R) ==
    1 + Cardinality({<<l, Path(v, l)>> : l \in 1 .. 3, v \in AllPages(R)})

PrepareBootPageTables ==
    LET base == KERNEL_BASE - PaddrSize(prelim)
        R == BootRanges(base)
    IN
    /\ phase = "tables"
    /\ bd' = [bd EXCEPT !.paddr_base = base,
                        !.mmio_base = base - MmioSize(prelim)]
    /\ \/ /\ Remap(R)
          /\ phase' = "exit"
          /\ UNCHANGED <<ram, paging>>
       \/ /\ ~Remap(R)
          /\ \E T \in SinglePages(ram, TablesNeeded(R)) :
                /\ tables' = T
                /\ ram' = Allocate(ram, T, "EfiLoaderData")
          /\ boot' = Translated(R)
          /\ phase' = "final"
    /\ UNCHANGED <<world, pool, events, memory, prelim, phdrs, cursor, current,
                   passed, relocated>>
-----------------------------------------------------------------------------
\* 5. acquire final memory map, into a struct that allocate_pages cleared
ZeroDescriptor ==
    [Type |-> "EfiReservedMemoryType", PhysicalStart |-> 0, VirtualStart |-> 0,
     NumberOfPages |-> 0, runtime |-> FALSE]

FinalMap(map) ==
    [bd EXCEPT
       !.MemoryMap = map \o [i \in 1 .. CAPACITY - Len(map) |-> ZeroDescriptor],
       !.NumEntries = Len(map)]

AcquireFinalMap ==
    LET map == GetMemoryMap(ram) IN
    /\ phase = "final"
    /\ Len(map) <= CAPACITY
    /\ bd' = FinalMap(map)
    /\ current' = TRUE
    /\ phase' = "exit_bs"
    /\ UNCHANGED <<world, firmware, memory, prelim, phdrs, cursor, paging,
                   passed, relocated>>

\* 6. ExitBootServices takes the key of the current map only.
ExitBootServices ==
    /\ phase = "exit_bs"
    /\ current
    /\ phase' = "init_mmap"
    /\ UNCHANGED <<world, firmware, memory, prelim, phdrs, bd, cursor, paging,
                   current, passed, relocated>>
-----------------------------------------------------------------------------
(***************************************************************************)
(* 7. SetVirtualAddressMap, after init_mmap has reclaimed and merged       *)
(* entries in place                                                        *)
(***************************************************************************)
Reclaimed(d) ==
    IF d.Type \in {"EfiReservedMemoryType", "EfiLoaderCode", "EfiLoaderData",
                   "EfiRuntimeServicesCode", "EfiRuntimeServicesData",
                   "EfiUnusableMemory"} \cup MmioType
    THEN d ELSE [d EXCEPT !.Type = "EfiConventionalMemory"]

\* Mutant: entries are merged across a gap.
Mergeable_AcrossGap(d, prev) == d.Type = prev.Type /\ d.runtime = prev.runtime

\* Of Attribute only the runtime bit is modelled, the one that the loader and the
\* kernel read; the code keeps apart also what differs in another attribute.
Mergeable(d, prev) ==
    /\ d.Type = prev.Type
    /\ d.runtime = prev.runtime
    /\ d.PhysicalStart = prev.PhysicalStart + prev.NumberOfPages

\* Mutant: every MMIO entry starts at mmio_base.
VirtualStart_AtBase(map, i) ==
    CASE map[i].Type \in MmioType -> bd.mmio_base
      [] map[i].Type \notin MmioType /\ map[i].runtime ->
            map[i].PhysicalStart + bd.paddr_base
      [] OTHER -> map[i].VirtualStart

\* Mutant: runtime entries stay at their physical address.
VirtualStart_Physical(map, i) ==
    CASE map[i].Type \in MmioType ->
            bd.mmio_base + MmioSize(SubSeq(map, 1, i - 1))
      [] map[i].Type \notin MmioType /\ map[i].runtime -> map[i].PhysicalStart
      [] OTHER -> map[i].VirtualStart

\* MMIO entries follow one another from mmio_base on, runtime entries are in
\* the window, the others keep what they have.
VirtualStart(map, i) ==
    CASE map[i].Type \in MmioType ->
            bd.mmio_base + MmioSize(SubSeq(map, 1, i - 1))
      [] map[i].Type \notin MmioType /\ map[i].runtime ->
            map[i].PhysicalStart + bd.paddr_base
      [] OTHER -> map[i].VirtualStart

StartsWithNullPage ==
    /\ bd.NumEntries # 0
    /\ bd.MemoryMap[1].Type = "EfiBootServicesCode"
    /\ bd.MemoryMap[1].PhysicalStart = 0
    /\ bd.MemoryMap[1].NumberOfPages = 1

\* init_mmap insists on the null page, which it does not use.
InitMmap ==
    /\ phase = "init_mmap"
    /\ \/ /\ StartsWithNullPage
          /\ bd' = [bd EXCEPT !.MemoryMap[1].Type = "EfiUnusableMemory"]
          /\ cursor' = [next |-> 2, NewLength |-> 1]
          /\ phase' = "merge"
       \/ /\ ~StartsWithNullPage
          /\ phase' = "halt"
          /\ UNCHANGED <<bd, cursor>>
    /\ UNCHANGED <<world, firmware, memory, prelim, phdrs, paging, current,
                   passed, relocated>>

\* Mutant: the loop does not get on.
MergeEntry_Stays ==
    /\ phase = "merge"
    /\ cursor.next <= bd.NumEntries
    /\ UNCHANGED vars

\* One iteration of the loop that merges entries in place; Prev is the last of
\* the first NewLength entries.
MergeEntry ==
    LET d == Reclaimed(bd.MemoryMap[cursor.next])
        prev == bd.MemoryMap[cursor.NewLength]
        n == prev.NumberOfPages + d.NumberOfPages
    IN
    /\ phase = "merge"
    /\ cursor.next <= bd.NumEntries
    /\ \/ /\ Mergeable(d, prev)
          /\ bd' = [bd EXCEPT !.MemoryMap[cursor.next] = d,
                              !.MemoryMap[cursor.NewLength].NumberOfPages = n]
          /\ cursor' = [cursor EXCEPT !.next = @ + 1]
       \/ /\ ~Mergeable(d, prev)
          /\ bd' = [bd EXCEPT !.MemoryMap[cursor.next] = d,
                              !.MemoryMap[cursor.NewLength + 1] = d]
          /\ cursor' = [next |-> cursor.next + 1,
                         NewLength |-> cursor.NewLength + 1]
    /\ UNCHANGED <<phase, world, firmware, memory, prelim, phdrs, paging,
                   current, passed, relocated>>

\* init_mmap drops the other entries and assigns virtual addresses.
EntriesMerged ==
    LET map == bd.MemoryMap IN
    /\ phase = "merge"
    /\ cursor.next > bd.NumEntries
    /\ bd' = [bd EXCEPT
          !.MemoryMap = [i \in DOMAIN map |->
             IF i <= cursor.NewLength
             THEN [map[i] EXCEPT !.VirtualStart = VirtualStart(map, i)] ELSE map[i]],
          !.NumEntries = cursor.NewLength]
    /\ phase' = "set_virtual"
    /\ UNCHANGED <<world, firmware, memory, prelim, phdrs, cursor, paging,
                   current, passed, relocated>>

\* The call passes the number of entries of the preliminary map (what a longer
\* one reads behind the struct is left out).  When it fails the loader halts.
SetVirtualAddressMap ==
    /\ phase = "set_virtual"
    /\ passed' = SubSeq(bd.MemoryMap, 1, Min({Len(prelim), CAPACITY}))
    /\ \/ /\ bd' = [bd EXCEPT !.RT = bd.paddr_base + machine.RT]
          /\ phase' = "switch"
       \/ phase' = "halt" /\ UNCHANGED bd
    /\ UNCHANGED <<world, firmware, memory, prelim, phdrs, cursor, paging,
                   current, relocated>>
-----------------------------------------------------------------------------
\* *bootloader_data, as the kernel finds it.
Handed ==
    [self |-> bd.paddr_base + data, free_memory |-> bd.paddr_base + free_memory,
     n_pages |-> FREE_PAGES, paddr_base |-> bd.paddr_base,
     mmio_base |-> bd.mmio_base, RT |-> bd.RT,
     MemoryMap |-> SubSeq(bd.MemoryMap, 1, bd.NumEntries), phdrs |-> phdrs]

LoaderCode == {f \in DOMAIN machine.ram : machine.ram[f].Type = "EfiLoaderCode"}

Reads(v, f) == v \in DOMAIN boot /\ boot[v].addr = f
Writes(v, f) == Reads(v, f) /\ boot[v].rw

\* 8. and 9. efi_main2 runs on the new stack, turns the boot page tables on and
\* reads paddr_base through its old pointer, then uses the window and, for the
\* ELF headers, the kernel's first page.
SwitchWorks ==
    /\ \A f \in LoaderCode : Reads(f, f)
    /\ Writes(new_stack, new_stack)
    /\ Reads(data, data)
    /\ Writes(Handed.self, data)
    /\ Reads(KERNEL_BASE, phdrs[1].ppage)

SetCr3 ==
    /\ phase = "switch"
    /\ phase' = IF SwitchWorks THEN "relocate" ELSE "fault"
    /\ UNCHANGED <<world, firmware, memory, prelim, phdrs, bd, cursor, paging,
                   current, passed, relocated>>

\* 10. do_relocations.  The dynamic section is scanned to its end; the last
\* entry of a tag counts.
Tagged(tag) == {i \in DOMAIN image.dynamic : image.dynamic[i].d_tag = tag}
DynVal(tag) == IF Tagged(tag) = {} THEN 0 ELSE image.dynamic[Max(Tagged(tag))].d_val

Unsupported ==
    \/ \A i \in DOMAIN phdrs : phdrs[i].p_type # "PT_DYNAMIC"
    \/ Tagged("DT_REL") # {}
    \/ \E i \in Tagged("DT_RELAENT") : image.dynamic[i].d_val # RELAENT

\* Mutant: the loop ends one relocation early.
Relas_LastMissed ==
    IF Tagged("DT_RELA") = {} THEN {} ELSE 1 .. DynVal("DT_RELASZ") - 1

Relas == IF Tagged("DT_RELA") = {} THEN {} ELSE 1 .. DynVal("DT_RELASZ")

\* The relocations the loop cannot do: of another type (halt), or of a word the
\* boot page tables do not let it write (page fault).
Obstacles ==
    {i \in Relas : \/ ~image.relas[i].relative
                   \/ KERNEL_BASE + image.relas[i].vpage \notin DOMAIN boot
                   \/ ~boot[KERNEL_BASE + image.relas[i].vpage].rw}

\* One step as a whole.  That the dynamic section and the table are mapped where
\* the loop reads them is taken for granted: they lie in a segment of the kernel.
DoRelocations ==
    /\ phase = "relocate"
    /\ \/ Unsupported /\ phase' = "halt" /\ UNCHANGED relocated
       \/ /\ ~Unsupported /\ Obstacles # {}
          /\ relocated' = {i \in Relas : i < Min(Obstacles)}
          /\ phase' = IF image.relas[Min(Obstacles)].relative THEN "fault" ELSE "halt"
       \/ /\ ~Unsupported /\ Obstacles = {}
          /\ relocated' = Relas
          /\ phase' = "jump"
    /\ UNCHANGED <<world, firmware, memory, prelim, phdrs, bd, cursor, paging,
                   current, passed>>

\* 11. jump to kernel
JumpToKernel ==
    /\ phase = "jump"
    /\ phase' = "kernel"
    /\ UNCHANGED <<world, firmware, memory, prelim, phdrs, bd, cursor, paging,
                   current, passed, relocated>>

Gone == phase \in Stopped /\ UNCHANGED vars

Loader ==
    \/ ExitStatus \/ AllocateBootMemory \/ AcquirePreliminaryMap \/ LoadSegment
    \/ KernelLoaded \/ PrepareBootPageTables \/ AcquireFinalMap
    \/ ExitBootServices \/ InitMmap \/ MergeEntry
    \/ EntriesMerged \/ SetVirtualAddressMap \/ SetCr3
    \/ DoRelocations \/ JumpToKernel

Next == Loader \/ FirmwareEvent \/ Gone

\* The processor executes the loader's next instruction, and the firmware's
\* calls return.
Spec == Init /\ [][Next]_vars /\ WF_vars(Loader)
-----------------------------------------------------------------------------
\* The maps and headers are sequences of descriptors, the merging in init_mmap
\* keeps to the CAPACITY of the buffer, and page tables are in RAM.
TypeOK ==
    /\ phase \in BootServices \cup Stopped \cup
                 {"init_mmap", "merge", "set_virtual", "switch", "relocate",
                  "jump"}
    /\ [machine |-> machine, image |-> image] \in Setups
    /\ ram \in [DOMAIN machine.ram -> Region]
    /\ pool \subseteq DOMAIN ram /\ events \in 0 .. MaxEvents
    /\ new_stack \in Nat /\ data \in Nat /\ free_memory \in Nat
    /\ prelim \in Seq(Descriptor) /\ phdrs \in Seq(Phdr)
    /\ bd \in [paddr_base : Nat, mmio_base : Nat, MemoryMap : Seq(Descriptor),
               NumEntries : 0 .. CAPACITY, RT : Nat]
    /\ DOMAIN boot \subseteq VPage
    /\ boot \in [DOMAIN boot -> [addr : Nat, rw : BOOLEAN]]
    /\ tables \subseteq DOMAIN ram
    /\ current \in BOOLEAN
    /\ cursor \in [next : 1 .. CAPACITY + 1, NewLength : 1 .. CAPACITY]
    /\ passed \in Seq(Descriptor)
    /\ relocated \subseteq Nat

\* Steps 8 to 10 run on with the tables changed under them: wherever the
\* firmware put the boot memory and the kernel, and whatever it allocated in
\* between, efi_main2 finds its code, its stack, bootloader_data (at both
\* addresses), the ELF headers and every word it relocates.
NeverFaults == phase # "fault"

KernelSegments ==
    UNION {LET r == KernelRange(phdrs[i]) IN r.ppage .. r.ppage + r.n - 1 :
              i \in DOMAIN phdrs}
InUse ==
    {new_stack} \cup data .. data + 1
    \cup free_memory .. free_memory + FREE_PAGES - 1 \cup KernelSegments \cup tables

\* The entries of the merged map that hold frame f.
EntriesOf(f) ==
    {i \in 1 .. bd.NumEntries :
        IN_RANGE(bd.MemoryMap[i].PhysicalStart, bd.MemoryMap[i].NumberOfPages, f)}

\* The map init_mmap leaves to the kernel accounts for all of RAM: each frame is
\* in one entry, which is free (EfiConventionalMemory) exactly if the firmware
\* had it free or for boot services, and never if the loader put something
\* there that the kernel needs.  No two neighbours are left that could be one.
\* It fits behind the struct.  So it is when init_mmap is done and still so when
\* the kernel gets it.
MapAccountsForRam ==
    phase \in {"set_virtual", "jump"} =>
       /\ Len(bd.MemoryMap) <= CAPACITY
       /\ \A f \in DOMAIN ram \ {0} :
             \E i \in 1 .. bd.NumEntries :
                /\ EntriesOf(f) = {i}
                /\ bd.MemoryMap[i].runtime = ram[f].runtime
                /\ bd.MemoryMap[i].Type = "EfiConventionalMemory" <=>
                      ram[f].Type \in {"EfiConventionalMemory", "EfiPalCode",
                         "EfiBootServicesCode", "EfiBootServicesData",
                         "EfiACPIReclaimMemory", "EfiACPIMemoryNVS"}
       /\ \A f \in InUse : \A i \in EntriesOf(f) :
             bd.MemoryMap[i].Type \in {"EfiLoaderCode", "EfiLoaderData"}
       /\ \A i \in 2 .. bd.NumEntries - 1 :
             ~Mergeable(bd.MemoryMap[i + 1], bd.MemoryMap[i])

Apart(b) ==
    \A c, d \in 1 .. NumCalls(b) :
       c # d => Pages(MapRangeCall(b, b.mmio_base - 1, c))
                \cap Pages(MapRangeCall(b, b.mmio_base - 1, d)) = {}

\* What the kernel relies on when kernel_main is to be called (the assumptions of
\* module KernelMemory): bootloader_data is well formed, the free memory is RAM,
\* the ranges new_address_space maps are pages of the address space and do not
\* meet, RELRO lies outside the window, one of the ranges holds the runtime
\* services table, and between the start of the window and the end of the address
\* space the boot page tables map BootWindow and the kernel's pages and nothing
\* else.
HandoverMeetsKernel ==
    phase = "jump" =>
       LET b == Handed IN
       /\ b \in Handover
       /\ \A v \in FreeMemory(b) : v - b.paddr_base \in DOMAIN ram
       /\ \A c \in 1 .. NumCalls(b) :
             Pages(MapRangeCall(b, b.mmio_base - 1, c)) \subseteq VPage
       /\ Apart(b) /\ RelroApart(b)
       /\ \E i \in DOMAIN b.MemoryMap : b.RT \in Pages(RuntimeRange(b.MemoryMap[i]))
       /\ {v \in DOMAIN boot : v >= b.paddr_base} = BootWindow(b) \cup KernelPages(b)
       /\ \A v \in BootWindow(b) : Writes(v, v - b.paddr_base)

\* The kernel starts fully relocated, if its dynamic section says where the
\* relocations are and how many, in whatever order and among whatever tags.
RelocatedAtEntry == phase = "kernel" => relocated = DOMAIN image.relas
-----------------------------------------------------------------------------
\* What the comment of init_mmap says, "request virtual mapping for runtime
\* segments": SetVirtualAddressMap is given each runtime segment of the map,
\* and each one at the address the kernel will have it at.
RuntimeMappingRequested ==
    phase = "switch" =>
       \A d \in Range(passed) \cup Range(Handed.MemoryMap) :
          d.runtime => d \in Range(passed) /\ d \in Range(Handed.MemoryMap)
=============================================================================
