# Verification of SctOs

SctOs is a small x86-64 operating system: a UEFI boot loader (`efi/`), a kernel
(`src/`), and libraries that both use (`lib/`, `include/`). This directory holds
TLA+ modules that model it, TLC configurations that check them on small
instances, and TLAPS proofs of what matters most for instances of every size.
`PROJECT.json` lists the runs, maps every definition to the lines it models, and
lists the hazards the properties are aimed at. Paths below are relative to the
repository.

    tlc -workers 2 -config MCKernelMemory.cfg MCKernelMemory
    tlapm KernelMemoryProofs.tla

## The system

The machine starts in the firmware, which runs the loader. The loader makes
itself bootable (`efi/efivars.c`), reads the kernel file (`lib/readelf.c`), loads
and maps it, leaves the firmware, and calls `kernel_main`
(`efi/opsys-loader.c`). The kernel sets up the processor (`src/x86.c`), makes a
free list of the pages it was handed, moves to a new stack, builds its own page
tables (`src/virtual-memory.c`), switches to them, raises two interrupts and
shuts the machine down (`src/entry.c`). It does not start threads or other
processors; what interleaves with it is interrupts. The loader interleaves with
the firmware, which allocates memory behind its back, and with power failures.

### Inventory

| Component | State | Operations | Talks to | What is hard | What makes it correct |
| --- | --- | --- | --- | --- | --- |
| page allocator `src/virtual-memory.c:12-35` | `free_list` and the next word inside every free page | `free_physical_page`, `allocate_physical_page` | address space, kernel entry | the list lives in pages that clients have written; recycled pages; flags that imply others; exhaustion | a page has one owner, is cleared when asked for, and none is lost |
| kernel address space `src/virtual-memory.c:37-172` | four levels of page tables | `new_address_space`, `map_range`, `map_page`, `set_vpage_ro` | allocator, handover | ranges share tables; overlap, exhaustion and RELRO stop the machine half way; every pointer goes through the tables being replaced | the tables translate exactly what was asked for; the switch of `cr3` moves nothing in use |
| kernel entry `src/entry.c` | `.bss`, the stack, `cr3` | `kernel_main`, `main2` | all of the kernel | order of clearing `.bss`, freeing, switching | an adequate handover leads to the shutdown |
| processor setup `src/x86.c`, `src/gdt.c` | GDT, IDT, segment registers, `cpu.apic` | `init_cpu`, `init_idt`, `init_apic`, `init_segment_selectors` | interrupts | an `iretq` through a frame made by hand; addresses split over three fields | the processor accepts every gate, selector and frame |
| interrupt entry and dispatch `src/stubs.S`, `src/asm-util.h`, `src/interrupts.c`, `test/gen-vectors.c` | registers, the stack | 256 vectors, `interrupt_handler_stub`, `interrupt_handler` | everything it interrupts | an NMI between any two instructions of it | nobody notices an interrupt; the handler sees the frame that its struct describes |
| boot loader `efi/opsys-loader.c`, `efi/efi-wrapper.c` | memory map, boot page tables, `bootloader_data` | the eleven steps of `doc/boot.md` | firmware, kernel | the firmware changes the map and places allocations as it likes; the map is merged in place; the tables are switched under the running loader | what the kernel is handed is what it relies on |
| EFI boot variables `efi/efivars.c` | `Boot0004`, `BootOrder` (non-volatile) | `enumerate_efi_vars`, `set_boot_variables` | firmware's boot manager | two variables written one after the other, power failures, reboots | an interrupted installation is finished later |
| ELF reader `lib/readelf.c` | `struct elf_file`, its buffers | `readelf`, `free_elf_file`, the `read_*` functions | `elf_alloc`, `elf_read` of its host | nested error paths after any of some twenty calls | every buffer is freed once; success means everything was read |
| string and printf library `lib/string.c`, `lib/generic_printf.c` | bytes of memory; the scan of a format | `memmove`, `memset`, `strncpy`, `strncmp`, `generic_printf` ... | everything | unsigned underflow, overlap, state carried from one character to the next | agreement with the C standard's definitions |
| test programs `test/` | the entries of a memory map | `mmap_get`, `mmap_sort` | ELF reader | two sets of loops that must agree, equal addresses | the map is complete and stably sorted |
| build and debugging scripts | - | - | - | - | - |

The test programs are modelled in part and the last component is not (see the
end). The `hazards` of `PROJECT.json`
say at which line each difficulty bites and which property is aimed at it.

## Modules

| Module | Models | Notes |
| --- | --- | --- |
| `Paging` | words, page-table entries, indexes, the processor's page walk | from `include/opsys/virtual-memory.h`; no state |
| `FreeList` | the list operations | used by `PageAllocator` and `KernelMemory` |
| `PagePool` | abstract: pages are free or held | what the allocator promises |
| `PageAllocator` | the allocator under any clients | implements `PagePool` |
| `Handover` | `struct bootloader_data`, the ranges `new_address_space` maps | the contract between loader and kernel, used by both |
| `AddressSpace` | abstract: pages are mapped, made read-only, then the space is active | what `new_address_space` promises |
| `KernelMemory` | `kernel_main`, `main2`, `new_address_space`, `init_apic`; composes `FreeList`, `Paging` and `Handover` | implements `AddressSpace` |
| `BootLoader` | `efi_main`, `efi_main2` and everything they call, against a firmware; composes `Paging` and `Handover` | ends where `KernelMemory` starts |
| `Boot` | the composition: `BootLoader` until the jump, then `KernelMemory` from the handover it made | `KernelMemory` is an `INSTANCE` with its variables renamed |
| `BootVariables` | `enumerate_efi_vars`, `set_boot_variables`, reboots | |
| `LoadOption` | `AppendPath`, `get_devp_size`, `make_load_option`, and taking the entry apart again | bytes of `Boot0004`, which `BootVariables` has as one value |
| `ReadElf` | `readelf` and `free_elf_file` with a failing host | |
| `Interrupts` | `init_cpu`, `setup_new_stack`, `main2`, the vectors, the stub and the handler, one instruction a step | |
| `Strings` | `lib/string.c` and `StartsWith` of `efi/efivars.c`, one iteration a step | |
| `PutNumber`, `Printf` | the number conversions of `generic_printf`, digit by digit, and its scan of the format | |
| `MemoryMap` | `mmap_get` and `mmap_sort` of `test/print-elf.c` | |
| `PageAllocatorProofs`, `KernelMemoryProofs`, `BootLoaderProofs`, `BootVariablesProofs`, `ReadElfProofs`, `InterruptsProofs`, `LibraryProofs` | theorems about `PageAllocator`, `KernelMemory`, `BootLoader` and `Boot`, `BootVariables`, `ReadElf`, `Interrupts`, `Strings` and `Printf` (as composed in `MCLibrary`) | |
| `LeastNatural` | the least-number principle, and what follows from it | lemmas the proofs share |

Each `MC*` module gives the constants of one of them their values. `MCLibrary` is
one run of the five modules of sequential functions, `Strings`, `PutNumber`,
`Printf`, `LoadOption` and `MemoryMap`: a behaviour is a call of one of them, the
variables of the others are idle, and a name two of them use is the variable of the
one that runs. Definitions
whose name ends in an underscored word (`Gate_IndexAsSelector`) are plausible
mistakes in the definition after them. They are used by no specification; put in
the place of the real definition they must break the property `PROJECT.json`
names, which shows that the property depends on the code.

### Page allocator

`mem` is the contents of the physical pages, a page being a function from indexes
to words; a word is a record of an address and the two bits of a page-table entry
that the code sets, so that a link of the free list, a page-table entry and a
client's data are the same kind of thing, as in memory. `free_list` is a virtual
page number. A client writes anything it likes (`Scribble`) into a page it holds.
`Free` and `Allocate` are the two functions, `Allocate` with every combination of
`APP_ZERO`, `APP_FLAT` and `APP_PTE`; `AllocateHalts` is the empty list.

### Kernel memory

One step per table level: `EnterTable` follows an entry, `MakeTable` allocates a
missing table, `MapPage` writes the leaf, `SetVpageRo` clears the bit,
`MapRangeReturns` goes to the next of the ranges of `MapRangeCall`, which is the
sequence of `map_range` calls of `new_address_space`. `Halt` is every `halt()` of
`virtual-memory.c`, with its reason in `phase`. Any step may need a page that the
tables in force do not map; that is `PageFault`, and since `interrupt_handler`
returns to the instruction it repeats for ever. `role` is a history variable: what
each frame is used for, and for a table the path that leads to it. The numbers of
entries per table and bytes per page are constants.

### Boot loader

The actions are the steps of `efi_main` and `efi_main2` in their order; each may
also end in `exit_status` or `halt()` where the code does. Loops whose iterations
other parts can observe or that the map depends on (`LoadSegment`, `MergeEntry`)
are one step an iteration, others (`PrepareBootPageTables`, `DoRelocations`) one
step as a whole; that the dynamic section and the table of relocations are mapped
where the latter reads them is taken for granted. Of the `Attribute` of an entry of the map only the runtime
bit is modelled, so `Mergeable` merges entries that the code keeps apart for another
attribute. The firmware is external: it puts an allocation at the lowest or
the highest place that fits, describes memory by type in `GetMemoryMap`, and at any
time before `ExitBootServices` may allocate or free a page of its own, which makes
the key of the map stale. `world` is the machine and the kernel file.

### Boot

`Boot` joins the two programs at the jump (`EnterKernel`): `bootloader_data` becomes
what the loader has built, `Handed`, and the boot page tables, the stack of
`efi_main2` and the firmware's runtime memory stay where they are while the kernel
runs. Its properties are about what neither program sees alone: `WritesItsOwn`
compares the frames the kernel has written with those that are in use by others,
`OneAddressPerFrame` the final translation with the loader's and the firmware's
frames, and `ComesToAnEnd` says that no handover with enough in it leads the
kernel into a fault or into `halt()`. It does not say that the machine boots: on a
stale key the loader gives up (`exit_status`), and that is one of the ends.

### Boot variables

`Boot0004` is absent, of something else, or ours; `BootOrder` a sequence of entry
numbers. `Crash` loses everything but these two, at any time, and stands for a
power failure as well as for the failing call that makes the loader exit. The
firmware starts the first entry of the order it can, or what the user chooses
(`BootMenu`). A loader that got to the boot sequence ends with the machine off
(`Continue`), and the machine may be started again. What is printed of a variable,
and with it `VariableIsBootOption`, is left out; its value is reduced to whether it fits
in the page that `GetVariable` is given (`fits`): with one that does not, the
enumeration exits at every start, and `GetsToBoot` leaves such machines out.

### Load option

A device path is a sequence of bytes in which each node holds its length; the
buffer of `AppendPath` and the load option are filled byte by byte and must be
exactly as long as was allocated (`FillsBuffer`). `PrintOption` is
`print_next_efi_variable` taking the entry apart by the lengths in it
(`RoundTrip`). Sizes of paths wrap at `U16`, as those of `get_devp_size` and
`*NewSize` do. Two paths that together with the end do not fit a `UINT16` (`~Fits`) are
among the calls, but nothing is promised of them: `AppendPath` does not check, and
copies past the buffer it allocated (`"overflow"`) or, when a single path wraps,
cuts it in the middle of a node (`"lost"`).

### ELF reader

`heap[k]` counts how often buffer `k` was freed, `elf_file`, `symbols` and `rels`
hold the numbers of buffers. Every `elf_alloc` and `elf_read` may fail. A file is
the list of its program headers and sections, with the sizes that counts of
elements are computed from.

### Interrupts

The assembly is data: `pushaq`, `popaq`, `interrupt_handler_stub`,
`init_segment_selectors` and `Vector(n)` are sequences of instructions, `Move`,
`Call`, `Iretq` and so on execute them. `Deliver` and `Iretq` are what the processor
does, including the alignment of the stack and the blocking of NMIs. Gates are
made and read part by 16-bit part. `saved` is history: the contexts interrupted.
An interrupt before `set_idt` finds the firmware's table, which the tables of the
loader do not map, and resets the machine (`Early`): `NeverFaults` says that this
is the only fault. `Exception` is a fault of the kernel's C code, the instruction `work`:
`interrupt_handler` goes back to the instruction, so it is executed and faults again, for
ever (`faulting`). `ShutsDown` says that with a fault the machine does not shut down but
keeps coming back to the instruction, and that without one it does. `work` stands for
`init_apic` and the code behind it. `GdbJump` is the stray jump the check of the magic number is there for.
`setup_new_stack` moves to the page allocated for `main2`, and the depth of every
stack in use is bounded by `NestingBounded`.
A C function overwrites the registers the ABI lets it, and words below its
stack pointer.

### Strings and printf

Memory is a row of bytes, pointers are positions in it, and `size_t` wraps at
`SIZE_T`. A call of each function is made with every placement of its operands,
overlapping ones too for `memmove`, and its iterations are steps; what was in memory
before the call is kept in `call` to compare with. `PutNumber` computes with
`Bits` bits in a buffer that has the same relation to them as 20 characters have
to 64 bits; division is C's, with the sign of the dividend. `Printf` reads a format
of characters of each class, with arguments of every type, and compares what is
written and the argument types with the standard's reading of the format.

### Test programs

In `MemoryMap` an ELF file is the list of its headers, symbols and relocations with
their addresses; `Count` and `Written` are the two sets of loops of `mmap_get`,
and the sort is one step per comparison.

## Runs

| Run | Shows |
| --- | --- |
| `page_allocator` | three pages in every order of operations: the list stays whole (`ListIntact`), what is handed out was free and is cleared when asked (`HandsOutFreshPages`), and the allocator implements `PagePool` |
| `kernel_memory` | 144 handovers: the free list survives the writing of tables, the tables form a tree at every step, a walk never leaves its path, the tables translate exactly what was mapped so far (`TranslationExact`), every `halt()` has the cause it claims (`RemapMeansOverlap`, `HaltsTruthfully`), the switch of `cr3` moves nothing in use (`SeamlessSwitch`), `AddressSpace` is implemented, and an adequate handover leads to the shutdown |
| `boot` | loader and kernel one after the other on five machines with nine kernel files, wherever the firmware puts each allocation and with one change of the memory map at any time: no fault after the switch of tables (`NeverFaults`), the merged map accounts for all memory and fits (`MapAccountsForRam`), the handover is one `KernelMemory` assumes (`HandoverMeetsKernel`), the kernel is relocated (`RelocatedAtEntry`), it writes only frames that are its own (`WritesItsOwn`), no frame of RAM has two addresses after the switch (`OneAddressPerFrame`), and the boot ends in the firmware, in the loader's `halt()` or with the shutdown, unless the kernel was handed too little (`ComesToAnEnd`) |
| `boot_variables` | three crashes or menu choices anywhere, all initial variables, both builds: the installation heals, the order never names a foreign entry, the loader gets to boot again and again, and in the end the machine starts it by itself |
| `readelf` | forty kinds of files and every combination of failures: one owner per buffer, no leak, success means complete, it returns |
| `interrupts` | two interrupts anywhere besides main2's two, also before `set_idt` and during the switch of stacks: transparent to what they interrupt, the frame is the struct, nesting stays at two and inside the stack, segments and gates are accepted, the machine shuts down unless an interrupt came before the IDT, a stray jump halted it, or an instruction faults, which it then does again and again |
| `library` | `StringsAsC`: every string function on every placement of its operands in five bytes writes nothing but the destination, copies exactly with overlap and wrapping counts, and compares unsigned characters; `StartsWith` tests for a prefix, but for the calls named below. `PrintfAsC`: every format of up to five characters is printed as the standard says, each piece of text once, and every number of ten bits by digits inside the buffer that denote it. `OptionRoundTrip`: a boot entry of any two paths of up to three nodes whose joined size fits a `UINT16` fills its buffers exactly and is read back as it was written. `MemoryMapSorted`: the memory map of any file with up to two of everything is filled exactly and sorted stably. `Returns`: every one of these calls ends, but for those of `Runaway` |

### Runs that find a disagreement

| Run | Line | What the code does, against what its comments and documents say |
| --- | --- | --- |
| `bootloader_data_mapped` | `src/virtual-memory.c:49` | one page of `bootloader_data` is mapped, by the loader and by the kernel; a memory map that reaches into the second page is read through a page no table maps |
| `readelf_freed_once` | `lib/readelf.c:226` | a file with `PT_DYNAMIC` and no `SHT_DYNSYM` makes `read_dynamic` free a table that `free_elf_file` frees again |
| `readelf_rel_tables` | `lib/readelf.c:307` | `convert_rel_to_rela` divides by the size of a section header instead of that of a relocation |
| `boot_loader_runtime_map` | `efi/opsys-loader.c:145` | `SetVirtualAddressMap` gets the length of the preliminary map for the merged one |
| `strncpy_stops` | `lib/string.c:90` | with a source of `n` characters or more the count wraps, and zeros are written far past `n` |

`OwnedOnce` leaves the case of `readelf_freed_once` out by name, `AdequateShutsDown`
and `ComesToAnEnd` that of `bootloader_data_mapped`, `StringsAsC` that of
`strncpy_stops`; the rest of what they say holds.

Seen while modelling and without a run of its own. Those that a property would meet
are left out of it by name:

* `efi/efivars.c:175`: `StartsWith` is announced as "test if String starts with Prefix"
  (`efi/efivars.c:167`), but says that no string starts with itself, and that the
  empty string starts with any prefix (`Deviates` of `Strings`, left out of
  `StringsAsC`). Its only caller gives it eight characters and `L"Boot"`.
* `efi/efi-wrapper.c:43`: the size of two joined paths is a `UINT16` that nothing
  checks; longer ones overflow the buffer (`Fits` of `LoadOption`; `~Fits` is left out of
  `OptionRoundTrip` and `Returns`). Paths of disks and files are far shorter.
* `test/print-elf.c:405`: a counter of 16 bits runs up to a number of 64; the array of
  a file with 65536 entries or more is cleared for ever (`NeverClears` of `MemoryMap`,
  left out of `Returns`).
* `lib/generic_printf.c:98`: `%lx` takes an `unsigned` and prints eight digits
  (`VaArg`, left out of `PrintsAsStandard`).

The others no property looks at:

* `efi/opsys-loader.c:348`: `p_paddr` of a segment on a later page of its `PT_LOAD`
  segment is that of the first page (`SetPaddr`); only printing reads it.
* `efi/efivars.c:164`: the seventh character of a name is tested twice, the eighth
  never (`VariableIsBootOption`), which decides only how the variable is printed.
* `test/print-elf.c:375`: the chains of the hash table are read as arrays that start at
  the bucket's number, so symbols that share a bucket are missed or printed twice.

## Bounds, and why they are enough

* `MCPageAllocator`: three pages of two words. A free list of three has a first, a
  middle and a last page; the proof covers the rest.
* `MCKernelMemory`: tables of four entries (256 pages), pages of four bytes, 28
  frames. The windows at 184 and 212 put the free pages under two level-3 tables
  and under one, the images share tables with each other and with the window, 18
  pages are more than any layout needs, 17, 12, 6, 1 and 0 run out in turn: while
  mapping, at the root, at the stack. Images with an overlap and with RELRO past,
  beside and far from its segment take every other `halt()`.
* `MCBootLoader`: the same address space, RAM of 34 frames of which the loader needs
  26, so that low and high allocations meet; `CAPACITY` 14 is less than some maps
  have entries, so the buffer's limit is met; one change of the map by the firmware
  (`MaxEvents`) at any point, since every check of the key sees only whether there
  was one. Places between the lowest and the highest are left out: what is allocated
  matters through its neighbours in the map, and the areas of the four machines
  provide each kind. Each map ends with an I/O area, as the maps of the firmware
  the repository runs on do.
* `MCBoot`: these machines, whose two free pages make the kernel halt, and one with
  67 frames of RAM with a hole, 22 free pages (the most the kernel needs for this
  layout with tables of four entries is 21), two I/O areas and an image with RELRO.
  `DESCRIPTORS` 13 is below the length of some of the merged maps and above that of
  others, so all three ends of the kernel happen: shutdown, no memory, page fault.
  Garbage in `.bss` is one nonzero word.
* `MCBootVariables`: three detours; one can spoil the entry, one the order, one the
  start that would repair them.
* `MCLibrary`, strings: five bytes hold two operands of two bytes apart, or larger ones
  that overlap; the bytes 0, 1 and 200 are the end of a string, a character, and one
  that is negative if signed; `memset` is called with an int that is none of them;
  counts wrap at 16. Numbers of ten bits have four decimal digits, or three and the
  sign, which fill the buffer. With five characters a format has two conversions one
  of which has a modifier (`%ld%d`), or one with two and text beside it. Nodes of a
  path have the least length, one more and a long one: with `U16` of 38 the joined size
  reaches the limit exactly, passes it, and the size of a single path passes it too.
  The memory map has two addresses, so that equals of all kinds meet, and at most
  seven entries; `HALF` is 7, so one less is the most that can be cleared, and the
  largest files are those that are cleared for ever.
* `MCReadElf`: up to three sections, of which at most two of a kind, so that the
  element and the section of a table differ.
* `MCInterrupts`: 64 words of stack hold the two frames that can be in use; two
  interrupts besides `main2`'s own and the faults give an NMI inside any
  other, and two in a row. A fault with an error code in `kernel_main`, one without in
  `main2`, and a device's number are the three kinds of vectors. Faults are not
  bounded: an instruction that faults does so for ever.

## Fairness

The code runs on one processor that executes instructions: the fairness is weak
fairness of the program's own next step, `WF(Next)` in `KernelMemory` and `ReadElf`
(where all steps are the program's), of `Loader` in `BootLoader` without the
firmware's events, of `Execute \/ Exception` in `Interrupts`, the next instruction
whether it faults or not, without the interrupts from outside, and in
`BootVariables` of the loader and of a machine being started when it is off, and
not always from the menu. In `Boot` it is the next step of the loader up to the jump
and that of the kernel from there on, in `MCLibrary` that of the function called.
What disturbs is bounded (`MaxEvents`, `MaxDetours`, `MaxInterrupts`): without a bound an
endless storm of NMIs would be a counterexample that says nothing of the code.
`PageAllocator` has no liveness: a client need not call.

## Proofs

`PageAllocatorProofs`, for any set of frames and any clients' words:

* `AllocatorInvariant`: `TypeOK /\ ListIntact`, which is inductive: `ListIntact`
  ties `free_list`, the next words and a history sequence of the free pages
  together, and a page that is written is not on it.
* `FreshPages` and `AllocatorImplementsPool` (with the step mapping `Free` to
  `Free`, `Allocate` to `Allocate` or a stutter) follow from it.

`KernelMemoryProofs`, for any table size, any handovers and any garbage in `.bss`:

* `KernelTypes`, `KernelFreeList`, `KernelTablesFormTree`, `KernelWalkOnPath`. None
  of the four is inductive alone: that a table taken from the free list is new to the
  tree needs the list, that writing a table does not cut the list needs the roles,
  that the entry read leads to the table of the path needs tree and walk. The
  invariant is `IInv`, their conjunction with `Progress`, which ties the loop
  variables to the phase. There is a lemma per action; the largest, for
  `MakeTable`, shows that the tree grows by one leaf and nothing else. The ends of
  paths and the injectivity of `Child` are lemmas about the operators.
* `KernelRemapMeansOverlap`: the remap check fires only if two ranges of the handover
  share a page. `RInv` adds that every present leaf stems from a page already mapped
  (`LeavesAskedFor`). It rests on `IndexesIdentify`: two pages of the address space
  with the same four indexes are the same page, an argument about division.

Its second half is about what the processor makes of these tables:

* `KernelTranslationExact`: the walk of the processor finds every page that was
  mapped, with its frame and permission, and no other. The invariant `TInv` stands on
  `IInv` and `RInv`: `CompletedMapped` says that each page of a finished `map_range`
  iteration has its leaf, with the permission that RELRO leaves it; `LeavesAskedFor`
  is the converse; `Stage`, `RootKept` and `RelroSeen` tie both to the order of
  `new_address_space`. `CompletedMapped` needs the tree, or the table made for
  one page could take away the path of another, and `IndexesIdentify`, or the leaf
  written for one page could be another's. That the model's walk by indexes and the
  processor's by division of the address agree is `ProcessorEntry`.
* `KernelSeamlessSwitch`: from the same invariant at the end of the loops, where
  `RelroBound` says that all of RELRO has been gone through.
* `KernelImplementsAddressSpace`: the refinement, step by step. `MapPage` is `Map` of
  the abstract specification (the page was not mapped: otherwise the remap check
  halts), `SetVpageRo` its `Protect`, the switch its `Activate`; a table that is made
  changes no translation, nor does anything else.
* `FinalTranslation`, a lemma for the composition with the loader: after the switch
  the tables hold the pages of the `map_range` calls, each at its place, and nothing
  else; and `WritesFree`, an invariant: a frame that is in use or not zero is one of
  the free memory that was handed over.
* `KernelHaltsTruthfully`: the case that takes work is `"out of memory"`. `FramesUsed`
  says that every frame taken is a stack or a table that the layout needs;
  tables have different paths, so there are no more of them than `TablesNeeded`.

`BootLoaderProofs`, for any machine and kernel file that `BootLoaderAssumption` describes,
any number of changes of the memory map by the firmware, and any places it gives to
allocations. The theorems are about `Spec`, the loader alone, and about `BootSpec`, of
which it is the first part (`BootRefines`). The invariant is `BootLoaderInv`:

* `OwnersInv` says who owns each frame at every phase: the stack, the struct, the free
  pages, each segment and each boot page table are of the loader's types and apart
  from each other; whatever the firmware allocates or frees afterwards is something
  else; and the preliminary map is that of some RAM the machine had before
  (`Preliminary`), which is what makes a stale map harmless.
* `PagedInv` says what the boot page tables are: the translation of the ranges that
  `prepare_boot_page_tables` mapped, with the bases computed from the preliminary map. `LoaderNeverFaults` follows: code, stack, struct and headers are in
  ranges of that map, in the identity mapping before the switch and in the window or
  at the kernel's addresses after it. `LoaderRelocates` is about the loop over the
  dynamic section, in which `DT_RELA` may come before or after its size (`FaultInv`).
* `MapInv` says at each iteration of `init_mmap`'s loop that the entries merged so far
  and those still to come together account for RAM (`Merged`): they do not meet, hold
  every frame, say of each what is the case, no two merged neighbours could be merged
  further, and the pages of I/O are still as many as there were. From it
  `LoaderMapAccountsForRam`, with `GetMemoryMap` as the list of stretches (`MapOfIs`).
* `LoaderMeetsKernel`: the ranges of the handover are sorted into four areas, one above
  the other (`CallsByArea`): the page of the APIC below the I/O, the I/O, the window,
  the kernel. Within the window two calls never have the same frame, because the
  owners do not; within the I/O the entries are stacked without a gap by
  the last loop of `init_mmap` (`Assigned`); the sum of their pages is the room left for
  them, which is why merging must keep it.

The last part of that module joins the loader and the kernel. `BootInv` is `BootLoaderInv`,
`HandoverMeetsKernel` and: the kernel is off and has touched nothing, or it runs on
what was handed over and the invariants of the kernel's proofs hold. These are
taken from `KernelMemoryProofs` by instantiation (`KP`), with `BootloaderData` the
set `Good` of all handovers that meet its assumptions; that the loader's is one of
them is what `HandoverMeetsKernel` says (`HandedIsGood`). So nothing is
assumed of the handover in:

* `KernelWritesItsOwn`: `WritesFree` with the owners of the loader's frames.
* `KernelOneAddressPerFrame`: `FinalTranslation` with the four areas; a frame of RAM
  is behind a page of the window or of a segment (`PagesInRam`), the page follows from the
  frame (`OnePage`), and every frame has one (`FramesHavePages`: runtime
  memory because the merged map is complete).

`BootVariablesProofs`, for any other variables on the machine, either build and any
bound on the detours: `BootCrashHealed`, `BootDebugDirect` and `BootEntryBeforeOrder`
from `IInv`, which says what one run of the loader leaves behind for the next
(`Installed`) and why it decided to go on (`Decided`). The properties themselves
speak of the moment of that decision only, while what makes it right was written
before a reboot.

`ReadElfProofs`, for any set of files and any failures of the host: `ReadElfOwnedOnce`,
`ReadElfNoLeak` and `ReadElfDoneIsComplete`. The invariant keeps an account for every
buffer, `Accounts`: the times it was freed and the pointers to it make one. An
error path frees what `free_elf_file` finds, so the account must hold in the middle
of a table that is half filled, where `SymbolsRead` and `RelsRead` say how far it is
(`UpTo`: the elements filled are those of the sections passed, in order), and a field
that is about to be assigned must be NULL, or its buffer would be lost (`Pending`).
The stripped file of `readelf_freed_once` is carried along by name (`Dangling`). The
lemmas before it are about a store to one field, element or pointer, and about the
cardinality of the sections passed.

`InterruptsProofs`, for any stack that holds the kernel's words and two interrupts, any
devices and exceptions, however many interrupts come and however often C code faults:

* `InterruptsInvariant`: the stack is a row of activities, each described relative to the
  context it interrupted. `Setup` and `Running` describe `kernel_main` and `main2`
  at each of their instructions; `Handles(c, ...)` describes an interrupt of context `c`
  at each instruction of vector, stub and handler: where the stack pointer is, which
  registers still have or have again the values of `c`, and what the words are between
  the frame and the stack pointer. `Level0` to `Level2` put these on top of each
  other; the second interrupt is an NMI that interrupted code with IF clear. None of
  the properties is inductive alone: that `iretq` finds a frame needs every word since
  the delivery, and that a register is popped right needs the slot it was pushed to.
  There is a lemma for each kind of instruction and for each delivery, and two
  (`RunningCopy`, `HandlesCopy`) that say that nobody looks below the stack pointer.
* `FrameTheorem`, `NestingTheorem`, `SegmentsTheorem`, `FaultsTheorem` follow from the
  invariant, `TransparentTheorem` from it and `Outcome`: a step leaves the
  saved contexts alone, adds one, or gives the last one back.

`LibraryProofs`, for a memory of any size, with any bytes in it, any count it has
room for, and formats of any length:

* `LibraryStrings`: `StringsAsC`, by the invariant of each loop (`LoopInv`). A comparison
  has passed equal bytes and no end (`Equal`, `Running`); a copy has `Taken` the bytes of
  `src` at the offsets it has passed and changed `Only` these. `memmove` passes them from
  the top or the bottom, whichever leaves the bytes of `src` still to be copied as they
  were (`Moved`). In `strcmp`, which takes `strlen(p)` for both lengths, and in `StartsWith`
  the loop stops at the shorter string (`ShortOfEnds`). A call of `strncpy` whose source
  has `n` characters or more has no loop invariant: `StringsAsC` leaves that case
  to the run `strncpy_stops`, which shows it goes wrong; of `StartsWith` the proof
  establishes what it returns on every call, of which `Deviates` leaves out two kinds. It stands on the arguments of
  each function being what C allows (`CallFacts`), and on a count being decremented
  without a wrap while it is not zero (`Decremented`).
* `LibraryTextOnce`: `TextOnce` of `Printf`, for formats of any length. Outside a directive
  the text written so far stems from below `first`, inside one only from below `last`
  (`ScanInv`), which is why a format that ends in a directive is excepted. It is one
  conjunct of `PrintfAsC`; that what is written is what the standard says stays with TLC.

The assumptions are the named `ASSUME`s: `PagingAssumption` (table and page sizes are
positive), `KernelAssumption` (the struct and the free pages are in the window, and
the free pages are RAM), `LayoutAssumption` (the ranges and RELRO lie in the address
space, and RELRO is apart from the window: the kernel is linked above it; the three
are proved of what the loader hands over),
`BootLoaderAssumption` (the machine lists I/O areas in order, behind RAM and at the
end of its map, as the firmware the repository runs on does; the table of the runtime
services is in runtime memory; there is room below the kernel for all of RAM and the I/O;
and the kernel is linked as the options of the `Makefile` say: headers in the first
segment at 0, relocations in writable segments, a table whose size the
dynamic section gives), `BootAssumption` (the frames of RAM are among the frames, and the
registers of the APIC are no RAM),
`InterruptsAssumption` (the stack holds the kernel's words, two interrupts and what
their C code needs: 60 words of the 512 that a page has; interrupts of devices are from
32 on; exceptions 21, 29 and 30, whose error codes `EXC_HAS_ERROR_CODE` does not
know, do not come: they belong to features that the kernel does not turn on), and those
of `PageAllocator`, `ReadElf`, `BootVariables` and `MCLibrary` on their constants (for the
string functions: bytes among which is 0, and a `size_t` that holds twice the size of the memory). TLC evaluates
them in every run.

The library's induction theorems take an operator as a parameter, which the installed
provers cannot instantiate. `LeastElement` of `LeastNatural` says the same of a
set, which they can: a set of naturals that is not empty has a least element.

Only model-checked: liveness and `ENABLED`, which this prover does not reach;
`PrintfAsC` (but for `TextOnce`), `OptionRoundTrip` and `MemoryMapSorted`, which say of
numbers, formats, paths and files what a recursion over them gives.

## What is not modelled

* Printing: `print_cr0`, `print_cr4`, `print_efer`, `print_memory_map` and
  `print_program_headers` of the loader, the `print_*` functions of
  `test/print-elf.c` (that of the hash table too) and `mmap_print` write fields in columns and change no state.
  The command line of `test/readelf.c`, and `test/small-exec.S`, which exits.
* The constants, structs and name tables of `elf.h` and `x86.h` beyond those the
  models use, and the accessors of registers nothing calls.
* The build: `Makefile`, linker scripts, scripts for the debugger and the emulator.
* `TypeOK` of `PageAllocator`, `BootLoader`, `BootVariables`, `ReadElf` and `Interrupts`
  states the types of their variables; it is no property of a run (those of
  `PageAllocator`, `BootVariables` and `ReadElf` are proved).
* Caching of translations: `set_cr3` flushes, and nothing changes a present entry of
  the tables in force.
* What the firmware's handlers would do with an interrupt before `set_idt`; software
  interrupts with numbers that have an error code, which the kernel never raises; the
  depth of the stack of compiled C code, of which `Scratch` words are modelled.
* `ram_size` of `bootloader_data`, which nothing reads.

## Plan

Every component with state of its own is modelled: `PageAllocator`, `KernelMemory`,
`Handover`, `BootLoader`, `BootVariables`, `ReadElf`, `Interrupts`, in the order of
what the kernel depends on, then `Strings`, `PutNumber`, `Printf`, `LoadOption`, the
composition `Boot` and `MemoryMap`. Every invariant and every action property the runs
check is proved, but for `PrintfAsC`, `OptionRoundTrip` and `MemoryMapSorted` of `MCLibrary`,
which need sums or recursion over data and stay with TLC.
