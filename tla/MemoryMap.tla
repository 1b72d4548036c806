----------------------------- MODULE MemoryMap -----------------------------
(***************************************************************************)
(* The memory map test/readelf.c prints of an ELF file: mmap_get counts    *)
(* the program headers, allocated sections, symbols and relocations,       *)
(* clears an array of that length and fills it, and mmap_sort sorts it     *)
(* (test/print-elf.c).                                                     *)
(***************************************************************************)
EXTENDS Naturals, SequencesExt

CONSTANTS
    Files,      \* the ELF files considered
    HALF        \* the values of an Elf64_Half, 2^16 in the code

\* Headers, symbols and relocations are their addresses.  sh_link of a table of
\* relocations names the section of a symbol table, or none.
File == [phdrs : Seq(Nat), sections : Seq([alloc : BOOLEAN, addr : Nat]),
         symbol_tables : Seq([section : Nat, symbols : Seq(Nat)]),
         rel_tables : Seq([link : Nat, relocations : Seq(Nat)])]

VARIABLES
    file,       \* nothing changes it
    phase, n_entries, entries,
    entry_i,    \* entries filled so far
    i, j,       \* the counters of the loops
    filled      \* history: the array mmap_get returned

vars == <<file, phase, n_entries, entries, entry_i, i, j, filled>>
-----------------------------------------------------------------------------
Entry(type, addr, of, sym_table) ==
    [type |-> type, addr |-> addr, of |-> of, sym_table |-> sym_table]
NoEntry == Entry("MET_NONE", 0, <<0, 0>>, 0)

\* *n_entries: the first program header is left out.
Count(f) ==
    (IF Len(f.phdrs) = 0 THEN 0 ELSE Len(f.phdrs) - 1)
    + Len(SelectSeq(f.sections, LAMBDA s : s.alloc))
    + FoldSeq(LAMBDA t, n : Len(t.symbols) + n, 0, f.symbol_tables)
    + FoldSeq(LAMBDA t, n : Len(t.relocations) + n, 0, f.rel_tables)

\* get_symbol_table: the first symbol table of a section, 0 for NULL.
GetSymbolTable(f, ndx) ==
    SelectInSeq(f.symbol_tables, LAMBDA t : t.section = ndx)

\* What the loops of mmap_get write, in order.
Written(f) ==
    SubSeq([p \in DOMAIN f.phdrs |-> Entry("MET_PHDR", f.phdrs[p], <<p, 0>>, 0)],
           2, Len(f.phdrs))
    \o FlattenSeq([s \in DOMAIN f.sections |->
          IF f.sections[s].alloc
          THEN <<Entry("MET_SHDR", f.sections[s].addr, <<s, 0>>, 0)>> ELSE << >>])
    \o FlattenSeq([t \in DOMAIN f.symbol_tables |->
          [s \in DOMAIN f.symbol_tables[t].symbols |->
             Entry("MET_SYM", f.symbol_tables[t].symbols[s], <<t, s>>, 0)]])
    \o FlattenSeq([t \in DOMAIN f.rel_tables |->
          [r \in DOMAIN f.rel_tables[t].relocations |->
             Entry("MET_REL", f.rel_tables[t].relocations[r], <<t, r>>,
                   GetSymbolTable(f, f.rel_tables[t].link))]])
-----------------------------------------------------------------------------
Init ==
    /\ file \in Files
    /\ phase = "count"
    /\ n_entries = 0 /\ entries = << >> /\ filled = << >>
    /\ entry_i = 0 /\ i = 0 /\ j = 0

\* The entries are counted and allocated; what elf_alloc returns is not cleared.
Allocate ==
    /\ phase = "count"
    /\ n_entries' = Count(file)
    /\ \/ /\ entries' = [n \in 1 .. Count(file) |-> [NoEntry EXCEPT !.type = "garbage"]]
          /\ phase' = "clear"
       \/ phase' = "done" /\ UNCHANGED entries
    /\ UNCHANGED <<file, filled, entry_i, i, j>>

\* The loop that clears the array has an Elf64_Half for its counter, which never gets
\* to HALF: such an array is cleared for ever.
NeverClears == Count(file) >= HALF

Clear ==
    /\ phase = "clear"
    /\ \/ /\ i < n_entries
          /\ entries' = [entries EXCEPT ![i + 1] = NoEntry]
          /\ i' = (i + 1) % HALF
          /\ UNCHANGED phase
       \/ /\ i >= n_entries
          /\ phase' = "fill"
          /\ UNCHANGED <<entries, i>>
    /\ UNCHANGED <<file, n_entries, filled, entry_i, j>>

\* One iteration of one of the loops that fill it; a write past the end is lost.
FillEntry ==
    /\ phase = "fill"
    /\ entry_i < Len(Written(file))
    /\ entries' = [n \in DOMAIN entries |->
                      IF n = entry_i + 1 THEN Written(file)[n] ELSE entries[n]]
    /\ entry_i' = entry_i + 1
    /\ UNCHANGED <<file, phase, n_entries, filled, i, j>>

MmapGetReturns ==
    /\ phase = "fill"
    /\ entry_i >= Len(Written(file))
    /\ filled' = entries
    /\ i' = 1 /\ j' = 1
    /\ phase' = "sort"
    /\ UNCHANGED <<file, n_entries, entries, entry_i>>
-----------------------------------------------------------------------------
\* Mutant: entries at the same address are swapped.
Before_OrSame(back, here) == back.addr >= here.addr

Before(back, here) == back.addr > here.addr

\* One iteration of the inner loop of mmap_sort, with entries from 0 on.
MmapSort ==
    /\ phase = "sort"
    /\ i < n_entries
    /\ IF j > 0 /\ Before(entries[j], entries[j + 1])
       THEN /\ entries' = [entries EXCEPT ![j] = entries[j + 1], ![j + 1] = entries[j]]
            /\ j' = j - 1
            /\ UNCHANGED i
       ELSE /\ i' = i + 1 /\ j' = i + 1
            /\ UNCHANGED entries
    /\ UNCHANGED <<file, phase, n_entries, filled, entry_i>>

Sorted ==
    /\ phase = "sort"
    /\ i >= n_entries
    /\ phase' = "done"
    /\ UNCHANGED <<file, n_entries, entries, filled, entry_i, i, j>>

Next == Allocate \/ Clear \/ FillEntry \/ MmapGetReturns \/ MmapSort \/ Sorted

Spec == Init /\ [][Next]_vars
-----------------------------------------------------------------------------
\* The count and the four loops of mmap_get agree, file after file: no entry is
\* written behind the array, and none is left for mmap_print to trip over.
FilledExactly ==
    /\ entry_i <= n_entries
    /\ phase = "sort" => \A n \in DOMAIN entries :
          entries[n].type \notin {"MET_NONE", "garbage"}

Position(s, e) == CHOOSE n \in DOMAIN s : s[n] = e

\* mmap_sort is the "stable insertion sort" it is said to be: no entry is lost
\* or doubled, addresses ascend, and at one address program headers, sections,
\* symbols and relocations stay in the order mmap_get put them in.
StableSort ==
    phase = "done" /\ filled # << >> =>
       /\ {entries[n] : n \in DOMAIN entries} = {filled[n] : n \in DOMAIN filled}
       /\ Len(entries) = Len(filled)
       /\ \A m, n \in DOMAIN entries : m < n =>
             \/ entries[m].addr < entries[n].addr
             \/ /\ entries[m].addr = entries[n].addr
                /\ Position(filled, entries[m]) < Position(filled, entries[n])
=============================================================================
