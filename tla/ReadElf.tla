------------------------------ MODULE ReadElf ------------------------------
(***************************************************************************)
(* readelf (src/lib/readelf.c): reads the parts of an ELF file one after   *)
(* the other into buffers that belong to a struct elf_file, and frees them *)
(* when a part cannot be read.  Every elf_alloc may return NULL and every  *)
(* elf_read may fail, as the implementations in test/glibc-readelf.c do;   *)
(* those of the loader (efi/efi-readelf.c) leave the program instead.      *)
(*                                                                         *)
(* A buffer is the number of its allocation.  What a buffer holds is known *)
(* from the file it was read from, so only the length of a converted       *)
(* relocation table is kept.                                               *)
(***************************************************************************)
EXTENDS Integers, Sequences, FiniteSets

CONSTANT Files   \* the files considered

\* Sizes are counted in units of 8 bytes.
SIZEOF_REL == 2    \* Elf64_Rel
SIZEOF_RELA == 3   \* Elf64_Rela
SIZEOF_SHDR == 8   \* Elf64_Shdr

SectionType == {"SHT_PROGBITS", "SHT_SYMTAB", "SHT_DYNSYM", "SHT_REL", "SHT_RELA"}

\* A file; its sections are counted from SHN_BEGIN.
File == [magic : BOOLEAN,
         phdrs : Seq({"PT_LOAD", "PT_INTERP", "PT_DYNAMIC"}),
         sections : Seq([sh_type : SectionType, sh_size : Nat,
                         sh_entsize : Nat \ {0}])]

ASSUME FilesAssumption == Files \subseteq File

NULL == 0
Field == {"header", "program_headers", "sections", "section_names",
          "interpreter", "dynamic", "symbol_tables", "rel_tables"}
-----------------------------------------------------------------------------
VARIABLES
    file,           \* the file that is read
    pc,             \* the part that is read next
    heap,           \* how often each buffer allocated so far has been freed
    elf_file,       \* the pointers of struct elf_file
    symbol_table,   \* dynamic.symbol_table, an index of symbol_tables or 0
    symbols,        \* the elements of symbol_tables
    rels,           \* the elements of rel_tables
    i, table        \* the section a loop is at, the tables it has filled

vars == <<file, pc, heap, elf_file, symbol_table, symbols, rels, i, table>>

SymbolTable == [section : Nat, symbols : Nat, names : Nat]
RelTable == [section : Nat, n_relocations : Nat, relocations : Nat, n_elems : Nat]

NoSymbolTable == [section |-> 0, symbols |-> NULL, names |-> NULL]
NoRelTable == [section |-> 0, n_relocations |-> 0, relocations |-> NULL,
               n_elems |-> 0]

NullFile == [f \in Field |-> NULL]
-----------------------------------------------------------------------------
(***************************************************************************)
(* The heap.  An outcome is a heap and a pointer.                          *)
(***************************************************************************)
ElfAlloc(h) == {<<h, NULL>>, <<Append(h, 0), Len(h) + 1>>}

\* h after elf_free of the pointers held in n[k] places, for each buffer k.
ElfFree(h, n) == [k \in DOMAIN h |-> h[k] + n[k]]
Only(h, buffer) == [k \in DOMAIN h |-> IF k = buffer THEN 1 ELSE 0]

\* Mutant: a buffer that could not be filled is forgotten.
ElfRead2_Leaks(h) ==
    ElfAlloc(h) \cup {<<Append(h, 0), NULL>>}

\* elf_read2 allocates a buffer and reads into it, or frees it.
ElfRead2(h) ==
    ElfAlloc(h) \cup {<<Append(h, 1), NULL>>}

\* convert_rel_to_rela reads a table, allocates another, frees the first.
ConvertRelToRela(h) ==
    UNION {IF r[2] = NULL THEN {r}
           ELSE {<<ElfFree(a[1], Only(a[1], r[2])), a[2]>> :
                    a \in ElfAlloc(r[1])} : r \in ElfRead2(h)}

\* The number of pointers to buffer k: in elf_file, in its symbol tables and in
\* its relocation tables.
FieldRefs(k) == Cardinality({f \in Field : elf_file[f] = k})
SymbolRefs(s, k) ==
    Cardinality({t \in DOMAIN s : s[t].symbols = k})
       + Cardinality({t \in DOMAIN s : s[t].names = k})
RelRefs(r, k) == Cardinality({t \in DOMAIN r : r[t].relocations = k})

Refs(k) == FieldRefs(k) + SymbolRefs(symbols, k) + RelRefs(rels, k)

\* Mutant: the relocation tables are forgotten.
FreeElfFile_KeepsRels ==
    ElfFree(heap, [k \in DOMAIN heap |-> FieldRefs(k) + SymbolRefs(symbols, k)])

\* free_elf_file
FreeElfFile == ElfFree(heap, [k \in DOMAIN heap |-> Refs(k)])
-----------------------------------------------------------------------------
Init ==
    /\ file \in Files
    /\ pc = "header"
    /\ heap = << >>
    /\ elf_file = NullFile
    /\ symbol_table = 0
    /\ symbols = << >> /\ rels = << >>
    /\ i = 1 /\ table = 0

\* elf_file->f is set to what o returned; the part after it is next.
Store(f, o, next) ==
    /\ heap' = o[1]
    /\ elf_file' = [elf_file EXCEPT ![f] = o[2]]
    /\ pc' = IF o[2] = NULL THEN "error" ELSE next

\* Nothing is read and the part after it is next.
Skip(next) == pc' = next /\ UNCHANGED <<heap, elf_file>>

tables == <<symbol_table, symbols, rels, i, table>>

AllocHeader ==
    /\ pc = "header"
    /\ \E o \in ElfAlloc(heap) : Store("header", o, "program_headers")
    /\ UNCHANGED <<file, tables>>

\* read_program_headers reads the header, which may fail, and the program
\* headers unless there are none.
ReadProgramHeaders ==
    /\ pc = "program_headers"
    /\ \/ Skip("error")
       \/ /\ file.magic
          /\ file.phdrs = << >>
          /\ Skip("sections")
       \/ /\ file.magic
          /\ file.phdrs # << >>
          /\ \E o \in ElfRead2(heap) : Store("program_headers", o, "sections")
    /\ UNCHANGED <<file, tables>>

ReadSections ==
    /\ pc = "sections"
    /\ \E o \in ElfRead2(heap) : Store("sections", o, "section_names")
    /\ UNCHANGED <<file, tables>>

ReadSectionNames ==
    /\ pc = "section_names"
    /\ \E o \in ElfRead2(heap) : Store("section_names", o, "interpreter")
    /\ UNCHANGED <<file, tables>>

HasPhdr(type) == \E p \in 1 .. Len(file.phdrs) : file.phdrs[p] = type

ReadInterpreter ==
    /\ pc = "interpreter"
    /\ IF HasPhdr("PT_INTERP")
       THEN \E o \in ElfRead2(heap) : Store("interpreter", o, "symbol_tables")
       ELSE Skip("symbol_tables")
    /\ UNCHANGED <<file, tables>>

SectionsOf(types) == {s \in 1 .. Len(file.sections) : file.sections[s].sh_type \in types}
SymbolSections == SectionsOf({"SHT_SYMTAB", "SHT_DYNSYM"})
RelSections == SectionsOf({"SHT_REL", "SHT_RELA"})

\* read_symbol_tables counts the tables and allocates the array.
AllocSymbolTables ==
    /\ pc = "symbol_tables"
    /\ \E o \in ElfAlloc(heap) :
          /\ Store("symbol_tables", o, "symbols")
          /\ symbols' = IF o[2] = NULL THEN << >>
                        ELSE [t \in 1 .. Cardinality(SymbolSections) |-> NoSymbolTable]
    /\ i' = 1 /\ table' = 0
    /\ UNCHANGED <<file, symbol_table, rels>>

\* The error path of read_symbol_tables, with the array filled up to s.
DropSymbolTables(h, s) ==
    /\ heap' = ElfFree(ElfFree(h, [k \in DOMAIN h |-> SymbolRefs(s, k)]),
                       Only(h, elf_file["symbol_tables"]))
    /\ elf_file' = [elf_file EXCEPT !["symbol_tables"] = NULL]
    /\ symbols' = << >>
    /\ pc' = "error"

\* Mutant: the array is filled from its end.
FilledSymbolTables_Reversed(s, n) ==
    [symbols EXCEPT ![Len(symbols) - table] = [section |-> i, symbols |-> s, names |-> n]]

\* The array with the element of section i filled.
FilledSymbolTables(s, n) ==
    [symbols EXCEPT ![table + 1] = [section |-> i, symbols |-> s, names |-> n]]

\* One section of the loop: the symbols, then their names.
ReadSymbolTable ==
    /\ pc = "symbols"
    /\ i \in SymbolSections
    /\ \E o \in ElfRead2(heap) :
          IF o[2] = NULL
          THEN DropSymbolTables(o[1], FilledSymbolTables(NULL, NULL))
          ELSE \E n \in ElfRead2(o[1]) :
                  IF n[2] = NULL
                  THEN DropSymbolTables(n[1], FilledSymbolTables(o[2], NULL))
                  ELSE /\ heap' = n[1]
                       /\ symbols' = FilledSymbolTables(o[2], n[2])
                       /\ UNCHANGED <<pc, elf_file>>
    /\ i' = i + 1 /\ table' = table + 1
    /\ UNCHANGED <<file, symbol_table, rels>>

\* Mutant: the loop does not go on.
SkipSection_Stays ==
    /\ pc \in {"symbols", "relocations"}
    /\ UNCHANGED vars

\* Both loops pass over the sections of other types.
SkipSection ==
    /\ \/ pc = "symbols" /\ i \notin SymbolSections
       \/ pc = "relocations" /\ i \notin RelSections
    /\ i <= Len(file.sections)
    /\ i' = i + 1
    /\ UNCHANGED <<file, pc, heap, elf_file, symbol_table, symbols, rels, table>>

SymbolTablesRead ==
    /\ pc = "symbols"
    /\ i > Len(file.sections)
    /\ Skip("dynamic")
    /\ UNCHANGED <<file, tables>>

IsDynsym(t) == file.sections[symbols[t].section].sh_type = "SHT_DYNSYM"

\* read_dynamic reads the dynamic table and looks for its symbol table.  When
\* there is none the table is freed but elf_file->dynamic.dynamic keeps it.
ReadDynamic ==
    /\ pc = "dynamic"
    /\ IF ~HasPhdr("PT_DYNAMIC")
       THEN Skip("rel_tables") /\ UNCHANGED symbol_table
       ELSE \E o \in ElfRead2(heap) :
               LET found == {t \in DOMAIN symbols : IsDynsym(t)} IN
               /\ elf_file' = [elf_file EXCEPT !["dynamic"] = o[2]]
               /\ IF o[2] # NULL /\ found # {}
                  THEN /\ heap' = o[1]
                       /\ symbol_table' = CHOOSE t \in found : \A u \in found : t <= u
                       /\ pc' = "rel_tables"
                  ELSE /\ heap' = ElfFree(o[1], Only(o[1], o[2]))
                       /\ symbol_table' = 0
                       /\ pc' = "error"
    /\ UNCHANGED <<file, symbols, rels, i, table>>

\* read_relocations counts the tables and allocates the array.
AllocRelTables ==
    /\ pc = "rel_tables"
    /\ \E o \in ElfAlloc(heap) :
          /\ Store("rel_tables", o, "relocations")
          /\ rels' = IF o[2] = NULL THEN << >>
                     ELSE [t \in 1 .. Cardinality(RelSections) |-> NoRelTable]
    /\ i' = 1 /\ table' = 0
    /\ UNCHANGED <<file, symbol_table, symbols>>

\* The element of section i with its table in buffer r.  A table that is read
\* has all its entries; a converted one has n_elems of them.
Relocations(r) ==
    LET s == file.sections[i] IN
    [section |-> i, n_relocations |-> s.sh_size \div s.sh_entsize, relocations |-> r,
     n_elems |-> IF s.sh_type = "SHT_RELA" THEN s.sh_size \div SIZEOF_RELA
                 ELSE s.sh_size \div SIZEOF_SHDR]

ReadRelTable ==
    /\ pc = "relocations"
    /\ i \in RelSections
    /\ \E o \in IF file.sections[i].sh_type = "SHT_RELA" THEN ElfRead2(heap)
                ELSE ConvertRelToRela(heap) :
          IF o[2] = NULL
          THEN \* the error path of read_relocations
               /\ heap' = ElfFree(ElfFree(o[1], [k \in DOMAIN o[1] |-> RelRefs(rels, k)]),
                                  Only(o[1], elf_file["rel_tables"]))
               /\ elf_file' = [elf_file EXCEPT !["rel_tables"] = NULL]
               /\ rels' = << >>
               /\ pc' = "error"
          ELSE /\ heap' = o[1]
               /\ rels' = [rels EXCEPT ![table + 1] = Relocations(o[2])]
               /\ UNCHANGED <<pc, elf_file>>
    /\ i' = i + 1 /\ table' = table + 1
    /\ UNCHANGED <<file, symbol_table, symbols>>

RelTablesRead ==
    /\ pc = "relocations"
    /\ i > Len(file.sections)
    /\ Skip("done")
    /\ UNCHANGED <<file, tables>>

\* The error path of readelf: free_elf_file and init_elf_file.
Fail ==
    /\ pc = "error"
    /\ heap' = FreeElfFile
    /\ elf_file' = NullFile
    /\ symbol_table' = 0 /\ symbols' = << >> /\ rels' = << >>
    /\ pc' = "failed"
    /\ UNCHANGED <<file, i, table>>

\* The caller is done with the file.
Close ==
    /\ pc = "done"
    /\ heap' = FreeElfFile
    /\ pc' = "closed"
    /\ UNCHANGED <<file, elf_file, tables>>

Returned == pc \in {"failed", "closed"} /\ UNCHANGED vars

Next ==
    \/ AllocHeader \/ ReadProgramHeaders \/ ReadSections \/ ReadSectionNames
    \/ ReadInterpreter \/ AllocSymbolTables \/ ReadSymbolTable \/ SkipSection
    \/ SymbolTablesRead \/ ReadDynamic \/ AllocRelTables \/ ReadRelTable
    \/ RelTablesRead \/ Fail \/ Close \/ Returned

Spec == Init /\ [][Next]_vars

\* readelf runs to its end.
FairSpec == Spec /\ WF_vars(Next)
-----------------------------------------------------------------------------
\* Every pointer is NULL or to a buffer, and readelf's cursors stay within the
\* sections and the tables counted for them.
TypeOK ==
    /\ file \in Files
    /\ pc \in {"header", "program_headers", "sections", "section_names",
               "interpreter", "symbol_tables", "symbols", "dynamic", "rel_tables",
               "relocations", "done", "error", "failed", "closed"}
    /\ heap \in Seq(Nat)
    /\ elf_file \in [Field -> 0 .. Len(heap)]
    /\ symbol_table \in 0 .. Len(symbols)
    /\ symbols \in Seq(SymbolTable) /\ rels \in Seq(RelTable)
    /\ i \in 1 .. Len(file.sections) + 1 /\ table \in 0 .. Len(file.sections)

\* The file has a dynamic segment and no dynamic symbols.
Stripped == HasPhdr("PT_DYNAMIC") /\ SectionsOf({"SHT_DYNSYM"}) = {}

\* At every point of readelf, whichever calls of elf_alloc and elf_read have
\* failed, each buffer ever allocated is either freed, once, or held by exactly
\* one pointer that free_elf_file follows: nothing leaks on the nested error
\* paths and nothing is freed twice.  The error path of read_dynamic for a
\* stripped file is the exception that FreedOnce is about.
OwnedOnce ==
    pc # "closed" =>
       \A k \in DOMAIN heap :
          \/ heap[k] + Refs(k) = 1
          \/ Stripped /\ k = elf_file["dynamic"] /\ pc = "error"
          \/ Stripped /\ pc = "failed" /\ heap[k] = 2

\* After readelf has failed, or its caller has closed the file, no buffer is
\* left, for every file.
NoLeak == pc \in {"failed", "closed"} => \A k \in DOMAIN heap : heap[k] >= 1

\* readelf returns without an error only when it has read every symbol and
\* relocation section, each into its own element and in the order of the
\* sections, and the dynamic table's symbols are those of a DYNSYM section.
DoneIsComplete ==
    pc = "done" =>
       /\ {symbols[t].section : t \in DOMAIN symbols} = SymbolSections
       /\ {rels[t].section : t \in DOMAIN rels} = RelSections
       /\ \A t, u \in DOMAIN symbols : t < u => symbols[t].section < symbols[u].section
       /\ \A t, u \in DOMAIN rels : t < u => rels[t].section < rels[u].section
       /\ \A t \in DOMAIN symbols : symbols[t].symbols # NULL /\ symbols[t].names # NULL
       /\ \A t \in DOMAIN rels : rels[t].relocations # NULL
       /\ HasPhdr("PT_DYNAMIC") => symbol_table # 0 /\ IsDynsym(symbol_table)

\* readelf comes to an end and everything it allocated is freed.
Returns == <>(pc \in {"failed", "closed"})

\* What include/readelf.h says of elf_free, that it is given a pointer that
\* originated from elf_alloc: a buffer is not freed again.
FreedOnce == \A k \in DOMAIN heap : heap[k] <= 1

\* What the comment on read_relocations says, that relocations of type "rel"
\* are converted: the table has as many entries as n_relocations promises.
RelTablesWhole ==
    pc = "done" => \A t \in DOMAIN rels : rels[t].n_elems >= rels[t].n_relocations
=============================================================================
