----------------------------- MODULE MCReadElf -----------------------------
(***************************************************************************)
(* Files with and without a magic number, program headers, an interpreter, *)
(* a dynamic segment and its symbols, and with symbol and relocation       *)
(* sections in different orders, up to three sections.                     *)
(***************************************************************************)
EXTENDS ReadElf

Section(type, size, entsize) ==
    [sh_type |-> type, sh_size |-> size, sh_entsize |-> entsize]

Progbits == Section("SHT_PROGBITS", 5, 1)
Symtab == Section("SHT_SYMTAB", 6, 3)
Dynsym == Section("SHT_DYNSYM", 3, 3)
Rela == Section("SHT_RELA", 6, SIZEOF_RELA)
Rel == Section("SHT_REL", 8, SIZEOF_REL)

SectionLists == {<< >>, <<Progbits, Rela>>, <<Symtab, Dynsym, Rela>>,
                 <<Dynsym, Rel, Rela>>, <<Rela, Symtab, Progbits>>}
PhdrLists == {<< >>, <<"PT_INTERP", "PT_LOAD">>,
              <<"PT_LOAD", "PT_INTERP", "PT_DYNAMIC">>, <<"PT_DYNAMIC">>}

MCFiles == [magic : BOOLEAN, phdrs : PhdrLists, sections : SectionLists]
=============================================================================
