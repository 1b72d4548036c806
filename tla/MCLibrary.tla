----------------------------- MODULE MCLibrary -----------------------------
(***************************************************************************)
(* The sequential algorithms of the repository under one run: the string   *)
(* functions, the number conversions and the format scan of the library,   *)
(* the load option of the boot loader and the memory map of the test       *)
(* programs.  A behaviour is one call of one of them, and the variables of *)
(* the others are idle; a variable that two modules name is the one of     *)
(* the module that runs.                                                   *)
(***************************************************************************)
EXTENDS Integers, SequencesExt

CONSTANTS
    Byte, Fill, MemSize, SIZE_T, Bits, HexDigits, MaxLength,
    Lengths, MaxNodes, MaxDescription, U16, HALF

\* Files with up to two headers of each kind, up to two tables of symbols and
\* one of relocations, at two addresses, so that entries share one.
Address == {1, 2}
Files ==
    [phdrs : BoundedSeq(Address, 2),
     sections : BoundedSeq([alloc : BOOLEAN, addr : Address], 1),
     symbol_tables : {<< >>} \cup
        {<<[section |-> 1, symbols |-> s], [section |-> 2, symbols |-> <<2>>]>> :
            s \in BoundedSeq(Address, 2)},
     rel_tables : {<< >>} \cup
        {<<[link |-> l, relocations |-> r]>> : l \in {0, 2}, r \in BoundedSeq(Address, 2)}]

VARIABLES
    which,                                      \* the module that runs
    call, n,                                    \* Strings, PutNumber
    mem, pc, ret,                               \* Strings
    i,                                          \* Strings, MemoryMap
    text,                                       \* PutNumber
    out,                                        \* PutNumber, Printf
    format, null, first, last, format_mode, n_long, done,   \* Printf
    phase,                                      \* LoadOption, MemoryMap
    Devp1, Devp2, Description, Devp, Size, p1Size, buf, buf_size, NewPath,
    nodes, OptionalDataSize,                    \* LoadOption
    file, n_entries, entries, entry_i, j, filled            \* MemoryMap

bytes == <<mem, pc, ret>>
scan == <<format, null, first, last, format_mode, n_long, done>>
option == <<Devp1, Devp2, Description, Devp, Size, p1Size, buf, buf_size, NewPath,
            nodes, OptionalDataSize>>
array == <<file, n_entries, entries, entry_i, j, filled>>
vars == <<which, call, n, bytes, i, text, out, scan, phase, option, array>>

S == INSTANCE Strings
N == INSTANCE PutNumber
P == INSTANCE Printf
O == INSTANCE LoadOption
M == INSTANCE MemoryMap

\* What the modules assume of their constants.
ASSUME LibraryAssumption ==
    /\ Byte \subseteq 0 .. 255 /\ 0 \in Byte
    /\ Fill \subseteq Nat /\ \A c \in Fill : c % 256 \in Byte
    /\ MemSize \in Nat \ {0} /\ SIZE_T \in Nat /\ SIZE_T > 2 * MemSize
    /\ {Bits, HexDigits, U16, HALF} \subseteq Nat \ {0}
    /\ Lengths \subseteq Nat \ (0 .. 3)
    /\ {MaxLength, MaxNodes, MaxDescription} \subseteq Nat
    /\ Files \subseteq M!File
-----------------------------------------------------------------------------
NoBytes == mem = 0 /\ pc = 0 /\ ret = 0
NoScan ==
    /\ format = 0 /\ null = 0 /\ first = 0 /\ last = 0 /\ format_mode = 0
    /\ n_long = 0 /\ done = 0
NoOption ==
    /\ Devp1 = 0 /\ Devp2 = 0 /\ Description = 0 /\ Devp = 0 /\ Size = 0
    /\ p1Size = 0 /\ buf = 0 /\ buf_size = 0 /\ NewPath = 0 /\ nodes = 0
    /\ OptionalDataSize = 0
NoArray ==
    /\ file = 0 /\ n_entries = 0 /\ entries = 0 /\ entry_i = 0 /\ j = 0 /\ filled = 0

Init ==
    \/ /\ which = "Strings" /\ S!Init
       /\ text = 0 /\ out = 0 /\ phase = 0 /\ NoScan /\ NoOption /\ NoArray
    \/ /\ which = "PutNumber" /\ N!Init
       /\ i = 0 /\ phase = 0 /\ NoBytes /\ NoScan /\ NoOption /\ NoArray
    \/ /\ which = "Printf" /\ P!Init
       /\ call = 0 /\ n = 0 /\ i = 0 /\ text = 0 /\ phase = 0
       /\ NoBytes /\ NoOption /\ NoArray
    \/ /\ which = "LoadOption" /\ O!Init
       /\ call = 0 /\ n = 0 /\ i = 0 /\ text = 0 /\ out = 0
       /\ NoBytes /\ NoScan /\ NoArray
    \/ /\ which = "MemoryMap" /\ M!Init
       /\ call = 0 /\ n = 0 /\ text = 0 /\ out = 0 /\ NoBytes /\ NoScan /\ NoOption

Next ==
    \/ /\ which = "Strings" /\ S!Next
       /\ UNCHANGED <<which, text, out, phase, scan, option, array>>
    \/ /\ which = "PutNumber" /\ N!Next
       /\ UNCHANGED <<which, i, phase, bytes, scan, option, array>>
    \/ /\ which = "Printf" /\ P!Next
       /\ UNCHANGED <<which, call, n, i, text, phase, bytes, option, array>>
    \/ /\ which = "LoadOption" /\ O!Next
       /\ UNCHANGED <<which, call, n, i, text, out, bytes, scan, array>>
    \/ /\ which = "MemoryMap" /\ M!Next
       /\ UNCHANGED <<which, call, n, text, out, bytes, scan, option>>

\* The processor goes on with the call.
Spec == Init /\ [][Next]_vars /\ WF_vars(Next)
-----------------------------------------------------------------------------
\* The functions of lib/string.c do what C says of them, on overlapping areas
\* too: they write nothing but the n bytes they are given, at any iteration,
\* leave there what they should, and compare characters as unsigned.  Left out
\* are the strncpy that runs past its count (Truncates, StrncpyStopsAtN's) and
\* the calls on which StartsWith is no prefix test (Deviates).
StringsAsC ==
    which = "Strings" => S!WritesOnlyDst /\ S!CopiesExact /\ S!ComparesUnsigned

\* generic_printf prints what C defines as C defines it, and text at most once
\* and in order whatever the format; the digits of put_int, put_unsigned and
\* put_hex stay in their buffers and denote the argument, the smallest and the
\* largest number included.
PrintfAsC ==
    /\ which = "Printf" => P!TextOnce /\ P!PrintsAsStandard
    /\ which = "PutNumber" => N!InsideBuffer /\ N!PrintsValue

\* The boot entry that AppendPath and make_load_option pack fills its buffers
\* exactly, and print_next_efi_variable gets back what went in, as long as the
\* joined path's size is a UINT16 (Fits).
OptionRoundTrip == which = "LoadOption" /\ O!Fits => O!FillsBuffer /\ O!RoundTrip

\* The array of mmap_get is filled exactly, and mmap_sort sorts it stably.
MemoryMapSorted == which = "MemoryMap" => M!FilledExactly /\ M!StableSort

\* The calls that do not come to a proper end: strncpy runs past its count, a path
\* longer than a UINT16 overflows its buffer or breaks off in a node, and a memory
\* map of HALF entries or more is cleared for ever.
Runaway ==
    \/ which = "Strings" /\ S!Truncates
    \/ which = "LoadOption" /\ ~O!Fits
    \/ which = "MemoryMap" /\ M!NeverClears

\* Every other call comes to its end: every comparison, copy and scan for a NUL,
\* every division by the base, the walk from node to node, and the loops over the
\* entries, of which HALF - 1 are cleared with a counter of 16 bits.
Returns ==
    \/ Runaway
    \/ <>(\/ which = "Strings" /\ pc = "done"
          \/ which = "PutNumber" /\ out # << >>
          \/ which = "Printf" /\ done
          \/ which \in {"LoadOption", "MemoryMap"} /\ phase = "done")
=============================================================================
