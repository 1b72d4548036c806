----------------------------- MODULE LoadOption -----------------------------
(***************************************************************************)
(* The bytes of the boot entry: AppendPath joins the device path of the    *)
(* loader's disk and its file path, make_load_option packs header,         *)
(* description and path (efi/efi-wrapper.c), and print_next_efi_variable   *)
(* takes them apart again (efi/efivars.c).                                 *)
(*                                                                         *)
(* A byte is what it is a byte of: of which node and at which offset, with *)
(* the node's Length, which its header holds; "end" is the node of type    *)
(* 0x7f.  A UINT16 has U16 values, at which the sizes of paths wrap.       *)
(***************************************************************************)
EXTENDS Integers, Sequences, SequencesExt

CONSTANTS
    Lengths,        \* lengths of a node, its header of four bytes included
    MaxNodes,       \* bound on the nodes of a path
    MaxDescription, \* bound on the characters of the description
    U16             \* a UINT16 wraps at this value

VARIABLES
    Devp1, Devp2, Description,  \* the arguments: paths, and a length
    phase,
    Devp, Size, p1Size,         \* get_devp_size: offset of the node, sum; its first result
    buf, buf_size,              \* the pool buffer being filled, and its size
    NewPath,                    \* AppendPath's result
    nodes, OptionalDataSize     \* what print_next_efi_variable finds

vars == <<Devp1, Devp2, Description, phase, Devp, Size, p1Size, buf, buf_size, NewPath,
          nodes, OptionalDataSize>>
arguments == <<Devp1, Devp2, Description>>
found == <<nodes, OptionalDataSize>>

ByteOf(what, k, length) == [of |-> what, at |-> k, Length |-> length]
Bytes(what, length) == [k \in 1 .. length |-> ByteOf(what, k - 1, length)]
EndOfDevicePath == Bytes("end", 4)

\* A path in memory: its nodes and the end.
RawPath(path) == FlattenSeq([k \in DOMAIN path |-> Bytes(path[k].name, path[k].length)])
InMemory(path) == RawPath(path) \o EndOfDevicePath

\* A string of CHAR16 in memory.
String(length) == Bytes("character", 2 * length) \o Bytes("NUL", 2)

HeaderSize == 6         \* sizeof(EFI_LOAD_OPTION), packed

Paths(names) ==
    UNION {[1 .. n -> [name : names, length : Lengths]] : n \in 0 .. MaxNodes}
TotalSize(path) == Len(RawPath(path))

Init ==
    /\ Devp1 \in Paths({"device"}) /\ Devp2 \in Paths({"file"})
    /\ Description \in 0 .. MaxDescription
    /\ phase = "size1" /\ Devp = 0 /\ Size = 0 /\ p1Size = 0
    /\ buf = << >> /\ buf_size = 0 /\ NewPath = << >>
    /\ nodes = << >> /\ OptionalDataSize = 0
-----------------------------------------------------------------------------
\* One iteration of get_devp_size, or its end.
GetDevpSize ==
    /\ phase \in {"size1", "size2"}
    /\ LET node == InMemory(IF phase = "size1" THEN Devp1 ELSE Devp2)[Devp + 1]
       IN  \/ /\ node.of # "end"
              /\ Size' = (Size + node.Length) % U16
              /\ Devp' = Devp + node.Length
              /\ UNCHANGED <<phase, p1Size>>
           \/ /\ node.of = "end" /\ phase = "size1"
              /\ phase' = "size2" /\ p1Size' = Size /\ Size' = 0 /\ Devp' = 0
           \/ /\ node.of = "end" /\ phase = "size2"
              /\ phase' = "append" /\ UNCHANGED <<Devp, Size, p1Size>>
    /\ UNCHANGED <<arguments, buf, buf_size, NewPath, found>>

NewSize == (p1Size + Size + 4) % U16

\* The two copies and the end, which take p1Size + Size + 4 bytes; when those do not
\* fit a UINT16 they run past the buffer, and the model ends.
AppendPath ==
    /\ phase = "append"
    /\ phase' = IF p1Size + Size + 4 <= NewSize THEN "option" ELSE "overflow"
    /\ NewPath' = SubSeq(InMemory(Devp1), 1, p1Size) \o SubSeq(InMemory(Devp2), 1, Size)
                  \o EndOfDevicePath
    /\ buf_size' = NewSize /\ buf' = NewPath'
    /\ UNCHANGED <<arguments, Devp, Size, p1Size, found>>

\* Mutant: StrLen instead of StrSize: the NUL is not copied.
DescriptionSize_NoNul == 2 * Description

DescriptionSize == 2 * Description + 2

\* set_boot_variables passes the size AppendPath returned, also in the header.
MakeLoadOption ==
    /\ phase = "option" /\ phase' = "print"
    /\ buf' = Bytes("header", HeaderSize)
              \o SubSeq(String(Description), 1, DescriptionSize)
              \o SubSeq(NewPath, 1, buf_size)
    /\ buf_size' = HeaderSize + DescriptionSize + buf_size
    /\ UNCHANGED <<arguments, Devp, Size, p1Size, NewPath, found>>

\* The offset behind the first NUL from k on: k plus StrSize.
AfterString(k) ==
    LET K == {j \in k .. Len(buf) - 1 : buf[j + 1].of = "NUL" /\ buf[j + 1].at = 1}
    IN  IF K = {} THEN Len(buf) ELSE (CHOOSE j \in K : \A i \in K : j <= i) + 1

\* The path list starts behind the description; FilePathListLength, which is
\* Len(NewPath) in the header, leads to the optional data.
PrintOption ==
    /\ phase = "print" /\ phase' = "walk"
    /\ Devp' = AfterString(HeaderSize)
    /\ OptionalDataSize' = buf_size - (Devp' + NewSize)
    /\ UNCHANGED <<arguments, Size, p1Size, buf, buf_size, NewPath, nodes>>

AtNode == Devp < Len(buf) /\ buf[Devp + 1].at = 0

\* print_file_path: DevicePathToStr, external, goes from node to node.
PrintFilePath ==
    /\ phase = "walk"
    /\ \/ /\ AtNode /\ buf[Devp + 1].of # "end"
          /\ nodes' = Append(nodes, [name |-> buf[Devp + 1].of, length |-> buf[Devp + 1].Length])
          /\ Devp' = Devp + buf[Devp + 1].Length /\ UNCHANGED phase
       \/ /\ AtNode /\ buf[Devp + 1].of = "end"
          /\ phase' = "done" /\ UNCHANGED <<Devp, nodes>>
       \/ /\ ~AtNode
          /\ phase' = "lost" /\ UNCHANGED <<Devp, nodes>>
    /\ UNCHANGED <<arguments, Size, p1Size, buf, buf_size, NewPath, OptionalDataSize>>

Next == GetDevpSize \/ AppendPath \/ MakeLoadOption \/ PrintOption \/ PrintFilePath

Spec == Init /\ [][Next]_vars
-----------------------------------------------------------------------------
\* The joined path's size is a UINT16.  Nothing checks that: the size of a longer
\* path is truncated, so that AppendPath cuts a path short or overflows the buffer
\* it allocates.
Fits == TotalSize(Devp1) + TotalSize(Devp2) + 4 < U16

\* Neither AppendPath nor make_load_option writes past the pool buffer whose
\* size it computed on its own.
FillsBuffer == Len(buf) = buf_size

\* What is read back from the entry is what went in: the nodes of the disk and
\* then of the file up to an end inside the variable, and nothing behind it.
RoundTrip ==
    /\ phase \notin {"overflow", "lost"}
    /\ phase = "done" => nodes = Devp1 \o Devp2 /\ OptionalDataSize = 0
=============================================================================
