------------------------------- MODULE MCBoot -------------------------------
(***************************************************************************)
(* The machines and images of MCBootLoader, whose two free pages make the  *)
(* kernel halt, and a machine with more RAM, where the loader hands over   *)
(* the pages the kernel needs, and a kernel with RELRO.                    *)
(***************************************************************************)
EXTENDS Boot, MCBootLoader

Relro == Segment("PT_GNU_RELRO", FALSE, FALSE, 1, 2, 2)
Full == [Regular EXCEPT !.phdrs = Append(@, Relro)]

IoPorts == [Ports EXCEPT !.PhysicalStart = 70]
IoFlash == [Flash EXCEPT !.PhysicalStart = 80]

\* Its RAM has a hole, and there are two areas of I/O.
Large ==
    [ram |-> Ram((0 .. 33) \cup (35 .. 67), 3, 30), mmio |-> <<IoPorts, IoFlash>>,
     RT |-> 30, n_pages |-> 22]

MCBootSetups == MCSetups \cup [machine : {Large}, image : {Full}]

MCFrame == 0 .. 67
MCGarbage == {220}
=============================================================================
