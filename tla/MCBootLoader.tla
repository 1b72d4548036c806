---------------------------- MODULE MCBootLoader ----------------------------
(***************************************************************************)
(* The address space of MCKernelMemory: tables of four entries, 256 pages, *)
(* the kernel in the last 16.  The RAM has 30 to 34 frames, of which the   *)
(* loader needs some 26, so that the allocations meet and fill the top.    *)
(***************************************************************************)
EXTENDS BootLoader

Region1(type, rt) == [Type |-> type, runtime |-> rt]

\* The null page, the loader, firmware code and data at lo, runtime services
\* and ACPI tables at hi, the rest free.
Ram(frames, lo, hi) ==
    [f \in frames |->
        CASE f = 0 -> Region1("EfiBootServicesCode", FALSE)
          [] f = lo -> Region1("EfiLoaderCode", FALSE)
          [] f = lo + 1 -> Region1("EfiBootServicesData", FALSE)
          [] f = hi -> Region1("EfiRuntimeServicesData", TRUE)
          [] f = hi + 1 -> Region1("EfiRuntimeServicesCode", TRUE)
          [] f = hi + 2 -> Region1("EfiACPIMemoryNVS", FALSE)
          [] OTHER -> Region1("EfiConventionalMemory", FALSE)]

Ports == [Type |-> "EfiMemoryMappedIOPortSpace", PhysicalStart |-> 50,
          VirtualStart |-> 0, NumberOfPages |-> 1, runtime |-> TRUE]
Flash == [Type |-> "EfiMemoryMappedIO", PhysicalStart |-> 60, VirtualStart |-> 0,
          NumberOfPages |-> 2, runtime |-> TRUE]

\* Firmware areas next to each other in the middle, at the two ends, a hole in
\* RAM and two areas of I/O, and a map that does not start with the null page.
Compact == [ram |-> Ram(0 .. 33, 16, 18), mmio |-> <<Flash>>, RT |-> 18,
            n_pages |-> 2]
Others ==
    {[ram |-> Ram(0 .. 33, 3, 31), mmio |-> <<Flash>>, RT |-> 31, n_pages |-> 2],
     [ram |-> Ram((0 .. 24) \cup (28 .. 36), 3, 21), mmio |-> <<Ports, Flash>>,
      RT |-> 21, n_pages |-> 2],
     [ram |-> [Ram(0 .. 33, 3, 31) EXCEPT ![1] = Region1("EfiBootServicesCode", FALSE)],
      mmio |-> <<Flash>>, RT |-> 31, n_pages |-> 2]}

Segment(type, w, x, vp, offset, memsz) ==
    [p_type |-> type, writable |-> w, executable |-> x,
     first |-> type = "PT_LOAD" /\ vp = 0 /\ offset = 0,
     vpage |-> vp, offset |-> offset, p_memsz |-> memsz]

Text == Segment("PT_LOAD", FALSE, TRUE, 0, 0, 4)
Data == Segment("PT_LOAD", TRUE, FALSE, 1, 2, 5)
Dynamic(vp) == Segment("PT_DYNAMIC", TRUE, FALSE, vp, 2, 1)
Stack == Segment("PT_GNU_STACK", TRUE, FALSE, 0, 0, 0)

Tag(t, v) == [d_tag |-> t, d_val |-> v]
Rel(vp, ok) == [vpage |-> vp, relative |-> ok]

\* A regular kernel, one whose dynamic section is on the second page of the
\* data segment, and ones the loader turns down: segments that share a page,
\* no dynamic section, a first segment that does not start the file, DT_REL,
\* relocations of another type.
Kernel(d, dyn, relas) ==
    [phdrs |-> <<Text, Data, d, Stack>>, dynamic |-> dyn, relas |-> relas]
Dyns == <<Tag("DT_OTHER", 0), Tag("DT_RELASZ", 2), Tag("DT_RELAENT", RELAENT),
          Tag("DT_RELA", 0)>>
Relas2 == <<Rel(1, TRUE), Rel(2, TRUE)>>
Odd ==
    {Kernel(Stack, Dyns, Relas2),
     [Kernel(Dynamic(1), Dyns, <<Rel(0, TRUE), Rel(1, TRUE)>>)
        EXCEPT !.phdrs[2].vpage = 0],
     [Kernel(Dynamic(1), Dyns, Relas2) EXCEPT !.phdrs[1].first = FALSE],
     Kernel(Dynamic(1), <<Tag("DT_REL", 0)>>, << >>),
     Kernel(Dynamic(1), <<Tag("DT_OTHER", 0)>>, << >>),
     Kernel(Dynamic(1), Dyns, <<Rel(1, TRUE), Rel(2, FALSE)>>)}
Regular == Kernel(Dynamic(1), Dyns, Relas2)
Regular2 == Kernel(Dynamic(2), Reverse(Dyns), Relas2)

MCSetups ==
    [machine : Others, image : {Regular}]
    \cup [machine : {Compact}, image : Odd \cup {Regular, Regular2}]
=============================================================================
