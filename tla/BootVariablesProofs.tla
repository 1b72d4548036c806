------------------------- MODULE BootVariablesProofs -------------------------
(***************************************************************************)
(* The loader's installation survives interruption, whatever other         *)
(* variables the machine has, however often the power fails, a call fails  *)
(* or the user goes through the boot menu.                                 *)
(***************************************************************************)
EXTENDS BootVariables, LeastNatural

\* The boot order names the entry of the loader.
Listed == \E k \in DOMAIN BootOrder : BootOrder[k] = 4

\* What one run leaves for the next: the entry that was started exists, the
\* firmware had it from the order unless the user chose it, the order is
\* written after the entry, and the second enumeration after both.
Installed ==
    /\ BootCurrent = 4 => Boot0004 = "ours" /\ (menu \/ Listed)
    /\ phase = "set_order" => Boot0004 = "ours"
    /\ ~outer => Boot0004 = "ours" /\ Listed

\* The boot sequence is reached with nothing left to install, and not in a
\* debug build that has just installed.
Decided ==
    phase = "continue" => /\ BootCurrent = 4 \/ ~outer
                          /\ debug => outer

IInv == TypeOK /\ Installed /\ Decided
-----------------------------------------------------------------------------
\* The shell can always be started, and entry 4 only when it is the loader's.
LEMMA BootableEntries ==
    /\ 3 \in Bootable
    /\ 4 \in Bootable => Boot0004 = "ours"
    /\ Boot0004 = "ours" => 4 \in Bootable
  BY DEF Bootable

\* The firmware starts an entry that leads to the loader, the loader's own
\* only when the boot order names it.
LEMMA FirmwareStarts ==
    ASSUME BootOrder \in Seq(0 .. 4)
    PROVE  /\ FirstBootable \in Bootable
           /\ FirstBootable = 4 => Listed
<1> DEFINE order == BootOrder \o <<3>>
           K == {k \in DOMAIN order : order[k] \in Bootable}
           first == CHOOSE k \in K : \A j \in K : k <= j
<1>1. /\ Len(order) = Len(BootOrder) + 1
      /\ DOMAIN order = 1 .. Len(BootOrder) + 1
      /\ order[Len(BootOrder) + 1] = 3
      /\ \A k \in 1 .. Len(BootOrder) : order[k] = BootOrder[k]
  OBVIOUS
<1>2. Len(BootOrder) + 1 \in K
  BY <1>1, BootableEntries
<1>3. K \in SUBSET Nat
  BY <1>1
<1> HIDE DEF K
<1>4. \E k \in K : \A j \in K : k <= j
  BY <1>2, <1>3, LeastElement
<1>5. first \in K
  BY <1>4
<1>6. FirstBootable = order[first]
  BY Zenon DEF FirstBootable, K
<1> HIDE DEF order, first
<1>7. first \in DOMAIN order /\ order[first] \in Bootable
  BY <1>5 DEF K
<1>8. order[first] = 4 => Listed
  BY <1>1, <1>7 DEF Listed
<1> QED BY <1>6, <1>7, <1>8

\* Init meets the invariant: nothing has been started yet.
LEMMA InitIInv == Init => IInv
<1> SUFFICES ASSUME Init PROVE IInv
  OBVIOUS
<1>1. TypeOK
  <2>1. BootOrder \in Seq(0 .. 4)
    <3>1. <<3>> \in Seq(0 .. 4) /\ <<4, 3>> \in Seq(0 .. 4) /\ <<0, 3, 4>> \in Seq(0 .. 4)
      OBVIOUS
    <3>2. BootOrder = <<3>> \/ BootOrder = <<4, 3>> \/ BootOrder = <<0, 3, 4>>
      BY DEF Init
    <3> QED BY <3>1, <3>2
  <2>2. detours \in 0 .. MaxDetours
    BY BootVariablesAssumption DEF Init
  <2>3. menu \in BOOLEAN /\ outer \in BOOLEAN /\ Boot0004Exists \in BOOLEAN
    BY Zenon DEF Init
  <2>4. unseen \subseteq Variables /\ Name \in Variables \cup {NoName}
    BY Zenon DEF Init
  <2>5. /\ phase \in {"off", "enumerate", "set_entry", "set_order", "exit", "continue"}
        /\ debug \in Debug /\ others \in Others
        /\ Boot0004 \in {"absent", "other", "ours"}
        /\ BootCurrent \in Bootable \cup {3}
    BY DEF Init
  <2> QED BY <2>1, <2>2, <2>3, <2>4, <2>5, Zenon DEF TypeOK
<1>2. Installed /\ Decided
  BY DEF Init, Installed, Decided
<1> QED BY <1>1, <1>2 DEF IInv

\* The variables that exist depend on Boot0004 and the others only, and the
\* ones that exist are not taken away when the entry is written.
LEMMA VariablesGrow ==
    ASSUME UNCHANGED others, Boot0004' = Boot0004 \/ Boot0004' = "ours"
    PROVE  /\ Variables \subseteq Variables'
           /\ Bootable \subseteq Bootable'
<1>1. Variables \subseteq Variables'
  <2>1. CASE Boot0004' = Boot0004
    BY <2>1 DEF Variables
  <2>2. CASE Boot0004' = "ours"
    BY <2>2 DEF Variables
  <2> QED BY <2>1, <2>2
<1>2. Bootable \subseteq Bootable'
  BY DEF Bootable
<1> QED BY <1>1, <1>2

\* A start of the loader: what both ways of starting it establish.
LEMMA StartIInv ==
    ASSUME IInv, Enumerate, outer' = TRUE, menu' \in BOOLEAN,
           BootCurrent' \in Bootable, BootCurrent' = 4 => menu' \/ Listed,
           UNCHANGED <<machine, store>>, detours' \in 0 .. MaxDetours
    PROVE  IInv'
<1>1. /\ UNCHANGED <<debug, others, Boot0004, BootOrder>>
      /\ unseen' = Variables /\ Name' = NoName /\ Boot0004Exists' = FALSE
      /\ phase' = "enumerate"
  BY DEF Enumerate, machine, store
<1>2. Variables' = Variables /\ Bootable' = Bootable
  BY <1>1 DEF Variables, Bootable
<1>3. TypeOK'
  <2>1. /\ debug' \in Debug /\ others' \in Others /\ BootOrder' \in Seq(0 .. 4)
        /\ Boot0004' \in {"absent", "other", "ours"}
    BY <1>1, Zenon DEF IInv, TypeOK
  <2>2. /\ outer' \in BOOLEAN /\ Boot0004Exists' \in BOOLEAN
        /\ unseen' \subseteq Variables' /\ Name' \in Variables' \cup {NoName}
        /\ BootCurrent' \in Bootable' \cup {3}
    BY <1>1, <1>2, Zenon
  <2>3. phase' \in {"off", "enumerate", "set_entry", "set_order", "exit", "continue"}
    BY <1>1
  <2> QED BY <2>1, <2>2, <2>3, Zenon DEF TypeOK
<1>4. Installed'
  <2>1. Listed' <=> Listed
    BY <1>1, Zenon DEF Listed
  <2>2. BootCurrent' = 4 => Boot0004' = "ours"
    BY <1>1, BootableEntries
  <2>3. phase' # "set_order"
    BY <1>1
  <2> QED BY <2>1, <2>2, <2>3, Zenon DEF Installed
<1>5. Decided'
  BY <1>1 DEF Decided
<1> QED BY <1>3, <1>4, <1>5 DEF IInv

\* A step of the loader that leaves the two variables and the way it was
\* started alone keeps the invariant when it chooses the phase rightly.
LEMMA QuietIInv ==
    ASSUME IInv, UNCHANGED <<started, store, outer>>,
           phase' \in {"off", "enumerate", "set_entry", "exit", "continue"},
           phase' = "continue" => (BootCurrent = 4 \/ ~outer) /\ (debug => outer),
           unseen' \subseteq Variables, Name' \in Variables \cup {NoName},
           Boot0004Exists' \in BOOLEAN, detours' \in 0 .. MaxDetours
    PROVE  IInv'
<1>1. UNCHANGED <<debug, others, Boot0004, BootOrder, BootCurrent, menu, outer>>
  BY DEF started, machine, store
<1>2. Variables' = Variables /\ Bootable' = Bootable /\ (Listed' <=> Listed)
  BY <1>1 DEF Variables, Bootable, Listed
<1>3. TypeOK'
  <2>1. /\ debug' \in Debug /\ others' \in Others /\ BootOrder' \in Seq(0 .. 4)
        /\ Boot0004' \in {"absent", "other", "ours"}
        /\ menu' \in BOOLEAN /\ outer' \in BOOLEAN
        /\ BootCurrent' \in Bootable' \cup {3}
        /\ unseen' \subseteq Variables' /\ Name' \in Variables' \cup {NoName}
    BY <1>1, <1>2, Zenon DEF IInv, TypeOK
  <2>2. phase' \in {"off", "enumerate", "set_entry", "set_order", "exit", "continue"}
    OBVIOUS
  <2> QED BY <2>1, <2>2, Zenon DEF TypeOK
<1>4. Installed'
  <2>1. phase' # "set_order"
    OBVIOUS
  <2>2. (menu' <=> menu) /\ (outer' <=> outer)
    BY <1>1 DEF IInv, TypeOK
  <2> QED BY <1>1, <1>2, <2>1, <2>2 DEF IInv, Installed
<1>5. Decided'
  <2>1. (debug' <=> debug) /\ (outer' <=> outer)
    BY <1>1 DEF IInv, TypeOK
  <2> QED BY <1>1, <2>1 DEF Decided
<1> QED BY <1>3, <1>4, <1>5 DEF IInv

\* Every step keeps the invariant.
LEMMA NextIInv == IInv /\ [Next]_vars => IInv'
<1> SUFFICES ASSUME IInv, [Next]_vars PROVE IInv'
  OBVIOUS
<1> USE BootVariablesAssumption
<1>0. /\ detours \in 0 .. MaxDetours /\ BootOrder \in Seq(0 .. 4)
      /\ unseen \subseteq Variables /\ Name \in Variables \cup {NoName}
      /\ Boot0004Exists \in BOOLEAN
  BY DEF IInv, TypeOK
<1>1. CASE PowerOn
  <2>1. menu' \in BOOLEAN /\ detours' \in 0 .. MaxDetours
    BY <1>0, <1>1, Zenon DEF PowerOn
  <2>2. BootCurrent' \in Bootable /\ (BootCurrent' = 4 => menu' \/ Listed)
    BY <1>0, <1>1, FirmwareStarts DEF PowerOn
  <2> QED BY <1>1, <2>1, <2>2, StartIInv DEF PowerOn
<1>2. CASE BootMenu
  <2>1. menu' \in BOOLEAN /\ menu'
    BY <1>2, Zenon DEF BootMenu
  <2>2. detours' \in 0 .. MaxDetours
    BY <1>0, <1>2 DEF BootMenu
  <2> QED BY <1>2, <2>1, <2>2, StartIInv DEF BootMenu
<1>3. CASE Crash
  <2>1. detours' \in 0 .. MaxDetours
    BY <1>0, <1>3 DEF Crash
  <2> QED BY <1>0, <1>3, <2>1, QuietIInv DEF Crash, listing
<1>4. CASE NextVariable
  <2>1. PICK n \in unseen :
          /\ unseen' = unseen \ {n}
          /\ Name' = n
          /\ Boot0004Exists' = (Boot0004Exists \/ n.id = "Boot0004")
          /\ phase' = IF n.fits THEN "enumerate" ELSE "exit"
    BY <1>4 DEF NextVariable
  <2>2. unseen' \subseteq Variables /\ Name' \in Variables \cup {NoName}
    BY <1>0, <2>1
  <2>3. Boot0004Exists' \in BOOLEAN
    BY <2>1, Zenon
  <2>4. phase' \in {"off", "enumerate", "set_entry", "exit", "continue"}
        /\ phase' # "continue"
    BY <2>1
  <2> QED BY <1>0, <1>4, <2>2, <2>3, <2>4, QuietIInv DEF NextVariable
<1>5. CASE Enumerated
  <2>1. phase' \in {"off", "enumerate", "set_entry", "exit", "continue"}
    BY <1>5 DEF Enumerated
  <2>2. phase' = "continue" => (BootCurrent = 4 \/ ~outer) /\ (debug => outer)
    BY <1>5 DEF Enumerated, NeedsInstall
  <2> QED BY <1>0, <1>5, <2>1, <2>2, QuietIInv DEF Enumerated, listing
<1>6. CASE SetEntry
  <2>1. /\ UNCHANGED <<debug, others, BootOrder, BootCurrent, menu, outer, unseen, Name,
                       Boot0004Exists, detours>>
        /\ Boot0004' = "ours" /\ phase' = "set_order"
    BY <1>6 DEF SetEntry, started, machine, listing
  <2>2. Variables \subseteq Variables' /\ Bootable \subseteq Bootable' /\ (Listed' <=> Listed)
    BY <2>1, VariablesGrow DEF Listed
  <2>3. TypeOK'
    <3>1. /\ debug' \in Debug /\ others' \in Others /\ BootOrder' \in Seq(0 .. 4)
          /\ menu' \in BOOLEAN /\ outer' \in BOOLEAN /\ Boot0004Exists' \in BOOLEAN
          /\ detours' \in 0 .. MaxDetours
      BY <2>1, Zenon DEF IInv, TypeOK
    <3>2. /\ BootCurrent' \in Bootable' \cup {3}
          /\ unseen' \subseteq Variables' /\ Name' \in Variables' \cup {NoName}
      BY <2>1, <2>2 DEF IInv, TypeOK
    <3>3. /\ phase' \in {"off", "enumerate", "set_entry", "set_order", "exit", "continue"}
          /\ Boot0004' \in {"absent", "other", "ours"}
      BY <2>1
    <3> QED BY <3>1, <3>2, <3>3, Zenon DEF TypeOK
  <2>4. Installed'
    BY <2>1, <2>2, Zenon DEF IInv, Installed
  <2>5. Decided'
    BY <2>1 DEF Decided
  <2> QED BY <2>3, <2>4, <2>5 DEF IInv
<1>7. CASE SetOrder
  <2>1. /\ UNCHANGED <<debug, others, Boot0004, BootCurrent, menu, detours>>
        /\ BootOrder' = <<0, 4, 3>> /\ outer' = FALSE
        /\ unseen' = Variables /\ Name' = NoName /\ Boot0004Exists' = FALSE
        /\ phase' = "enumerate"
    BY <1>7 DEF SetOrder, Enumerate, started, machine
  <2>2. Variables' = Variables /\ Bootable' = Bootable
    BY <2>1 DEF Variables, Bootable
  <2>3. BootOrder' \in Seq(0 .. 4) /\ 2 \in DOMAIN BootOrder' /\ BootOrder'[2] = 4
    BY <2>1
  <2>4. Listed'
    BY <2>3 DEF Listed
  <2>5. TypeOK'
    <3>1. /\ debug' \in Debug /\ others' \in Others
          /\ Boot0004' \in {"absent", "other", "ours"}
          /\ menu' \in BOOLEAN /\ outer' \in BOOLEAN /\ Boot0004Exists' \in BOOLEAN
          /\ detours' \in 0 .. MaxDetours
          /\ BootCurrent' \in Bootable' \cup {3}
          /\ unseen' \subseteq Variables' /\ Name' \in Variables' \cup {NoName}
      BY <2>1, <2>2, Zenon DEF IInv, TypeOK
    <3>2. phase' \in {"off", "enumerate", "set_entry", "set_order", "exit", "continue"}
      BY <2>1
    <3> QED BY <2>3, <3>1, <3>2, Zenon DEF TypeOK
  <2>6. Boot0004' = "ours"
    BY <1>7, <2>1 DEF SetOrder, IInv, Installed
  <2>7. Installed'
    BY <2>4, <2>6, Zenon DEF Installed
  <2>8. Decided'
    BY <2>1 DEF Decided
  <2> QED BY <2>5, <2>7, <2>8 DEF IInv
<1>8. CASE Reboot \/ Continue
  BY <1>0, <1>8, QuietIInv DEF Reboot, Continue, listing
<1>9. CASE UNCHANGED vars
  <2>1. UNCHANGED <<phase, debug, others, Boot0004, BootOrder, BootCurrent, menu, outer, unseen,
                    Name, Boot0004Exists, detours>>
    BY <1>9 DEF vars
  <2>2. Variables' = Variables /\ Bootable' = Bootable /\ (Listed' <=> Listed)
    BY <2>1 DEF Variables, Bootable, Listed
  <2>3. TypeOK'
    BY <2>1, <2>2, Zenon DEF IInv, TypeOK
  <2>4. Installed' /\ Decided'
    BY <2>1, <2>2, Zenon DEF IInv, Installed, Decided
  <2> QED BY <2>3, <2>4 DEF IInv
<1> QED
  BY <1>1, <1>2, <1>3, <1>4, <1>5, <1>6, <1>7, <1>8, <1>9 DEF Next
-----------------------------------------------------------------------------
\* The invariant holds for every set of variables, build and number of detours
\* (enumerate_efi_vars and set_boot_variables of efi/efivars.c).
THEOREM BootInvariant == Spec => []IInv
  BY InitIInv, NextIInv, PTL DEF Spec

\* Whenever efi_main goes on with the boot sequence the entry Boot0004 is the
\* loader's and, unless the user chose it from the menu, the boot order names
\* it: an installation that was interrupted at any point has been noticed.
THEOREM BootCrashHealed == Spec => []CrashHealed
<1>1. IInv => CrashHealed
  BY DEF IInv, Installed, Decided, CrashHealed, Listed
<1> QED BY <1>1, BootInvariant, PTL

\* A debug build runs the boot sequence only when it was started through its
\* own entry.
THEOREM BootDebugDirect == Spec => []DebugBootsDirect
<1>1. IInv => DebugBootsDirect
  BY DEF IInv, Decided, DebugBootsDirect
<1> QED BY <1>1, BootInvariant, PTL

\* Of the two SetVariable calls the one for the entry is always the first: the
\* boot order never comes to name an entry 4 that is not the loader's.
THEOREM BootEntryBeforeOrder == Spec => EntryBeforeOrder
<1> DEFINE A == (BootOrder' # BootOrder /\ \E k \in DOMAIN BootOrder' : BootOrder'[k] = 4)
                   => Boot0004' = "ours"
<1>1. ASSUME IInv, [Next]_vars PROVE [A]_vars
  <2>1. CASE SetOrder
    BY <1>1, <2>1 DEF SetOrder, IInv, Installed
  <2>2. CASE UNCHANGED vars
    BY <2>2
  <2>3. CASE Next /\ ~SetOrder
    BY <2>3 DEF Next, PowerOn, BootMenu, Crash, NextVariable, Enumerated, SetEntry, Reboot,
                Continue, store
  <2> QED BY <1>1, <2>1, <2>2, <2>3
<1> QED BY <1>1, BootInvariant, PTL DEF Spec, EntryBeforeOrder
=============================================================================
