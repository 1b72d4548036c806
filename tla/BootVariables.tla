---------------------------- MODULE BootVariables ----------------------------
(***************************************************************************)
(* The loader makes itself bootable: enumerate_efi_vars and                *)
(* set_boot_variables of efi/efivars.c, called by efi_main before the boot *)
(* sequence proper.                                                        *)
(*                                                                         *)
(* The boot entry Boot0004 and the boot order are two non-volatile         *)
(* variables, written one after the other; a power failure, a failing      *)
(* call or the user's choice in the boot menu may come at any time.  The   *)
(* firmware, external, starts the first entry of the boot order that it    *)
(* can: the loader itself through Boot0004, or the UEFI shell (entry 3),   *)
(* from which the user runs the loader.                                    *)
(***************************************************************************)
EXTENDS Integers, Sequences, FiniteSets

CONSTANTS
    Others,         \* sets of variables besides Boot0004, BootOrder and BootCurrent
    Debug,          \* whether the loader is built with _EFI_DEBUG
    MaxDetours      \* bound on crashes, failing calls and menu choices

\* A variable: its name, and whether its value fits in the page that Data is.
Named(id) == [id |-> id, fits |-> TRUE]
Boot0004Name == Named("Boot0004")
OrderName == Named("BootOrder")
CurrentName == Named("BootCurrent")

ASSUME BootVariablesAssumption ==
    /\ \A n \in UNION Others : DOMAIN n = {"id", "fits"}
    /\ Debug \in SUBSET BOOLEAN
    /\ MaxDetours \in Nat

VARIABLES
    phase,              \* where enumerate_efi_vars is, or "off"
    debug, others,      \* the build, and the variables that do not change
    Boot0004,           \* the entry: absent, of something else, or ours
    BootOrder,          \* the boot order
    BootCurrent,        \* the entry that was started
    menu,               \* history: it was started from the boot menu
    outer,              \* BootDevp && DevpSize: not the recursive call
    unseen,             \* the variables not enumerated yet
    Name,               \* the variable enumerated last
    Boot0004Exists,
    detours

vars == <<phase, debug, others, Boot0004, BootOrder, BootCurrent, menu, outer, unseen, Name,
          Boot0004Exists, detours>>
store == <<Boot0004, BootOrder>>
machine == <<debug, others>>
started == <<machine, BootCurrent, menu>>
listing == <<unseen, Name, Boot0004Exists>>

NoName == Named("")
Variables ==
    {OrderName, CurrentName} \cup others
    \cup (IF Boot0004 = "absent" THEN {} ELSE {Boot0004Name})
-----------------------------------------------------------------------------
(***************************************************************************)
(* The firmware.                                                           *)
(***************************************************************************)
\* Entries that lead to the loader: its own, and the shell.
Bootable == {i \in 0 .. 4 : (i = 4 /\ Boot0004 = "ours") \/ i = 3}

\* The entry tried first; the firmware appends entries the order does not list.
FirstBootable ==
    LET order == BootOrder \o <<3>>
        K == {k \in DOMAIN order : order[k] \in Bootable}
    IN  order[CHOOSE k \in K : \A j \in K : k <= j]

Init ==
    /\ phase = "off"
    /\ debug \in Debug /\ others \in Others
    /\ Boot0004 \in {"absent", "other", "ours"}
    /\ BootOrder \in {<<3>>, <<4, 3>>, <<0, 3, 4>>}
    /\ BootCurrent = 3 /\ menu = FALSE
    /\ outer = TRUE
    /\ unseen = {} /\ Name = NoName /\ Boot0004Exists = FALSE
    /\ detours = 0

\* enumerate_efi_vars is called: a cleared name starts the enumeration.
Enumerate ==
    /\ unseen' = Variables /\ Name' = NoName /\ Boot0004Exists' = FALSE
    /\ phase' = "enumerate"

PowerOn ==
    /\ phase = "off"
    /\ BootCurrent' = FirstBootable
    /\ menu' = FALSE
    /\ outer' = TRUE
    /\ Enumerate
    /\ UNCHANGED <<machine, store, detours>>

BootMenu ==
    /\ phase = "off"
    /\ detours < MaxDetours
    /\ detours' = detours + 1
    /\ BootCurrent' \in Bootable
    /\ menu' = TRUE
    /\ outer' = TRUE
    /\ Enumerate
    /\ UNCHANGED <<machine, store>>

\* Power fails, or a call does and EXIT_STATUS ends the loader until the next
\* start.
Crash ==
    /\ phase \notin {"off", "continue"}
    /\ detours < MaxDetours
    /\ detours' = detours + 1
    /\ phase' = "off"
    /\ UNCHANGED <<started, store, outer, listing>>
-----------------------------------------------------------------------------
\* One iteration of the loop: print_next_efi_variable prints the variable, what it
\* takes for a boot entry as an entry.  GetVariable fails when the value is larger
\* than a page, and that ends the loader.
NextVariable ==
    /\ phase = "enumerate"
    /\ \E n \in unseen :
          /\ unseen' = unseen \ {n}
          /\ Name' = n
          /\ Boot0004Exists' = (Boot0004Exists \/ n.id = "Boot0004")
          /\ phase' = IF n.fits THEN "enumerate" ELSE "exit"
    /\ UNCHANGED <<started, store, outer, detours>>

\* Mutants: an entry that exists is taken to be in order; the check of the
\* recursive call is missing.
NeedsInstall_OnlyAbsent == ~Boot0004Exists /\ outer
NeedsInstall_Again == ~Boot0004Exists \/ BootCurrent # 4

NeedsInstall == (~Boot0004Exists \/ BootCurrent # 4) /\ outer

\* The loop ends.  The recursive call returns to the first one, which in a
\* debug build exits.
Enumerated ==
    /\ phase = "enumerate"
    /\ unseen = {}
    /\ phase' = IF NeedsInstall THEN "set_entry"
                ELSE IF ~outer /\ debug THEN "exit" ELSE "continue"
    /\ UNCHANGED <<started, store, outer, listing, detours>>

\* Mutant: the order is written with the entry still missing.
SetEntry_Skips ==
    /\ phase = "set_entry"
    /\ phase' = "set_order"
    /\ UNCHANGED <<started, store, outer, listing, detours>>

\* set_boot_variables writes the entry, then the order, and the variables are
\* read again.
SetEntry ==
    /\ phase = "set_entry"
    /\ Boot0004' = "ours"
    /\ phase' = "set_order"
    /\ UNCHANGED <<started, BootOrder, outer, listing, detours>>

\* Mutant: the shell comes before the loader.
SetOrder_ShellFirst ==
    /\ phase = "set_order"
    /\ BootOrder' = <<0, 3, 4>>
    /\ outer' = FALSE
    /\ Enumerate
    /\ UNCHANGED <<started, Boot0004, detours>>

SetOrder ==
    /\ phase = "set_order"
    /\ BootOrder' = <<0, 4, 3>>
    /\ outer' = FALSE
    /\ Enumerate
    /\ UNCHANGED <<started, Boot0004, detours>>

\* EXIT_STATUS of "installed boot option; reboot", or of GetVariable.
Reboot ==
    /\ phase = "exit"
    /\ phase' = "off"
    /\ UNCHANGED <<started, store, outer, listing, detours>>

\* efi_main goes on with the boot sequence, at whose end the machine is off.
Continue ==
    /\ phase = "continue"
    /\ phase' = "off"
    /\ UNCHANGED <<started, store, outer, listing, detours>>

Next ==
    \/ PowerOn \/ BootMenu \/ Crash \/ NextVariable \/ Enumerated \/ SetEntry
    \/ SetOrder \/ Reboot \/ Continue

\* The loader runs on, and a machine that is off is started again, not always
\* from the menu.
Spec ==
    /\ Init /\ [][Next]_vars
    /\ WF_vars(PowerOn \/ NextVariable \/ Enumerated \/ SetEntry \/ SetOrder \/ Reboot
               \/ Continue)
-----------------------------------------------------------------------------
\* The enumeration meets variables that exist, each at most once, and the boot
\* order holds entry numbers.
TypeOK ==
    /\ phase \in {"off", "enumerate", "set_entry", "set_order", "exit", "continue"}
    /\ debug \in Debug /\ others \in Others
    /\ Boot0004 \in {"absent", "other", "ours"}
    /\ BootOrder \in Seq(0 .. 4)
    /\ BootCurrent \in Bootable \cup {3}
    /\ menu \in BOOLEAN /\ outer \in BOOLEAN
    /\ unseen \subseteq Variables
    /\ Name \in Variables \cup {NoName}
    /\ Boot0004Exists \in BOOLEAN
    /\ detours \in 0 .. MaxDetours

\* Whatever was cut short in earlier runs, when efi_main goes on the machine
\* will start the loader by itself: the condition that decides on installing
\* notices a missing entry, an entry of something else and a boot order that
\* was not written.  (Started from the menu the order may be missing: nothing
\* looks at it then, and EventuallyInstalled says what becomes of it.)
CrashHealed ==
    phase = "continue" =>
       /\ Boot0004 = "ours"
       /\ menu \/ \E k \in DOMAIN BootOrder : BootOrder[k] = 4

\* In a debug build the boot sequence runs only when the loader was started
\* through its own entry, not from the shell.
DebugBootsDirect == phase = "continue" /\ debug => BootCurrent = 4

\* The order of the two SetVariable calls: the boot order never comes to name
\* an entry 4 that is not the loader's.
EntryBeforeOrder ==
    [][(BootOrder' # BootOrder /\ \E k \in DOMAIN BootOrder' : BootOrder'[k] = 4)
          => Boot0004' = "ours"]_vars

Readable == \A n \in others : n.fits

\* However often it is interrupted, reinstalled and rebooted, the loader
\* always gets to the boot sequence again, on a machine without a variable
\* that is larger than a page.
GetsToBoot == Readable => []<>(phase = "continue")

\* Also what nothing looked at on a start from the menu, a boot order that was
\* not written, is put right by the starts that follow: in the end the
\* firmware starts the loader by itself, and that stays so.
EventuallyInstalled == Readable => <>[](Boot0004 = "ours" /\ FirstBootable = 4)
=============================================================================
