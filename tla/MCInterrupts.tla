---------------------------- MODULE MCInterrupts ----------------------------
(***************************************************************************)
(* A stack of 64 words, one device, a fault with an error code in          *)
(* kernel_main or one without in main2, and two interrupts besides main2's *)
(* own and the faults.                                                     *)
(***************************************************************************)
EXTENDS Interrupts

MCFaults == {<<"kernel", 14>>, <<"main2", 0>>}
=============================================================================
