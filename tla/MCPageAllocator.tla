-------------------------- MODULE MCPageAllocator --------------------------
(***************************************************************************)
(* Three pages of two words; clients write a null word, a stale pointer to *)
(* the first frame and a present page-table entry.                         *)
(***************************************************************************)
EXTENDS PageAllocator

MCScribble == {Zero, Pointer(8), Pte(1, TRUE)}
=============================================================================
