------------------------ MODULE PageAllocatorProofs ------------------------
(***************************************************************************)
(* The page allocator is correct for any number of pages, any base of the  *)
(* physical window and whatever the clients write.                         *)
(***************************************************************************)
EXTENDS PageAllocator, SequenceTheorems, TLAPS

IInv == TypeOK /\ ListIntact

-----------------------------------------------------------------------------
(***************************************************************************)
(* What the operations of the list do to the pages.                        *)
(***************************************************************************)

\* The words the code stores are words.
LEMMA ZeroIsWord == /\ Zero \in Word
                    /\ ZeroPage \in Page
                    /\ 0 \in Index
                    /\ \A a \in Nat : Pointer(a) \in Word
  BY PagingAssumption DEF Zero, Pointer, Word, ZeroPage, Page, Index

\* The pointer to a frame is not NULL and names the frame.
LEMMA PointerToFrame ==
    ASSUME NEW f \in Frame
    PROVE  /\ f \in Nat
           /\ PADDR_BASE + f \in Nat
           /\ PADDR_BASE + f # NULL
           /\ (PADDR_BASE + f) - PADDR_BASE = f
  BY AllocatorAssumption DEF NULL

\* Freeing a page changes its first word and no other page.
LEMMA FreeWritesLink ==
    ASSUME NEW memory \in [Frame -> Page], NEW f \in Frame, NEW head \in Nat
    PROVE  LET m == FreePhysicalPage(memory, PADDR_BASE, PADDR_BASE + f, head)
           IN  /\ m \in [Frame -> Page]
               /\ m[f][0].addr = head
               /\ \A g \in Frame \ {f} : m[g] = memory[g]
  BY PointerToFrame, ZeroIsWord DEF FreePhysicalPage, Page, Word, Pointer

\* Allocating a page changes at most that page.
LEMMA AllocateKeepsOthers ==
    ASSUME NEW memory \in [Frame -> Page], NEW f \in Frame, NEW flags
    PROVE  LET m == AllocatePhysicalPage(memory, PADDR_BASE, PADDR_BASE + f, flags)
           IN  /\ m \in [Frame -> Page]
               /\ \A g \in Frame \ {f} : m[g] = memory[g]
               /\ flags \cap {"APP_ZERO", "APP_PTE"} # {} => m[f] = ZeroPage
  BY PointerToFrame, ZeroIsWord DEF AllocatePhysicalPage, Implied

\* Whatever flags it passed, the caller finds the frame of the page.
LEMMA CallerFindsFrame ==
    ASSUME NEW f \in Frame, NEW flags \in AppFlags
    PROVE  CallersFrame(flags, Returned(PADDR_BASE, PADDR_BASE + f, flags)) = f
  BY PointerToFrame DEF CallersFrame, Returned, Implied, AppFlags

\* A sequence without its last element.
LEMMA DropLast ==
    ASSUME NEW S, NEW s \in Seq(S), Len(s) # 0
    PROVE  /\ SubSeq(s, 1, Len(s) - 1) \in Seq(S)
           /\ Len(SubSeq(s, 1, Len(s) - 1)) = Len(s) - 1
           /\ \A k \in 1 .. Len(s) - 1 : SubSeq(s, 1, Len(s) - 1)[k] = s[k]
<1>1. PICK m : m = Len(s) - 1
  OBVIOUS
<1>2. SubSeq(s, 1, m) \in Seq(S) /\ Len(SubSeq(s, 1, m)) = m
  <2>1. \A k \in 1 .. m : s[k] \in S
    BY <1>1
  <2> QED
    BY <1>1, <2>1
<1>3. \A k \in 1 .. Len(s) - 1 : SubSeq(s, 1, Len(s) - 1)[k] = s[k]
  OBVIOUS
<1> QED
  BY <1>1, <1>2, <1>3
-----------------------------------------------------------------------------
\* With a page on the list, the head is the last page freed.
LEMMA HeadOfList ==
    ASSUME IInv, free_list # NULL
    PROVE  /\ Len(stack) \in Nat \ {0}
           /\ stack[Len(stack)] \in Frame \ held
           /\ free_list = PADDR_BASE + stack[Len(stack)]
           /\ NextFree(mem, PADDR_BASE, free_list) =
                 IF Len(stack) = 1 THEN NULL
                 ELSE PADDR_BASE + stack[Len(stack) - 1]
<1> DEFINE n == Len(stack)
<1>1. n \in Nat \ {0} /\ free_list = PADDR_BASE + stack[n]
  BY LenProperties DEF IInv, TypeOK, ListIntact
<1>2. stack[n] \in Frame \ held
  BY <1>1, ElementOfSeq DEF IInv, TypeOK, ListIntact
<1>3. mem[stack[n]][0].addr = IF n = 1 THEN NULL ELSE PADDR_BASE + stack[n - 1]
  <2>1. \A k \in 1 .. n : mem[stack[k]][0].addr =
                             IF k = 1 THEN NULL ELSE PADDR_BASE + stack[k - 1]
    BY DEF IInv, ListIntact
  <2>2. n \in 1 .. n
    BY <1>1
  <2> HIDE DEF n
  <2> QED
    BY <2>1, <2>2
<1> QED
  BY <1>1, <1>2, <1>3, PointerToFrame DEF NextFree

\* The free list is empty at first.
LEMMA InitEstablishes == Init => IInv
<1> SUFFICES ASSUME Init PROVE IInv
  OBVIOUS
<1>1. TypeOK
  BY ZeroIsWord, EmptySeq DEF Init, TypeOK
<1>2. ListIntact
  <2>1. Len(stack) = 0
    BY EmptySeq DEF Init
  <2> QED
    BY <2>1 DEF Init, ListIntact
<1> QED
  BY <1>1, <1>2 DEF IInv

\* free_page links the page in front of the list.
LEMMA FreePreserves == ASSUME IInv, NEW f \in Frame, Free(f) PROVE IInv'
<1> DEFINE n == Len(stack)
<1>1. free_list \in Nat
  BY PointerToFrame DEF IInv, TypeOK, NULL
<1>2. /\ mem' \in [Frame -> Page]
      /\ mem'[f][0].addr = free_list
      /\ \A g \in Frame \ {f} : mem'[g] = mem[g]
  BY <1>1, FreeWritesLink DEF Free, IInv, TypeOK
<1>3. /\ stack' \in Seq(Frame) /\ Len(stack') = n + 1 /\ stack'[n + 1] = f
      /\ \A k \in 1 .. n : stack'[k] = stack[k]
      /\ n \in Nat
      /\ \A k \in 1 .. n : stack[k] \in Frame
  BY AppendProperties, LenProperties, ElementOfSeq DEF Free, IInv, TypeOK
<1>4. TypeOK'
  BY <1>2, <1>3 DEF Free, IInv, TypeOK
<1>5. \A k \in 1 .. n : stack[k] # f /\ stack[k] \in Frame \ {f}
  BY <1>3 DEF Free, IInv, ListIntact
<1>6. ListIntact'
  <2>1. free_list' = PADDR_BASE + stack'[Len(stack')] /\ Len(stack') # 0
    BY <1>3 DEF Free
  <2>2. \A k \in 1 .. Len(stack') :
           mem'[stack'[k]][0].addr =
              IF k = 1 THEN NULL ELSE PADDR_BASE + stack'[k - 1]
    <3> SUFFICES ASSUME NEW k \in 1 .. n + 1
                 PROVE  mem'[stack'[k]][0].addr =
                           IF k = 1 THEN NULL ELSE PADDR_BASE + stack'[k - 1]
      BY <1>3
    <3>1. CASE k = n + 1
      <4>1. mem'[stack'[k]][0].addr = free_list
        BY <3>1, <1>2, <1>3
      <4>2. free_list = IF n = 0 THEN NULL ELSE PADDR_BASE + stack[n]
        BY DEF IInv, ListIntact
      <4> QED
        BY <3>1, <4>1, <4>2, <1>3
    <3>2. CASE k \in 1 .. n
      <4>1. mem'[stack'[k]] = mem[stack[k]]
        BY <3>2, <1>2, <1>3, <1>5
      <4>2. mem[stack[k]][0].addr =
               IF k = 1 THEN NULL ELSE PADDR_BASE + stack[k - 1]
        BY <3>2 DEF IInv, ListIntact
      <4>3. k # 1 => stack'[k - 1] = stack[k - 1]
        BY <3>2, <1>3
      <4> QED
        BY <4>1, <4>2, <4>3
    <3> QED
      BY <3>1, <3>2, <1>3
  <2>3. \A j, k \in 1 .. Len(stack') : stack'[j] = stack'[k] => j = k
    BY <1>3, <1>5 DEF IInv, ListIntact
  <2>4. {stack'[k] : k \in 1 .. Len(stack')} = Frame \ held'
    <3>1. {stack'[k] : k \in 1 .. Len(stack')} = {stack[k] : k \in 1 .. n} \cup {f}
      BY <1>3
    <3>2. {stack[k] : k \in 1 .. n} = Frame \ held
      BY DEF IInv, ListIntact
    <3> QED
      BY <3>1, <3>2 DEF Free
  <2> QED
    BY <2>1, <2>2, <2>3, <2>4 DEF ListIntact
<1> QED
  BY <1>4, <1>6 DEF IInv

\* allocate_page takes the first page and leaves the rest linked.
LEMMA AllocatePreserves ==
    ASSUME IInv, NEW flags \in AppFlags, Allocate(flags) PROVE IInv'
<1> DEFINE n == Len(stack)
           f == stack[n]
<1>1. /\ n \in Nat \ {0} /\ f \in Frame \ held
      /\ free_list = PADDR_BASE + f
      /\ free_list' = IF n = 1 THEN NULL ELSE PADDR_BASE + stack[n - 1]
  BY HeadOfList DEF Allocate
<1>2. /\ mem' \in [Frame -> Page]
      /\ \A g \in Frame \ {f} : mem'[g] = mem[g]
  BY <1>1, AllocateKeepsOthers DEF Allocate, IInv, TypeOK
<1>3. held' = held \cup {f}
  BY <1>1, CallerFindsFrame DEF Allocate
<1>4. /\ stack' \in Seq(Frame) /\ Len(stack') = n - 1
      /\ \A k \in 1 .. n - 1 : stack'[k] = stack[k]
      /\ \A k \in 1 .. n : stack[k] \in Frame
  <2>1. stack \in Seq(Frame) /\ stack' = SubSeq(stack, 1, n - 1)
    BY DEF Allocate, IInv, TypeOK
  <2>2. \A k \in 1 .. n : stack[k] \in Frame
    BY <2>1, ElementOfSeq
  <2> QED
    BY <1>1, <2>1, <2>2, DropLast
<1>5. \A j, k \in 1 .. n : stack[j] = stack[k] => j = k
  BY DEF IInv, ListIntact
<1>6. \A k \in 1 .. n - 1 : stack[k] \in Frame \ {f}
  BY <1>1, <1>4, <1>5
<1>7. TypeOK'
  BY <1>1, <1>2, <1>3, <1>4 DEF Allocate, IInv, TypeOK
<1>8. ListIntact'
  <2>1. free_list' = IF Len(stack') = 0 THEN NULL
                     ELSE PADDR_BASE + stack'[Len(stack')]
    BY <1>1, <1>4
  <2>2. \A k \in 1 .. Len(stack') :
           mem'[stack'[k]][0].addr =
              IF k = 1 THEN NULL ELSE PADDR_BASE + stack'[k - 1]
    <3> SUFFICES ASSUME NEW k \in 1 .. n - 1
                 PROVE  mem'[stack'[k]][0].addr =
                           IF k = 1 THEN NULL ELSE PADDR_BASE + stack'[k - 1]
      BY <1>4
    <3>1. mem'[stack'[k]] = mem[stack[k]]
      BY <1>2, <1>4, <1>6
    <3>2. mem[stack[k]][0].addr =
             IF k = 1 THEN NULL ELSE PADDR_BASE + stack[k - 1]
      BY <1>1 DEF IInv, ListIntact
    <3>3. k # 1 => stack'[k - 1] = stack[k - 1]
      BY <1>1, <1>4
    <3> QED
      BY <3>1, <3>2, <3>3
  <2>3. \A j, k \in 1 .. Len(stack') : stack'[j] = stack'[k] => j = k
    BY <1>1, <1>4, <1>5
  <2>4. {stack'[k] : k \in 1 .. Len(stack')} = Frame \ held'
    <3>1. {stack'[k] : k \in 1 .. Len(stack')} = {stack[k] : k \in 1 .. n} \ {f}
      BY <1>1, <1>4, <1>5
    <3>2. {stack[k] : k \in 1 .. n} = Frame \ held
      BY DEF IInv, ListIntact
    <3> QED
      BY <3>1, <3>2, <1>3
  <2> QED
    BY <2>1, <2>2, <2>3, <2>4 DEF ListIntact
<1> QED
  BY <1>7, <1>8 DEF IInv

\* The owner of a page writes to it and to no other.
LEMMA WritePreserves ==
    ASSUME IInv, NEW f \in Frame, NEW i \in Index, NEW w \in Scribble,
           Write(f, i, w)
    PROVE  IInv'
<1>1. mem' \in [Frame -> Page] /\ \A g \in Frame \ {f} : mem'[g] = mem[g]
  BY AllocatorAssumption DEF Write, IInv, TypeOK, Page
<1>2. TypeOK'
  BY <1>1 DEF Write, IInv, TypeOK
<1>3. \A k \in 1 .. Len(stack) : stack[k] \in Frame \ {f}
  BY ElementOfSeq DEF Write, IInv, TypeOK, ListIntact
<1>4. \A k \in 1 .. Len(stack) : mem'[stack[k]] = mem[stack[k]]
  BY <1>1, <1>3
<1>5. ListIntact'
  BY <1>4 DEF Write, IInv, ListIntact
<1> QED
  BY <1>2, <1>5 DEF IInv

\* The inductive step, action by action.
LEMMA NextPreserves == IInv /\ [Next]_vars => IInv'
<1> SUFFICES ASSUME IInv, [Next]_vars PROVE IInv'
  OBVIOUS
<1>1. ASSUME NEW f \in Frame, Free(f) PROVE IInv'
  BY <1>1, FreePreserves
<1>2. ASSUME NEW flags \in AppFlags, Allocate(flags) PROVE IInv'
  BY <1>2, AllocatePreserves
<1>3. CASE AllocateHalts
  BY <1>3 DEF AllocateHalts, IInv, TypeOK, ListIntact
<1>4. ASSUME NEW f \in Frame, NEW i \in Index, NEW w \in Scribble, Write(f, i, w)
      PROVE  IInv'
  BY <1>4, WritePreserves
<1>5. CASE UNCHANGED vars
  BY <1>5 DEF vars, IInv, TypeOK, ListIntact
<1> QED
  BY <1>1, <1>2, <1>3, <1>4, <1>5 DEF Next, Hang

\* The list stays intact and every variable keeps its type, whatever the
\* clients of allocate_physical_page and free_physical_page do with the pages
\* they hold.
THEOREM AllocatorInvariant == Spec => [](TypeOK /\ ListIntact)
<1>1. Init => IInv
  BY InitEstablishes
<1>2. IInv /\ [Next]_vars => IInv'
  BY NextPreserves
<1> QED
  BY <1>1, <1>2, PTL DEF Spec, IInv

\* allocate_physical_page hands out a page nobody holds, cleared when it was
\* asked to be.
THEOREM FreshPages == Spec => HandsOutFreshPages
<1>1. ASSUME IInv, NEW flags \in AppFlags, Allocate(flags)
      PROVE  \E f \in Frame \ held :
                /\ held' = held \cup {f}
                /\ flags \cap {"APP_ZERO", "APP_PTE"} # {} => mem'[f] = ZeroPage
  <2> DEFINE f == stack[Len(stack)]
  <2>1. f \in Frame \ held /\ free_list = PADDR_BASE + f
    BY <1>1, HeadOfList DEF Allocate
  <2>2. held' = held \cup {f}
    BY <1>1, <2>1, CallerFindsFrame DEF Allocate
  <2>3. flags \cap {"APP_ZERO", "APP_PTE"} # {} => mem'[f] = ZeroPage
    BY <1>1, <2>1, AllocateKeepsOthers DEF Allocate, IInv, TypeOK
  <2> QED
    BY <2>1, <2>2, <2>3
<1>2. IInv /\ [Next]_vars =>
         [\A flags \in AppFlags : Allocate(flags) =>
            \E f \in Frame \ held :
               /\ held' = held \cup {f}
               /\ flags \cap {"APP_ZERO", "APP_PTE"} # {} => mem'[f] = ZeroPage]_vars
  BY <1>1
<1> QED
  BY <1>2, AllocatorInvariant, PTL DEF Spec, HandsOutFreshPages, IInv

\* The allocator implements the pool: each of its steps is one of the pool's or
\* changes nothing the pool knows of.
THEOREM AllocatorImplementsPool == Spec => ImplementsPool
<1>1. Init => Pool!Init
  BY DEF Init, Pool!Init
<1>2. IInv /\ [Next]_vars => [Pool!Next]_<<held, halted>>
  <2> SUFFICES ASSUME IInv, [Next]_vars PROVE [Pool!Next]_<<held, halted>>
    OBVIOUS
  <2>1. ASSUME NEW f \in Frame, Free(f) PROVE Pool!Give(f)
    BY <2>1 DEF Free, Pool!Give
  <2>2. ASSUME NEW flags \in AppFlags, Allocate(flags)
        PROVE  \E f \in Frame : Pool!Take(f)
    <3>1. stack[Len(stack)] \in Frame \ held
          /\ free_list = PADDR_BASE + stack[Len(stack)]
      BY <2>2, HeadOfList DEF Allocate
    <3> QED
      BY <2>2, <3>1, CallerFindsFrame DEF Allocate, Pool!Take
  <2>3. CASE AllocateHalts
    <3>1. Len(stack) = 0
      BY <2>3, PointerToFrame, ElementOfSeq, LenProperties
      DEF AllocateHalts, IInv, TypeOK, ListIntact
    <3>2. held = Frame
      <4>1. {stack[k] : k \in 1 .. Len(stack)} = Frame \ held
        BY DEF IInv, ListIntact
      <4>2. {stack[k] : k \in 1 .. Len(stack)} = {}
        BY <3>1
      <4>3. held \subseteq Frame
        BY DEF IInv, TypeOK
      <4> QED
        BY <4>1, <4>2, <4>3
    <3> QED
      BY <2>3, <3>2 DEF AllocateHalts, Pool!Exhausted, Pool!Next
  <2>4. ASSUME NEW f \in Frame, NEW i \in Index, NEW w \in Scribble, Write(f, i, w)
        PROVE  UNCHANGED <<held, halted>>
    BY <2>4 DEF Write
  <2>5. CASE UNCHANGED vars
    BY <2>5 DEF vars
  <2> QED
    BY <2>1, <2>2, <2>3, <2>4, <2>5 DEF Next, Hang, Pool!Next
<1> QED
  BY <1>1, <1>2, AllocatorInvariant, PTL DEF Spec, IInv, ImplementsPool, Pool!Spec
=============================================================================
