------------------------------ MODULE Strings ------------------------------
(***************************************************************************)
(* The memory and string functions of lib/string.c, and StartsWith of      *)
(* efi/efivars.c, which is of the same kind.  A call works on a small      *)
(* memory of bytes, one iteration of its loop at a time; a size_t has      *)
(* SIZE_T values.  The calls are those the C standard allows: what they    *)
(* read and write exists, strings end, and only memmove's areas overlap.   *)
(***************************************************************************)
EXTENDS Integers, FiniteSetsExt

CONSTANTS
    Byte,       \* the values of a byte that occur, 0 .. 255
    Fill,       \* the int arguments of memset
    MemSize,    \* bytes of memory
    SIZE_T      \* size_t wraps at this value, above the sizes that occur

VARIABLES
    call,   \* function, arguments p, q (dst and src, s1 and s2, String and
            \* Prefix), n and c, and the memory it was called on
    mem,    \* the memory
    i,      \* how far the pointers have moved
    n,      \* the count, as it is decremented
    pc,     \* the loop it is in, "done", or "fault" outside the memory
    ret     \* what it returned

vars == <<call, mem, i, n, pc, ret>>
p == call.p
q == call.q

Addr == 0 .. MemSize - 1
Area(a, k) == a .. a + k - 1

\* strlen(s): the first NUL.
strlen(m, s) == Min({k \in 0 .. MemSize - 1 - s : m[s + k] = 0})

\* The arguments for which C defines what a function does.
Allowed(c) ==
    LET Ends(a) == \E b \in Addr : b >= a /\ c.mem[b] = 0
        Dst == Area(c.p, c.n) \subseteq Addr
        Src == Area(c.q, c.n) \subseteq Addr
        Apart == Area(c.q, strlen(c.mem, c.q) + 1) \cap Area(c.p, c.n) = {}
    IN  CASE c.fn = "memset" -> c.q = 0 /\ Dst
          [] c.fn \in {"memmove", "memcmp"} -> c.c = 0 /\ Dst /\ Src
          [] c.fn \in {"strncpy", "safestrcpy"} -> c.c = 0 /\ Dst /\ Ends(c.q) /\ Apart
          [] c.fn = "strncmp" -> c.c = 0 /\ Ends(c.p) /\ Ends(c.q)
          [] OTHER -> c.c = 0 /\ c.n = 0 /\ Ends(c.p) /\ Ends(c.q)

Functions == {"memset", "memcmp", "memmove", "strncmp", "strcmp", "strncpy",
              "safestrcpy", "StartsWith"}
Calls == {c \in [fn : Functions, p : Addr, q : Addr, n : 0 .. MemSize, c : Fill,
                 mem : [Addr -> Byte]] : Allowed(c)}

Init ==
    /\ call \in Calls
    /\ mem = call.mem /\ i = 0 /\ n = call.n
    /\ pc = call.fn /\ ret = 0
-----------------------------------------------------------------------------
Return(v) == pc' = "done" /\ ret' = v /\ UNCHANGED <<call, mem, i>>

\* Mutant: the pointers stay.
Advance_Stays == UNCHANGED <<call, i, ret>>

Advance == i' = i + 1 /\ UNCHANGED <<call, ret>>

\* The test n-- > 0 decrements n also when it fails.
Decrement == n' = (n - 1) % SIZE_T

\* rep stosb and rep stosl: cnt units of size bytes at addr.
Stos(addr, unit, size, cnt) ==
    [a \in Addr |-> IF a \in Area(addr, size * cnt) THEN unit[(a - addr) % size] ELSE mem[a]]

memset ==
    /\ pc = "memset" /\ pc' = "done" /\ ret' = p
    /\ mem' = IF p % 4 = 0 /\ n % 4 = 0
              THEN Stos(p, [k \in 0 .. 3 |-> call.c % 256], 4, n \div 4)
              ELSE Stos(p, [k \in {0} |-> call.c % 256], 1, n)
    /\ UNCHANGED <<call, i, n>>

AsUnsigned(b) == b % 256

ReturnDifference == Return(AsUnsigned(mem[p + i]) - AsUnsigned(mem[q + i]))

memcmp ==
    /\ pc = "memcmp" /\ Decrement
    /\ \/ n > 0 /\ mem[p + i] # mem[q + i] /\ ReturnDifference
       \/ n > 0 /\ mem[p + i] = mem[q + i] /\ Advance /\ UNCHANGED <<mem, pc>>
       \/ n = 0 /\ Return(0)

\* Mutant: the copy always runs upwards.
Backward_Never == FALSE

\* src lies below dst and reaches into it: the copy starts at the end.
Backward == q < p /\ q + call.n > p

\* memcpy is memmove.
memmove ==
    /\ pc = "memmove" /\ Decrement
    /\ \/ /\ n > 0
          /\ LET k == IF Backward THEN call.n - 1 - i ELSE i
             IN  mem' = [mem EXCEPT ![p + k] = mem[q + k]]
          /\ Advance /\ UNCHANGED pc
       \/ n = 0 /\ Return(p)

strncmp ==
    /\ pc = "strncmp"
    /\ LET same == mem[p + i] # 0 /\ mem[p + i] = mem[q + i]
       IN  \/ n > 0 /\ same /\ n' = n - 1 /\ Advance /\ UNCHANGED <<mem, pc>>
           \/ n > 0 /\ ~same /\ ReturnDifference /\ UNCHANGED n
           \/ n = 0 /\ Return(0) /\ UNCHANGED n

\* p_len and q_len are both strlen(p).
strcmp ==
    /\ pc = "strcmp" /\ pc' = "strncmp"
    /\ n' = strlen(mem, p) + 1
    /\ UNCHANGED <<call, mem, i, ret>>

\* *dst++ = v, which outside the memory ends the model, and on to the next loop.
Store(v, next) ==
    IF p + i \in Addr
    THEN mem' = [mem EXCEPT ![p + i] = v] /\ pc' = next
    ELSE pc' = "fault" /\ UNCHANGED mem

\* *dst++ = *src++, until a NUL is copied.
CopyChar(loop, next) ==
    Store(mem[q + i], IF mem[q + i] # 0 THEN loop ELSE next) /\ Advance

strncpy ==
    /\ pc = "strncpy" /\ Decrement
    /\ \/ n > 0 /\ CopyChar("strncpy", "padding")
       \/ n = 0 /\ pc' = "padding" /\ UNCHANGED <<call, mem, i, ret>>

padding ==
    /\ pc = "padding" /\ Decrement
    /\ \/ n > 0 /\ Store(0, "padding") /\ Advance
       \/ n = 0 /\ Return(p)

\* while (--n > 0 ...): the last byte is kept for the NUL.
safestrcpy ==
    /\ pc = "safestrcpy"
    /\ \/ n = 0 /\ Return(p) /\ UNCHANGED n
       \/ n > 1 /\ n' = n - 1 /\ CopyChar("safestrcpy", "terminate")
       \/ n = 1 /\ n' = 0 /\ pc' = "terminate" /\ UNCHANGED <<call, mem, i, ret>>

terminate ==
    /\ pc = "terminate" /\ Store(0, "done")
    /\ ret' = p /\ UNCHANGED <<call, i, n>>

\* Reads a character of String, then, unless that was the end, one of Prefix.
StartsWith ==
    /\ pc = "StartsWith" /\ UNCHANGED n
    /\ LET cs == mem[p + i]
           cp == IF cs # 0 THEN mem[q + i] ELSE IF i = 0 THEN 0 ELSE mem[q + i - 1]
       IN  \/ cs # 0 /\ cp = cs /\ Advance /\ UNCHANGED <<mem, pc>>
           \/ cs # 0 /\ cp \notin {0, cs} /\ Return(0)
           \/ (cs = 0 \/ cp = 0) /\ Return(IF cp = 0 THEN 1 ELSE 0)

Next == memset \/ memcmp \/ memmove \/ strncmp \/ strcmp \/ strncpy \/ padding
        \/ safestrcpy \/ terminate \/ StartsWith

Spec == Init /\ [][Next]_vars
-----------------------------------------------------------------------------
\* strncpy is given a source of n or more characters.
Truncates == call.fn = "strncpy" /\ strlen(call.mem, q) >= call.n

OutsideUntouched ==
    \A a \in Addr : mem[a] # call.mem[a] =>
        a \in Area(p, call.n) /\ call.fn \in {"memset", "memmove", "strncpy", "safestrcpy"}

\* At every iteration no function has written a byte outside the n bytes it
\* was given (memset's four-byte stores, safestrcpy's final NUL, strncpy's
\* padding) nor left the memory.  strncpy with a long source is
\* StrncpyStopsAtN's.
WritesOnlyDst == ~Truncates => pc # "fault" /\ OutsideUntouched

Copied(k) == \A j \in 0 .. k - 1 : mem[p + j] = call.mem[q + j]

\* What the copying functions leave in dst: memmove the old bytes of src
\* even when the areas overlap, memset c converted to a byte, strncpy the
\* string padded with NULs, safestrcpy as much of it as fits and one NUL.
CopiesExact ==
    pc = "done" =>
        LET len == strlen(call.mem, q)
            fits == Min({len, call.n - 1})
        IN  CASE call.fn = "memmove" -> Copied(call.n)
              [] call.fn = "memset" -> \A a \in Area(p, call.n) : mem[a] = call.c % 256
              [] call.fn = "strncpy" /\ ~Truncates ->
                    Copied(len) /\ \A a \in Area(p, call.n) : a >= p + len => mem[a] = 0
              [] call.fn = "safestrcpy" /\ call.n > 0 -> Copied(fits) /\ mem[p + fits] = 0
              [] OTHER -> TRUE

\* The positions before k where the arguments differ.
Differ(k) == {j \in 0 .. k - 1 : call.mem[p + j] # call.mem[q + j]}
Difference(k) ==
    IF Differ(k) = {} THEN 0
    ELSE LET j == Min(Differ(k)) IN call.mem[p + j] - call.mem[q + j]

\* "test if String starts with Prefix": what StartsWith is for, and the calls on
\* which it does otherwise.  A string does not start with itself, and the empty
\* one starts with everything: at the end of String, cp is still the character
\* before, or 0.
LenString == strlen(call.mem, p)
LenPrefix == strlen(call.mem, q)
IsPrefix == LenPrefix <= LenString /\ Differ(LenPrefix) = {}
Deviates ==
    \/ LenString = 0 /\ LenPrefix > 0
    \/ LenString > 0 /\ LenPrefix = LenString /\ IsPrefix

\* The comparisons return the difference, as unsigned characters, of the
\* first bytes that differ, looking no further than n bytes or the shorter
\* string's NUL.  strcmp too, although it takes strlen(p) for both lengths.
\* StartsWith tests for a prefix, whatever it read last, but for Deviates.
ComparesUnsigned ==
    pc = "done" =>
        LET upto == Min({strlen(call.mem, p), strlen(call.mem, q)}) + 1
        IN  CASE call.fn = "memcmp" -> ret = Difference(call.n)
              [] call.fn = "strncmp" -> ret = Difference(Min({call.n, upto}))
              [] call.fn = "strcmp" -> ret = Difference(upto)
              [] call.fn = "StartsWith" -> ~Deviates => (ret = 1 <=> IsPrefix)
              [] OTHER -> TRUE

\* strncpy writes at most n characters.
StrncpyStopsAtN == call.fn = "strncpy" => pc # "fault" /\ OutsideUntouched
=============================================================================
