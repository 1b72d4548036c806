----------------------------- MODULE PutNumber -----------------------------
(***************************************************************************)
(* put_int, put_unsigned, put_hex and put_ul_hex of lib/generic_printf.c,  *)
(* digit by digit.  long long has Bits bits and the buffer room for        *)
(* MemSize characters with the NUL, as 64 bits go with char mem[21]; the   *)
(* argument of a hex conversion has HexDigits digits.                      *)
(***************************************************************************)
EXTENDS Integers, Sequences

CONSTANTS Bits, MemSize, HexDigits

VARIABLES
    call,   \* the function and its argument
    n,      \* what is left of the argument
    text,   \* the characters from *stack on
    out     \* what was passed to write

vars == <<call, n, text, out>>

\* C's division rounds towards zero, and its remainder has n's sign.
Quotient(a, base) == IF a < 0 THEN -((-a) \div base) ELSE a \div base
Remainder(a, base) == a - base * Quotient(a, base)

\* The table reads the same from its middle to both ends.
digits == <<"f", "e", "d", "c", "b", "a", "9", "8", "7", "6", "5", "4", "3", "2", "1",
            "0", "1", "2", "3", "4", "5", "6", "7", "8", "9", "a", "b", "c", "d", "e", "f">>

\* Mutant: the remainder of a negative number is taken to be positive.
GET_DIGIT_Positive(a, base) == digits[(a % base) + 16]

GET_DIGIT(a, base) == digits[Remainder(a, base) + 16]

\* The characters the buffer has room for, below its NUL.
Room(fn) == IF fn = "put_hex" THEN HexDigits + 2 ELSE MemSize - 1

Base(fn) == IF fn = "put_hex" THEN 16 ELSE 10

Calls ==
    [fn : {"put_int"}, n : -(2^(Bits - 1)) .. 2^(Bits - 1) - 1]
    \cup [fn : {"put_unsigned"}, n : 0 .. 2^Bits - 1]
    \cup [fn : {"put_hex"}, n : 0 .. 16^HexDigits - 1]

Init == call \in Calls /\ n = call.n /\ text = << >> /\ out = << >>

\* do { *--stack = GET_DIGIT(n, base); } while (n /= base): one iteration.
PutDigit ==
    /\ out = << >> /\ (text = << >> \/ n # 0)
    /\ text' = <<GET_DIGIT(n, Base(call.fn))>> \o text
    /\ n' = Quotient(n, Base(call.fn))
    /\ UNCHANGED <<call, out>>

\* What the buffer of a hex conversion holds before the digits.
Zeros(k) == [j \in 1 .. k |-> IF j = 2 THEN "x" ELSE "0"]

Write ==
    /\ out = << >> /\ text # << >> /\ n = 0
    /\ text' = CASE call.fn = "put_int" /\ call.n < 0 -> <<"-">> \o text
                 [] call.fn = "put_hex" -> Zeros(Room("put_hex") - Len(text)) \o text
                 [] OTHER -> text
    /\ out' = text'
    /\ UNCHANGED <<call, n>>

Next == PutDigit \/ Write

Spec == Init /\ [][Next]_vars
-----------------------------------------------------------------------------
\* Nothing is written below the buffer: "it's at most 20 characters long"
\* holds of the smallest signed number with its sign and of the largest
\* unsigned one, and no hex number reaches its 0x.
InsideBuffer ==
    /\ Len(text) <= Room(call.fn)
    /\ call.fn = "put_hex" /\ out = << >> => Len(text) <= HexDigits

\* The number that the characters of s from k on denote.
Denotes(s, k, base) ==
    LET digit(c) == CHOOSE v \in 0 .. 15 : digits[v + 16] = c
        val[j \in (k - 1) .. Len(s)] ==
            IF j = k - 1 THEN 0 ELSE base * val[j - 1] + digit(s[j])
    IN  val[Len(s)]

\* What is printed denotes the argument, the smallest signed number
\* included, in its shortest form or, in hex, in full width after 0x.
PrintsValue ==
    out # << >> =>
        CASE call.fn = "put_hex" -> /\ Len(out) = HexDigits + 2
                                    /\ out[1] = "0" /\ out[2] = "x"
                                    /\ Denotes(out, 3, 16) = call.n
          [] call.fn # "put_hex" /\ call.n >= 0 ->
                Denotes(out, 1, 10) = call.n /\ (out[1] = "0" => Len(out) = 1)
          [] call.fn # "put_hex" /\ call.n < 0 ->
                out[1] = "-" /\ out[2] # "0" /\ Denotes(out, 2, 10) = -call.n
=============================================================================
