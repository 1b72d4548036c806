------------------------------- MODULE Printf -------------------------------
(***************************************************************************)
(* generic_printf of lib/generic_printf.c: the scan of the format, one     *)
(* character at a time.  What a conversion prints is PutNumber's; here it  *)
(* is the conversion's letter and the type its argument was taken with.    *)
(* "-" stands for any character without a meaning of its own.              *)
(***************************************************************************)
EXTENDS Integers, Sequences, SequencesExt

CONSTANT MaxLength      \* bound on the length of a format

Char == {"%", "l", "d", "u", "s", "c", "x", "p", "-"}

VARIABLES
    format,         \* the format
    null,           \* whether its string arguments, if any, are NULL
    first, last,    \* positions in it
    format_mode,
    n_long,
    out,            \* what was written: positions of the format, conversions
    done

vars == <<format, null, first, last, format_mode, n_long, out, done>>

Init ==
    /\ format \in BoundedSeq(Char, MaxLength)
    /\ null \in {b \in BOOLEAN : b => \E k \in DOMAIN format : format[k] = "s"}
    /\ first = 1 /\ last = 1
    /\ format_mode = FALSE
    /\ n_long = 0
    /\ out = << >>
    /\ done = FALSE
-----------------------------------------------------------------------------
Literal(k) == [kind |-> "text", at |-> k, type |-> "char"]
Converted(c, type) == [kind |-> c, at |-> 0, type |-> type]

\* write(first, last - first).
Written == [k \in 1 .. last - first |-> Literal(first + k - 1)]

Scanning == ~done /\ last <= Len(format)
Current == format[last]

\* The second % of %% becomes the start of the text to come.
Percent ==
    /\ Scanning /\ Current = "%"
    /\ format_mode' = ~format_mode
    /\ \/ format_mode /\ first' = last /\ UNCHANGED out
       \/ ~format_mode /\ out' = out \o Written /\ UNCHANGED first
    /\ last' = last + 1
    /\ UNCHANGED <<format, null, n_long, done>>

Text ==
    /\ Scanning /\ Current # "%" /\ ~format_mode
    /\ last' = last + 1
    /\ UNCHANGED <<format, null, first, format_mode, n_long, out, done>>

\* 'l', and the characters that switch (*last) has no case for.
Modifier ==
    /\ Scanning /\ format_mode /\ Current \in {"l", "-"}
    /\ n_long' = IF Current = "l" THEN n_long + 1 ELSE n_long
    /\ first' = last + 1 /\ last' = last + 1
    /\ UNCHANGED <<format, null, format_mode, out, done>>

\* The type given to va_arg.
VaArg(c, longs) ==
    CASE c \in {"d", "u"} ->
            IF longs = 0 THEN "int" ELSE IF longs = 1 THEN "long" ELSE "long long"
      [] c = "x" -> "int"
      [] c = "p" -> "size_t"
      [] c = "c" -> "int"
      [] c = "s" -> "char*"

\* puts prints NULL for a null pointer.
Printed(c, type) == IF c = "s" /\ null THEN Converted("NULL", type) ELSE Converted(c, type)

\* Mutant: n_long is not reset.
Conversion_KeepsLong ==
    /\ Scanning /\ format_mode /\ Current \in {"d", "u", "s", "c", "x", "p"}
    /\ out' = Append(out, Printed(Current, VaArg(Current, n_long)))
    /\ first' = last + 1 /\ last' = last + 1
    /\ format_mode' = FALSE
    /\ UNCHANGED <<format, null, n_long, done>>

Conversion ==
    /\ Scanning /\ format_mode /\ Current \in {"d", "u", "s", "c", "x", "p"}
    /\ out' = Append(out, Printed(Current, VaArg(Current, n_long)))
    /\ first' = last + 1 /\ last' = last + 1
    /\ format_mode' = FALSE /\ n_long' = 0
    /\ UNCHANGED <<format, null, done>>

End ==
    /\ ~done /\ last > Len(format)
    /\ out' = out \o Written
    /\ done' = TRUE
    /\ UNCHANGED <<format, null, first, last, format_mode, n_long>>

Next == Percent \/ Text \/ Modifier \/ Conversion \/ End

Spec == Init /\ [][Next]_vars
-----------------------------------------------------------------------------
\* The type C's printf takes for a conversion with that many l's.
StandardType(c, longs) ==
    IF c \in {"d", "u", "x"}
    THEN CASE longs = 0 -> "int" [] longs = 1 -> "long" [] longs = 2 -> "long long"
    ELSE VaArg(c, 0)

\* The directives of a format from position k on as C's standard defines them:
\* what is printed, or Undefined at one that is not text, %%, or % with an
\* allowed number of l's and a conversion.
Undefined == <<Converted("undefined", "none")>>
Standard ==
    LET rest[k \in 1 .. Len(format) + 1] ==
            LET at(j) == IF j <= Len(format) THEN format[j] ELSE "end"
                longs == IF at(k + 1) # "l" THEN 0 ELSE IF at(k + 2) # "l" THEN 1 ELSE 2
                conv == at(k + longs + 1)
                Then(item, next) ==
                    IF rest[next] = Undefined THEN Undefined ELSE <<item>> \o rest[next]
            IN  IF k > Len(format) THEN << >>
                ELSE IF format[k] # "%" THEN Then(Literal(k), k + 1)
                ELSE IF at(k + 1) = "%" THEN Then(Literal(k + 1), k + 2)
                ELSE IF \/ conv \in {"d", "u", "x"}
                        \/ conv \in {"s", "c", "p"} /\ longs = 0
                THEN Then(Printed(conv, StandardType(conv, longs)), k + longs + 2)
                ELSE Undefined
    IN  rest[1]

\* A %lx or %llx, which the code takes for %x.
LongHex == \E k \in 2 .. Len(format) : format[k] = "x" /\ format[k - 1] = "l"

\* A format that C defines is printed as C defines it: text once and in
\* place, %% as %, and each conversion in its turn with an argument of the
\* type that was passed.  Long hex is left out.
PrintsAsStandard == done /\ ~LongHex /\ Standard # Undefined => out = Standard

\* Whatever the format, first is not past last, so that no length wraps, and
\* text is written in order and at most once, unless the format ends within a
\* directive.
TextOnce ==
    /\ first <= last
    /\ (done => ~format_mode) =>
          \A j, k \in DOMAIN out :
             j < k /\ out[j].kind = "text" /\ out[k].kind = "text" => out[j].at < out[k].at
=============================================================================
