------------------------------- MODULE Format -------------------------------
(***************************************************************************)
(* vsprintf (klib/stdio.c) with the number conversions of klib/string.c,   *)
(* as printk calls it: into a buffer that was cleared and whose size is    *)
(* never tested.                                                           *)
(*                                                                         *)
(* Characters are their codes, 0 the terminator.  The arguments are        *)
(* whatever the caller passed: a conversion takes one of a set, and given  *)
(* records it.  Words have Word values instead of 2^32.                    *)
(***************************************************************************)
EXTENDS Integers, Sequences

CONSTANTS
    Word,       \* number of values of uint_t
    Chars,      \* the characters format strings are made of
    MaxFmt,     \* length of the longest format string
    Unsigneds,  \* arguments of %u and %x
    Signeds,    \* arguments of %d
    Strings,    \* arguments of %s
    Widest,     \* the most characters a conversion prints
    Room        \* cells of memory from the start of the buffer on

Percent == 37
Minus   == 45
Zero    == 48
UpperA  == 65

Cells   == 0 .. Room - 1
Formats == UNION {[1 .. n -> Chars] : n \in 0 .. MaxFmt}

ASSUME FormatAssumption ==
    /\ Word \in Nat /\ MaxFmt \in Nat /\ Room \in Nat /\ Widest \in Nat
    /\ Unsigneds \subseteq 0 .. Word - 1
    /\ Signeds \subseteq -(Word \div 2) .. Word \div 2 - 1
    /\ Chars \subseteq Nat \ {0}
    /\ Strings \subseteq Seq(Nat \ {0})

VARIABLES
    fmt,     \* the format string
    pos,     \* index of the next character of fmt
    buf,     \* the buffer, and the memory behind it
    tmp,     \* where the next character goes
    reach,   \* the highest cell written, or -1
    given,   \* the arguments taken so far
    result   \* what vsprintf returned; -1 while it runs

formatVars == <<fmt, pos, buf, tmp, reach, given, result>>

-----------------------------------------------------------------------------
(* klib/string.c: each conversion is a new buffer and a number of characters. *)

\* strlen(b + s)
Strlen(b, s) == (CHOOSE e \in Cells : e >= s /\ b[e] = 0 /\ \A j \in s .. e - 1 : b[j] # 0) - s

TurnsFromOne(n, base) ==
    LET turns[m \in 0 .. n] == IF m = 0 THEN 0 ELSE 1 + turns[m \div base]
    IN  turns[n]

\* The loop "while( num /= base ) offset++": how often it turns.
Turns(n, base) ==
    LET turns[m \in 0 .. n] == IF m \div base = 0 THEN 0 ELSE 1 + turns[m \div base]
    IN  turns[n]

\* num after k turns of "num /= base".
Quotient(n, base, k) ==
    LET num[i \in 0 .. k] == IF i = 0 THEN n ELSE num[i - 1] \div base
    IN  num[k]

\* The character of a digit, as strfromu and strhex compute it.
Digit(d) == IF d < 10 THEN d + Zero ELSE (d - 10) + UpperA

\* strfromu (base 10) and strhex (base 16): the terminator first, behind the
\* place of the last digit, then the digits from the last to the first.
Digits(b, s, n, base) ==
    LET last == s + Turns(n, base)
    IN  [j \in Cells |->
            IF j = last + 1 THEN 0
            ELSE IF j \in s .. last THEN Digit(Quotient(n, base, last - j) % base)
            ELSE b[j]]

Put(b, j, c) == [b EXCEPT ![j] = c]

NegatedSaturated(n) == IF -n >= Word \div 2 THEN Word \div 2 - 1 ELSE -n

\* n *= -1 and the passage from int_t to uint_t.
Negated(n) == (-n) % Word

-----------------------------------------------------------------------------
(* klib/stdio.c.                                                           *)

More == result = -1 /\ pos <= Len(fmt)

IsConversion == fmt[pos] = Percent /\ pos < Len(fmt)

\* The buffer becomes b, tmp advances by n, and top is the last cell written.
Advance(b, n, top) ==
    /\ buf' = b /\ tmp' = tmp + n
    /\ reach' = IF top > reach THEN top ELSE reach

Literal ==
    /\ More /\ ~IsConversion
    /\ Advance(Put(buf, tmp, fmt[pos]), 1, tmp)
    /\ pos' = pos + 1 /\ UNCHANGED <<fmt, given, result>>

Takes(arg) == given' = Append(given, arg) /\ pos' = pos + 2 /\ UNCHANGED <<fmt, result>>

StepBackTwice(b, t) == t - 2

\* if( *tmp == '\0' ) tmp--: the cell behind the terminator decides whether
\* the next character overwrites it.
StepBack(b, t) == IF b[t] = 0 THEN t - 1 ELSE t

\* %s: the argument is copied with its terminator.
FormatS(arg) ==
    LET b == [j \in Cells |->
                 IF j \in tmp .. tmp + Len(arg) - 1 THEN arg[j - tmp + 1]
                 ELSE IF j = tmp + Len(arg) THEN 0 ELSE buf[j]]
    IN  /\ Advance(b, StepBack(b, tmp + Len(arg) + 1) - tmp, tmp + Len(arg))
        /\ Takes(arg)

\* %u and %x.
FormatU(n, base) ==
    LET b == Digits(buf, tmp, n, base)
    IN  Advance(b, Strlen(b, tmp), tmp + Turns(n, base) + 1) /\ Takes(n)

\* %d: a minus sign and the conversion of the negated number.
FormatD(n) ==
    LET neg == IF n < 0 THEN 1 ELSE 0
        m   == IF n < 0 THEN Negated(n) ELSE n
        b   == Digits(IF n < 0 THEN Put(buf, tmp, Minus) ELSE buf, tmp + neg, m, 10)
    IN  Advance(b, neg + Strlen(b, tmp + neg), tmp + neg + Turns(m, 10) + 1) /\ Takes(n)

\* The switch on the character after '%'; any other character, a second '%'
\* too, prints nothing.
Conversion ==
    /\ More /\ IsConversion
    /\ CASE fmt[pos + 1] = 115 -> \E s \in Strings : FormatS(s)
         [] fmt[pos + 1] = 117 -> \E n \in Unsigneds : FormatU(n, 10)
         [] fmt[pos + 1] = 100 -> \E n \in Signeds : FormatD(n)
         [] fmt[pos + 1] = 120 -> \E n \in Unsigneds : FormatU(n, 16)
         [] OTHER -> pos' = pos + 2 /\ UNCHANGED <<fmt, buf, tmp, reach, given, result>>

\* *tmp = '\0'; return (tmp - dst);
Return ==
    /\ result = -1 /\ pos > Len(fmt)
    /\ Advance(Put(buf, tmp, 0), 0, tmp)
    /\ result' = tmp
    /\ UNCHANGED <<fmt, pos, given>>

\* printk's memset of its buffer.
Cleared == [j \in Cells |-> 0]

FormatInit ==
    /\ fmt \in Formats
    /\ pos = 1 /\ buf = Cleared /\ tmp = 0 /\ reach = -1 /\ given = <<>> /\ result = -1

FormatNext == Literal \/ Conversion \/ Return

FormatSpec == FormatInit /\ [][FormatNext]_formatVars

-----------------------------------------------------------------------------
(* What printing means: the reference.                                     *)

Glyphs == <<48, 49, 50, 51, 52, 53, 54, 55, 56, 57, 65, 66, 67, 68, 69, 70>>

Numeral(n, base) ==
    LET num[m \in 0 .. n] == IF m < base THEN <<Glyphs[m + 1]>>
                             ELSE Append(num[m \div base], Glyphs[(m % base) + 1])
    IN  num[n]

Image(c, arg) ==
    CASE c = 115 -> arg
      [] c = 117 -> Numeral(arg, 10)
      [] c = 120 -> Numeral(arg, 16)
      [] c = 100 -> IF arg < 0 THEN <<Minus>> \o Numeral(-arg, 10) ELSE Numeral(arg, 10)

\* The memory modelled holds the longest text and two cells behind it: a bound
\* of the model.  A conversion takes two characters of the format string.
ASSUME RoomAssumption ==
    /\ Widest >= 2 /\ Widest * MaxFmt + 2 < 2 * Room
    /\ \A s \in Strings : Len(Image(115, s)) <= Widest
    /\ \A n \in Unsigneds : Len(Image(117, n)) <= Widest /\ Len(Image(120, n)) <= Widest
    /\ \A n \in Signeds : Len(Image(100, n)) <= Widest

\* The text the format string form and its arguments args stand for, from
\* character k and argument a on.
Text(form, args, k, a) ==
    LET text[q \in Nat \X Nat] ==
          IF q[1] > Len(form) THEN <<>>
          ELSE IF form[q[1]] # Percent \/ q[1] = Len(form)
               THEN <<form[q[1]]>> \o text[<<q[1] + 1, q[2]>>]
          ELSE IF form[q[1] + 1] \in {115, 117, 100, 120}
               THEN Image(form[q[1] + 1], args[q[2]]) \o text[<<q[1] + 2, q[2] + 1>>]
          ELSE text[<<q[1] + 2, q[2]>>]
    IN  text[<<k, a>>]

-----------------------------------------------------------------------------
(* Properties.                                                             *)

\* What console_puts prints from the buffer is the text the format string and
\* its arguments mean, at both ends of the number ranges, and the length
\* vsprintf returns is its length: no conversion leaves a terminator or a
\* digit of its own in the middle.
PrintsText ==
    result # -1 =>
        LET text == Text(fmt, given, 1, 1) IN
        /\ result = Len(text)
        /\ \A j \in 1 .. Len(text) : buf[j - 1] = text[j]
        /\ buf[Len(text)] = 0

\* vsprintf writes the text and its terminator and not one cell more, not even
\* while it converts a number: printk's buffer is left exactly by texts longer
\* than the buffer minus one.
WritesOnlyText == result # -1 => reach = Len(Text(fmt, given, 1, 1))

\* Behind the cursor the buffer stays clear, which is what the step back after
\* %s relies on.
ClearAhead == \A j \in Cells : j >= tmp => buf[j] = 0
=============================================================================
