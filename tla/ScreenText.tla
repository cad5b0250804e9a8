----------------------------- MODULE ScreenText -----------------------------
(***************************************************************************)
(* What console_putc (ksrc/printk.c) leaves on the screen when its calls   *)
(* are not interrupted (all of the output before sti), compared with the   *)
(* text that was printed.  The text memory starts with whatever the        *)
(* firmware and the boot loader displayed.                                 *)
(***************************************************************************)
EXTENDS ConsoleGeometry, Sequences

CONSTANT Chars  \* the printable characters

Newline == "newline"
Old     == "old"    \* what was on the screen before the kernel
Blank   == "blank"  \* a cell filled by memset

VARIABLES
    cursor,  \* row and column of console_putc
    video,   \* the text memory
    text,    \* the rows printed and still displayed, the current one last
    shifted  \* the screen has scrolled at least once

textVars == <<cursor, video, text, shifted>>

TextInit ==
    /\ cursor = Home
    /\ video = [i \in Cells |-> Old]
    /\ text = << <<>> >>
    /\ shifted = FALSE

\* The same with the last cell first.
MemcpyDown(v, dst, src, n) ==
    LET copy[k \in 0 .. n] ==
          IF k = 0 THEN v ELSE [copy[k - 1] EXCEPT ![dst + n - k] = copy[k - 1][src + n - k]]
    IN  copy[n]

\* memcpy of klib, one cell after the other from the first on: source and
\* destination may overlap.
Memcpy(v, dst, src, n) ==
    LET copy[k \in 0 .. n] ==
          IF k = 0 THEN v ELSE [copy[k - 1] EXCEPT ![dst + k - 1] = copy[k - 1][src + k - 1]]
    IN  copy[n]

MemsetHalf(v, dst, c, n) == [i \in Cells |-> IF i \in dst .. dst + n \div 2 - 1 THEN c ELSE v[i]]

\* memset of klib.
Memset(v, dst, c, n) == [i \in Cells |-> IF i \in dst .. dst + n - 1 THEN c ELSE v[i]]

\* Everything from the second row on moves up by one row, within one memory.
ScrollUp(v, s) == Memcpy(v, 0, Columns, ScrollCount(s.row, s.column))

\* At the start of a row: as many cells as precede the row are cleared.
ClearRow(v, s) ==
    IF s.column # 0 THEN v ELSE Memset(v, RowStart(s.row), Blank, RowStart(s.row))

WriteChar(v, s, c) == [v EXCEPT ![RowStart(s.row) + s.column] = c]

\* The rows of text after one more character: a full row is left before the
\* character is looked at, so a newline after it leaves an empty row behind.
\* The topmost row goes when the character finds LastRow + 1 rows above it.
Typed(c) ==
    LET full  == Len(text[Len(text)]) = Columns
        rows  == IF full THEN Append(text, <<>>) ELSE text
        kept  == IF Len(rows) > LastRow + 1 THEN Tail(rows) ELSE rows
        last  == Len(kept)
    IN  IF c = Newline THEN Append(kept, <<>>)
        ELSE [kept EXCEPT ![last] = Append(@, c)]

\* console_putc(c), all of it.
Putc(c) ==
    LET w == IF AtLineEnd(cursor) THEN NextRow(cursor) ELSE cursor
        s == IF BelowLastRow(w) THEN Scrolled ELSE w
        v == IF BelowLastRow(w) THEN ScrollUp(video, w) ELSE video
    IN  /\ IF c = Newline
           THEN /\ cursor' = NextRow(s)
                /\ video' = v
           ELSE /\ cursor' = [s EXCEPT !.column = @ + 1]
                /\ video' = WriteChar(ClearRow(v, s), s, c)
        /\ text' = Typed(c)
        /\ shifted' = (shifted \/ BelowLastRow(w))

TextNext == \E c \in Chars \cup {Newline} : Putc(c)

TextSpec == TextInit /\ [][TextNext]_textVars

-----------------------------------------------------------------------------
\* The screen shows the text: the k-th displayed row starts with exactly the
\* characters printed on it, and the cursor stands behind the last one,
\* through wrapping, newlines on full rows and the scroll that is put off
\* until the next call.
ShowsText ==
    /\ cursor.row = Len(text) - 1
    /\ cursor.column = Len(text[Len(text)])
    /\ \A k \in 1 .. Len(text) : \A j \in 1 .. Len(text[k]) :
          video[RowStart(k - 1) + j - 1] = text[k][j]

RowIsClean(k) ==
    \A j \in Len(text[k]) + 1 .. Columns : video[RowStart(k - 1) + j - 1] = Blank

\* Behind its text a row on which anything was printed is blank: no leftover
\* of an earlier screen, of the row below it or of the cells past the screen
\* is shown.  The very first row is the exception until the first scroll.
PrintedRowsClean ==
    \A k \in 1 .. Len(text) :
        text[k] # <<>> /\ (k > 1 \/ shifted) => RowIsClean(k)
=============================================================================
