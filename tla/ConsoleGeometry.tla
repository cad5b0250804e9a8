--------------------------- MODULE ConsoleGeometry ---------------------------
(***************************************************************************)
(* The arithmetic of console_putc (ksrc/printk.c): the cursor kept in the  *)
(* function's static variables row and column, the tests on it, and the    *)
(* ranges of video cells that memcpy and memset are given.                 *)
(***************************************************************************)
EXTENDS Integers

CONSTANTS
    Columns,  \* bda_VideoControl1->NumberOfColumns
    LastRow,  \* bda_VideoControl2->NumberOfRows: the number of rows minus one
    Window    \* cells of text memory from 0xB8000 on (16384 on a VGA)

\* The window holds what the scroll may read and what the clearing of a row
\* may reach; on an 80 x 25 screen these are 2320 and 4000 cells.
ASSUME GeometryAssumption ==
    /\ Columns \in Nat \ {0}
    /\ LastRow \in Nat
    /\ Window \in Nat
    /\ (LastRow + 5) * Columns <= Window
    /\ 2 * (LastRow + 1) * Columns <= Window

Cells == 0 .. Window - 1

\* A cursor is [row |-> ..., column |-> ...].
Home == [row |-> 0, column |-> 0]

\* Past the last column: the test and the move to the next row.
AtLineEnd(s) == s.column >= Columns
NextRow(s)   == [row |-> s.row + 1, column |-> 0]

BelowLastRowLate(s) == s.row >= LastRow + 2

\* Below the last row: the test and the cursor after the scroll.
BelowLastRow(s) == s.row >= LastRow + 1
Scrolled        == [row |-> LastRow, column |-> 0]

\* Number of cells the scroll copies, from the start of row 1 to that of row 0.
ScrollCount(r, c) == r * Columns + c

\* First cell of row r; also the number of cells that are cleared from there.
RowStart(r) == r * Columns

Upper(a, b) == IF a >= b THEN a ELSE b
=============================================================================
