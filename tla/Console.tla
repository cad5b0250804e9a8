------------------------------- MODULE Console -------------------------------
(***************************************************************************)
(* console_putc (ksrc/printk.c) run by the main flow of the kernel with    *)
(* interrupts enabled, and interrupted by handlers that print themselves   *)
(* (idt_interrupt_handler, the keyboard and mouse handlers all call        *)
(* printk).  row and column are plain static variables: the main flow      *)
(* loads, adds and stores them in separate instructions, and an interrupt  *)
(* may print any number of characters between two of them.  Handlers run   *)
(* behind interrupt gates and are not interrupted.                         *)
(***************************************************************************)
EXTENDS ConsoleGeometry

VARIABLES
    row, column,  \* the static variables of console_putc
    pc,           \* next instruction of the main flow's call, "idle" if none
    newline,      \* the character being printed is '\n'
    tmp,          \* the register that holds a loaded row or column
    count,        \* the register that holds the cell count of the memset
    reach         \* one past the highest video cell accessed so far

vars == <<row, column, pc, newline, tmp, count, reach>>
data == <<newline, tmp, count, reach>>

Cursor == [row |-> row, column |-> column]

Init ==
    /\ row = 0 /\ column = 0
    /\ pc = "idle" /\ newline = FALSE /\ tmp = 0 /\ count = 0 /\ reach = 0

Goto(l)     == pc' = l
Touch(past) == reach' = Upper(reach, past)

-----------------------------------------------------------------------------
(* The main flow, one action per access to row, column or the screen.      *)

Call ==
    /\ pc = "idle" /\ Goto("testColumn")
    /\ newline' \in BOOLEAN
    /\ UNCHANGED <<row, column, tmp, count, reach>>

TestColumn ==
    /\ pc = "testColumn"
    /\ Goto(IF AtLineEnd(Cursor) THEN "wrapColumn" ELSE "testRow")
    /\ UNCHANGED <<row, column, data>>

WrapColumn ==
    /\ pc = "wrapColumn" /\ Goto("wrapLoad")
    /\ column' = 0 /\ UNCHANGED <<row, data>>

\* row++ is a load and a store.
WrapLoad ==
    /\ pc = "wrapLoad" /\ Goto("wrapStore")
    /\ tmp' = row /\ UNCHANGED <<row, column, newline, count, reach>>

WrapStore ==
    /\ pc = "wrapStore" /\ Goto("testRow")
    /\ row' = tmp + 1 /\ UNCHANGED <<column, data>>

TestRow ==
    /\ pc = "testRow"
    /\ Goto(IF BelowLastRow(Cursor) THEN "scrollLoad" ELSE "testChar")
    /\ UNCHANGED <<row, column, data>>

ScrollLoad ==
    /\ pc = "scrollLoad" /\ Goto("scrollCopy")
    /\ tmp' = row /\ UNCHANGED <<row, column, newline, count, reach>>

\* memcpy of ScrollCount cells whose source starts one row into the screen.
ScrollCopy ==
    /\ pc = "scrollCopy" /\ Goto("scrollRow")
    /\ Touch(Columns + ScrollCount(tmp, column))
    /\ UNCHANGED <<row, column, newline, tmp, count>>

ScrollRow ==
    /\ pc = "scrollRow" /\ Goto("scrollColumn")
    /\ row' = Scrolled.row /\ UNCHANGED <<column, data>>

ScrollColumn ==
    /\ pc = "scrollColumn" /\ Goto("testChar")
    /\ column' = Scrolled.column /\ UNCHANGED <<row, data>>

TestChar ==
    /\ pc = "testChar"
    /\ Goto(IF newline THEN "newlineColumn" ELSE "testClear")
    /\ UNCHANGED <<row, column, data>>

NewlineColumn ==
    /\ pc = "newlineColumn" /\ Goto("newlineLoad")
    /\ column' = 0 /\ UNCHANGED <<row, data>>

NewlineLoad ==
    /\ pc = "newlineLoad" /\ Goto("newlineStore")
    /\ tmp' = row /\ UNCHANGED <<row, column, newline, count, reach>>

NewlineStore ==
    /\ pc = "newlineStore" /\ Goto("idle")
    /\ row' = tmp + 1 /\ UNCHANGED <<column, data>>

TestClear ==
    /\ pc = "testClear"
    /\ Goto(IF column = 0 THEN "clearLoad" ELSE "putLoad")
    /\ UNCHANGED <<row, column, data>>

\* The memset's cell count and its start are computed from two loads of row.
ClearLoad ==
    /\ pc = "clearLoad" /\ Goto("clear")
    /\ count' = RowStart(row) /\ UNCHANGED <<row, column, newline, tmp, reach>>

Clear ==
    /\ pc = "clear" /\ Goto("putLoad")
    /\ Touch(RowStart(row) + count)
    /\ UNCHANGED <<row, column, newline, tmp, count>>

PutLoad ==
    /\ pc = "putLoad" /\ Goto("put")
    /\ tmp' = row /\ UNCHANGED <<row, column, newline, count, reach>>

Put ==
    /\ pc = "put" /\ Goto("columnLoad")
    /\ Touch(RowStart(tmp) + column + 1)
    /\ UNCHANGED <<row, column, newline, tmp, count>>

\* column++ is a load and a store.
ColumnLoad ==
    /\ pc = "columnLoad" /\ Goto("columnStore")
    /\ tmp' = column /\ UNCHANGED <<row, column, newline, count, reach>>

ColumnStore ==
    /\ pc = "columnStore" /\ Goto("idle")
    /\ column' = tmp + 1 /\ UNCHANGED <<row, data>>

Main ==
    \/ Call \/ TestColumn \/ WrapColumn \/ WrapLoad \/ WrapStore
    \/ TestRow \/ ScrollLoad \/ ScrollCopy \/ ScrollRow \/ ScrollColumn
    \/ TestChar \/ NewlineColumn \/ NewlineLoad \/ NewlineStore
    \/ TestClear \/ ClearLoad \/ Clear \/ PutLoad \/ Put
    \/ ColumnLoad \/ ColumnStore

-----------------------------------------------------------------------------
(* A whole call of console_putc inside an interrupt handler.               *)

AfterWrap(s)   == IF AtLineEnd(s) THEN NextRow(s) ELSE s
AfterScroll(s) == IF BelowLastRow(s) THEN Scrolled ELSE s

\* The cells the call accesses: one past the highest of the scroll, of the
\* clearing of the row and of the character.
ScrollReach(s) == IF BelowLastRow(s) THEN Columns + ScrollCount(s.row, s.column) ELSE 0
PutReach(s, nl) ==
    IF nl THEN 0
    ELSE Upper(IF s.column = 0 THEN 2 * RowStart(s.row) ELSE 0,
               RowStart(s.row) + s.column + 1)

IrqPutc(nl) ==
    LET w == AfterWrap(Cursor)
        s == AfterScroll(w)
    IN  /\ row' = IF nl THEN s.row + 1 ELSE s.row
        /\ column' = IF nl THEN 0 ELSE s.column + 1
        /\ Touch(Upper(ScrollReach(w), PutReach(s, nl)))
        /\ UNCHANGED <<pc, newline, tmp, count>>

Next == Main \/ \E nl \in BOOLEAN : IrqPutc(nl)

Spec == Init /\ [][Next]_vars

-----------------------------------------------------------------------------
(* Properties.                                                             *)

Labels ==
    {"idle", "testColumn", "wrapColumn", "wrapLoad", "wrapStore", "testRow",
     "scrollLoad", "scrollCopy", "scrollRow", "scrollColumn", "testChar",
     "newlineColumn", "newlineLoad", "newlineStore", "testClear", "clearLoad",
     "clear", "putLoad", "put", "columnLoad", "columnStore"}

\* The cursor of console_putc, whatever increments are lost or applied to a
\* value an interrupt has changed: it never drifts more than three rows below
\* the last one, nor more than one column past the line end.
TypeOK ==
    /\ row \in 0 .. LastRow + 3
    /\ column \in 0 .. Columns + 1
    /\ pc \in Labels /\ newline \in BOOLEAN
    /\ tmp \in Nat /\ count \in Nat /\ reach \in Nat

\* No interleaving of the main flow with printing interrupts makes the scroll,
\* the clearing of a row or the write of a character leave the text memory.
InWindow == reach <= Window
=============================================================================
