---------------------------- MODULE ConsoleProofs ----------------------------
EXTENDS Console, ScreenText, NaturalsInduction, WellFoundedInduction, TLAPS

-----------------------------------------------------------------------------
(* Where the accesses of console_putc end, for cursors within bounds.       *)

\* Multiplication by the row length is monotone.
LEMMA RowStartMonotone ==
    ASSUME NEW r \in Nat, NEW k \in Nat, r <= k
    PROVE  RowStart(r) \in Nat /\ RowStart(k) \in Nat /\ RowStart(r) <= RowStart(k)
  BY GeometryAssumption DEF RowStart

\* The products of the assumption, one row length at a time.
LEMMA Products ==
    /\ RowStart(LastRow + 2) = RowStart(LastRow + 1) + Columns
    /\ RowStart(LastRow + 4) = RowStart(LastRow + 3) + Columns
    /\ RowStart(LastRow + 4) + Columns <= Window
    /\ RowStart(LastRow + 2) + Columns <= Window
    /\ RowStart(LastRow + 1) + RowStart(LastRow + 1) <= Window
  BY GeometryAssumption DEF RowStart

\* The scroll reads within the window, from any row the cursor can reach.
LEMMA ScrollWithin ==
    ASSUME NEW r \in Nat, NEW c \in Nat,
           \/ r <= LastRow + 3 /\ c <= Columns
           \/ r <= LastRow + 4 /\ c = 0
    PROVE  Columns + ScrollCount(r, c) \in Nat /\ Columns + ScrollCount(r, c) <= Window
<1>1. LastRow + 3 \in Nat /\ LastRow + 4 \in Nat /\ Columns \in Nat /\ Window \in Nat
  BY GeometryAssumption
<1>2. ScrollCount(r, c) = RowStart(r) + c
  BY DEF ScrollCount, RowStart
<1>3. CASE r <= LastRow + 3 /\ c <= Columns
  <2>1. /\ RowStart(r) \in Nat /\ RowStart(LastRow + 3) \in Nat
        /\ RowStart(r) <= RowStart(LastRow + 3)
    BY <1>1, <1>3, RowStartMonotone
  <2> QED BY <1>1, <1>2, <1>3, <2>1, Products
<1>4. CASE r <= LastRow + 4 /\ c = 0
  <2>1. /\ RowStart(r) \in Nat /\ RowStart(LastRow + 4) \in Nat
        /\ RowStart(r) <= RowStart(LastRow + 4)
    BY <1>1, <1>4, RowStartMonotone
  <2> QED BY <1>1, <1>2, <1>4, <2>1, Products
<1> QED BY <1>3, <1>4

\* The clearing of a row ends within the window, for two loads of row that
\* may differ.
LEMMA ClearWithin ==
    ASSUME NEW r \in 0 .. LastRow + 1, NEW n \in Nat, n <= RowStart(LastRow + 1)
    PROVE  RowStart(r) + n \in Nat /\ RowStart(r) + n <= Window
<1>1. LastRow + 1 \in Nat /\ r \in Nat /\ r <= LastRow + 1 /\ Window \in Nat
  BY GeometryAssumption
<1>2. RowStart(r) \in Nat /\ RowStart(LastRow + 1) \in Nat /\ RowStart(r) <= RowStart(LastRow + 1)
  BY <1>1, RowStartMonotone
<1> QED BY <1>1, <1>2, Products

\* The character is written within the window.
LEMMA PutWithin ==
    ASSUME NEW r \in 0 .. LastRow + 1, NEW c \in 0 .. Columns
    PROVE  RowStart(r) + c + 1 \in Nat /\ RowStart(r) + c + 1 <= Window
<1>1. /\ LastRow + 1 \in Nat /\ r \in Nat /\ r <= LastRow + 1
      /\ Columns \in Nat /\ Columns >= 1 /\ Window \in Nat
  BY GeometryAssumption
<1>2. RowStart(r) \in Nat /\ RowStart(LastRow + 1) \in Nat /\ RowStart(r) <= RowStart(LastRow + 1)
  BY <1>1, RowStartMonotone
<1> QED BY <1>1, <1>2, Products

-----------------------------------------------------------------------------
(* The inductive invariant: how far the cursor can be off at each point of  *)
(* the interrupted call.                                                    *)

\* The call has passed the test on row, or has scrolled.
RowTested ==
    {"scrollColumn", "testChar", "newlineColumn", "newlineLoad", "newlineStore",
     "testClear", "clearLoad", "clear", "putLoad", "put", "columnLoad", "columnStore"}

Drift ==
    /\ pc \notin {"testRow", "scrollLoad", "scrollCopy", "scrollRow"} => row <= LastRow + 2
    /\ pc \in RowTested => row <= LastRow + 1
    /\ pc \notin {"idle", "testColumn", "wrapColumn"} => column <= Columns
    /\ pc = "wrapStore" => tmp <= LastRow + 2
    /\ pc = "scrollCopy" => tmp <= LastRow + 3
    /\ pc \in {"newlineStore", "put"} => tmp <= LastRow + 1
    /\ pc = "columnStore" => tmp <= Columns
    /\ pc = "clear" => count <= RowStart(LastRow + 1)

IInv == TypeOK /\ InWindow /\ Drift

\* The cursor starts at home, before any call.
LEMMA IInvInit == Init => IInv
<1>1. Columns \in Nat /\ LastRow \in Nat /\ Window \in Nat
  BY GeometryAssumption
<1> SUFFICES ASSUME Init PROVE TypeOK /\ InWindow /\ Drift
  BY DEF IInv
<1>2. TypeOK
  <2>1. row \in 0 .. LastRow + 3 /\ column \in 0 .. Columns + 1
    BY <1>1 DEF Init
  <2>2. tmp \in Nat /\ count \in Nat /\ reach \in Nat /\ pc \in Labels
    BY DEF Init, Labels
  <2>3. newline \in BOOLEAN
    BY Zenon DEF Init
  <2> QED BY <2>1, <2>2, <2>3 DEF TypeOK
<1>3. InWindow
  BY <1>1 DEF Init, InWindow
<1>4. Drift
  BY <1>1 DEF Init, Drift, RowTested
<1> QED BY <1>2, <1>3, <1>4

\* An access that ends within the window keeps the whole history within it.
LEMMA TouchWithin ==
    ASSUME NEW a \in Nat, NEW b \in Nat, a <= Window, b <= Window
    PROVE  Upper(a, b) \in Nat /\ Upper(a, b) <= Window
  BY DEF Upper

\* The main flow's steps that access no video memory.
LEMMA MainSilent ==
    ASSUME IInv,
           \/ Call \/ TestColumn \/ WrapColumn \/ WrapLoad \/ WrapStore
           \/ TestRow \/ ScrollLoad \/ ScrollRow \/ ScrollColumn
           \/ TestChar \/ NewlineColumn \/ NewlineLoad \/ NewlineStore
           \/ TestClear \/ PutLoad \/ ColumnLoad \/ ColumnStore
    PROVE  IInv'
<1> USE GeometryAssumption
        DEF IInv, TypeOK, InWindow, Drift, Labels, RowTested, Goto, data, Cursor,
            AtLineEnd, BelowLastRow, Scrolled
<1>1. CASE Call       BY <1>1 DEF Call
<1>2. CASE TestColumn BY <1>2 DEF TestColumn
<1>3. CASE WrapColumn BY <1>3 DEF WrapColumn
<1>4. CASE WrapLoad   BY <1>4 DEF WrapLoad
<1>5. CASE WrapStore  BY <1>5 DEF WrapStore
<1>6. CASE TestRow    BY <1>6 DEF TestRow
<1>7. CASE ScrollLoad BY <1>7 DEF ScrollLoad
<1>8. CASE ScrollRow  BY <1>8 DEF ScrollRow
<1>9. CASE ScrollColumn   BY <1>9 DEF ScrollColumn
<1>10. CASE TestChar      BY <1>10 DEF TestChar
<1>11. CASE NewlineColumn BY <1>11 DEF NewlineColumn
<1>12. CASE NewlineLoad   BY <1>12 DEF NewlineLoad
<1>13. CASE NewlineStore  BY <1>13 DEF NewlineStore
<1>14. CASE TestClear     BY <1>14 DEF TestClear
<1>15. CASE PutLoad       BY <1>15 DEF PutLoad
<1>16. CASE ColumnLoad    BY <1>16 DEF ColumnLoad
<1>17. CASE ColumnStore   BY <1>17 DEF ColumnStore
<1> QED BY <1>1, <1>2, <1>3, <1>4, <1>5, <1>6, <1>7, <1>8, <1>9, <1>10, <1>11,
           <1>12, <1>13, <1>14, <1>15, <1>16, <1>17

\* The scroll, the clearing of a row and the write of the character.
LEMMA MainAccess ==
    ASSUME IInv, ScrollCopy \/ ClearLoad \/ Clear \/ Put
    PROVE  IInv'
<1>0. /\ row \in 0 .. LastRow + 3 /\ column \in 0 .. Columns + 1
      /\ tmp \in Nat /\ count \in Nat /\ reach \in Nat /\ reach <= Window
  BY DEF IInv, TypeOK, InWindow
<1>1. CASE ScrollCopy
  <2>1. tmp <= LastRow + 3 /\ column <= Columns /\ column \in Nat
    BY <1>0, <1>1 DEF ScrollCopy, IInv, Drift
  <2>2. Columns + ScrollCount(tmp, column) \in Nat /\ Columns + ScrollCount(tmp, column) <= Window
    BY <1>0, <2>1, ScrollWithin
  <2>3. reach' \in Nat /\ reach' <= Window
    BY <1>0, <1>1, <2>2, TouchWithin DEF ScrollCopy, Touch
  <2> QED BY <1>1, <2>3 DEF ScrollCopy, IInv, TypeOK, InWindow, Drift, Labels, RowTested, Goto
<1>2. CASE ClearLoad
  <2>1. row \in Nat /\ row <= LastRow + 1 /\ LastRow + 1 \in Nat
    BY <1>0, <1>2, GeometryAssumption DEF ClearLoad, IInv, Drift, RowTested
  <2>2. RowStart(row) \in Nat /\ RowStart(row) <= RowStart(LastRow + 1)
    BY <2>1, RowStartMonotone
  <2> QED BY <1>2, <2>2 DEF ClearLoad, IInv, TypeOK, InWindow, Drift, Labels, RowTested, Goto
<1>3. CASE Clear
  <2>1. row \in 0 .. LastRow + 1 /\ count <= RowStart(LastRow + 1)
    BY <1>0, <1>3, GeometryAssumption DEF Clear, IInv, Drift, RowTested
  <2>2. RowStart(row) + count \in Nat /\ RowStart(row) + count <= Window
    BY <1>0, <2>1, ClearWithin
  <2>3. reach' \in Nat /\ reach' <= Window
    BY <1>0, <1>3, <2>2, TouchWithin DEF Clear, Touch
  <2> QED BY <1>3, <2>3 DEF Clear, IInv, TypeOK, InWindow, Drift, Labels, RowTested, Goto
<1>4. CASE Put
  <2>1. tmp \in 0 .. LastRow + 1 /\ column \in 0 .. Columns
    BY <1>0, <1>4, GeometryAssumption DEF Put, IInv, Drift
  <2>2. RowStart(tmp) + column + 1 \in Nat /\ RowStart(tmp) + column + 1 <= Window
    BY <2>1, PutWithin
  <2>3. reach' \in Nat /\ reach' <= Window
    BY <1>0, <1>4, <2>2, TouchWithin DEF Put, Touch
  <2> QED BY <1>4, <2>3 DEF Put, IInv, TypeOK, InWindow, Drift, Labels, RowTested, Goto
<1> QED BY <1>1, <1>2, <1>3, <1>4

\* A whole call inside an interrupt handler, at any point of the main flow,
\* stays within the window and leaves the cursor at most one row too low.
LEMMA IrqKeeps ==
    ASSUME IInv, NEW nl \in BOOLEAN, IrqPutc(nl)
    PROVE  IInv'
<1> DEFINE w == AfterWrap(Cursor)
           s == AfterScroll(w)
<1>0. /\ row \in 0 .. LastRow + 3 /\ column \in 0 .. Columns + 1
      /\ tmp \in Nat /\ count \in Nat /\ reach \in Nat /\ reach <= Window
      /\ Columns \in Nat /\ Columns >= 1 /\ LastRow \in Nat /\ Window \in Nat
  BY GeometryAssumption DEF IInv, TypeOK, InWindow
<1>1. /\ w.row \in Nat /\ w.column \in Nat
      /\ \/ w.row <= LastRow + 3 /\ w.column <= Columns
         \/ w.row <= LastRow + 4 /\ w.column = 0
      /\ w.column < Columns
  BY <1>0 DEF AfterWrap, Cursor, AtLineEnd, NextRow
<1> HIDE DEF w
<1>2. s.row \in 0 .. LastRow /\ s.column \in 0 .. Columns - 1
  BY <1>0, <1>1 DEF AfterScroll, BelowLastRow, Scrolled
<1> HIDE DEF s
<1>3. ScrollReach(w) \in Nat /\ ScrollReach(w) <= Window
  BY <1>0, <1>1, ScrollWithin DEF ScrollReach
<1>4. PutReach(s, nl) \in Nat /\ PutReach(s, nl) <= Window
  <2>1. LastRow + 1 \in Nat /\ s.row \in 0 .. LastRow + 1 /\ s.row <= LastRow + 1
        /\ s.column \in 0 .. Columns /\ s.row \in Nat
    BY <1>0, <1>2
  <2>2. RowStart(s.row) \in Nat /\ RowStart(s.row) <= RowStart(LastRow + 1)
    BY <2>1, RowStartMonotone
  <2>3. 2 * RowStart(s.row) \in Nat /\ 2 * RowStart(s.row) <= Window
    BY <2>1, <2>2, ClearWithin
  <2>4. RowStart(s.row) + s.column + 1 \in Nat /\ RowStart(s.row) + s.column + 1 <= Window
    BY <2>1, PutWithin
  <2> QED BY <2>3, <2>4, <1>0 DEF PutReach, Upper
<1>5. reach' \in Nat /\ reach' <= Window
  <2>1. reach' = Upper(reach, Upper(ScrollReach(w), PutReach(s, nl)))
    BY DEF IrqPutc, Touch, w, s
  <2> QED BY <2>1, <1>0, <1>3, <1>4, TouchWithin
<1>6. row' \in 0 .. LastRow + 1 /\ column' \in 0 .. Columns
  <2>1. /\ row' = IF nl THEN s.row + 1 ELSE s.row
        /\ column' = IF nl THEN 0 ELSE s.column + 1
    BY DEF IrqPutc, w, s
  <2> QED BY <2>1, <1>0, <1>2
<1>7. pc' = pc /\ newline' = newline /\ tmp' = tmp /\ count' = count
  BY DEF IrqPutc
<1> QED BY <1>0, <1>5, <1>6, <1>7 DEF IInv, TypeOK, InWindow, Drift, RowTested

\* The invariant holds for every geometry of the screen.
THEOREM ConsoleInvariant == Spec => []IInv
<1>1. IInv /\ [Next]_vars => IInv'
  <2> SUFFICES ASSUME IInv, [Next]_vars PROVE IInv'
    OBVIOUS
  <2>1. CASE Main
    BY <2>1, MainSilent, MainAccess DEF Main
  <2>2. CASE \E nl \in BOOLEAN : IrqPutc(nl)
    BY <2>2, IrqKeeps
  <2>3. CASE UNCHANGED vars
    BY <2>3 DEF vars, IInv, TypeOK, InWindow, Drift
  <2> QED BY <2>1, <2>2, <2>3 DEF Next
<1> QED BY <1>1, IInvInit, PTL DEF Spec

\* The cursor of console_putc never drifts more than three rows or one column
\* off the screen, whatever the interrupts print in between.
THEOREM CursorBounded == Spec => []TypeOK
<1>1. IInv => TypeOK
  BY DEF IInv
<1> QED BY <1>1, ConsoleInvariant, PTL

\* console_putc never reads or writes past the text memory.
THEOREM ConsoleInWindow == Spec => []InWindow
<1>1. IInv => InWindow
  BY DEF IInv
<1> QED BY <1>1, ConsoleInvariant, PTL

-----------------------------------------------------------------------------
(* What the screen shows, when calls are not interrupted.                   *)

\* The text memory.
Values == Chars \cup {"old", "blank"}
Memory == [Cells -> Values]

\* What the first k turns of the scroll's memcpy make of the memory.
Moved(v, k) == [i \in Cells |-> IF i < k THEN v[i + Columns] ELSE v[i]]

\* A property of 0 that passes from each number to the next holds up to n.
LEMMA UpTo ==
    ASSUME NEW n \in Nat, NEW T, 0 \in T, \A k \in 1 .. n : k - 1 \in T => k \in T
    PROVE  0 .. n \subseteq T
<1> DEFINE Less == {ss \in Nat \X Nat : ss[1] < ss[2]}
           Bad == 0 .. n \ T
<1>1. IsWellFoundedOn(Less, Nat)
  BY NatLessThanWellFounded DEF OpToRel
<1>2. Bad \subseteq Nat
  OBVIOUS
<1> HIDE DEF Less
<1>3. SUFFICES ASSUME Bad # {} PROVE FALSE
  OBVIOUS
<1>4. PICK x \in Bad : \A y \in Bad : ~ (<<y, x>> \in Less)
  BY <1>1, <1>2, <1>3, WFMin
<1>5. x \in 1 .. n /\ x - 1 \in Nat /\ x - 1 \in 0 .. n
  BY <1>4
<1>6. x - 1 \in Bad
  BY <1>4, <1>5
<1>7. <<x - 1, x>> \in Less
  BY <1>5 DEF Less
<1> QED BY <1>4, <1>6, <1>7

\* The scroll's memcpy, although its ranges overlap, moves every cell it copies
\* up by a row as it was before the call: the source lies above the destination.
LEMMA MemcpyMoves ==
    ASSUME NEW v \in Memory, NEW n \in Nat, n + Columns <= Window
    PROVE  Memcpy(v, 0, Columns, n) = Moved(v, n)
<1> DEFINE Turns(f) ==
             [k \in 0 .. n |-> IF k = 0 THEN v
                               ELSE [f[k - 1] EXCEPT ![0 + k - 1] = f[k - 1][Columns + k - 1]]]
           g == [k \in 0 .. n |-> Moved(v, k)]
           copy == CHOOSE f : f = Turns(f)
<1>0. Columns \in Nat /\ Columns >= 1 /\ Window \in Nat
  BY GeometryAssumption
<1>1. ASSUME NEW k \in 1 .. n
      PROVE  Moved(v, k) = [Moved(v, k - 1) EXCEPT ![0 + k - 1] = Moved(v, k - 1)[Columns + k - 1]]
  <2> DEFINE o == Moved(v, k - 1)
  <2>1. /\ DOMAIN o = Cells /\ \A i \in Cells : o[i] = IF i < k - 1 THEN v[i + Columns] ELSE v[i]
        /\ o = [i \in Cells |-> o[i]]
    BY DEF Moved
  <2>2. k - 1 \in Cells /\ Columns + k - 1 \in Cells /\ 0 + k - 1 = k - 1
    BY <1>0 DEF Cells
  <2>3. o[Columns + k - 1] = v[(k - 1) + Columns]
    BY <1>0, <2>1, <2>2
  <2> HIDE DEF o
  <2>4. [o EXCEPT ![k - 1] = o[Columns + k - 1]]
          = [i \in Cells |-> IF i = k - 1 THEN o[Columns + k - 1] ELSE o[i]]
    BY <2>1, Zenon
  <2>5. ASSUME NEW i \in Cells
        PROVE  (IF i = k - 1 THEN o[Columns + k - 1] ELSE o[i])
                 = IF i < k THEN v[i + Columns] ELSE v[i]
    BY <1>0, <2>1, <2>3 DEF Cells
  <2>6. [o EXCEPT ![k - 1] = o[Columns + k - 1]] = Moved(v, k)
    BY <2>4, <2>5, Zenon DEF Moved
  <2> QED BY <2>2, <2>6 DEF o
<1>2. Moved(v, 0) = v
  BY <1>0 DEF Moved, Cells, Memory
<1>3. g = Turns(g)
  <2>1. ASSUME NEW k \in 0 .. n PROVE g[k] = Turns(g)[k]
    <3>1. CASE k = 0
      BY <3>1, <1>2
    <3>2. CASE k # 0
      <4>1. k \in 1 .. n /\ k - 1 \in 0 .. n
        BY <3>2
      <4>2. g[k] = Moved(v, k) /\ g[k - 1] = Moved(v, k - 1)
        BY <4>1
      <4> HIDE DEF g
      <4>3. Turns(g)[k] = [g[k - 1] EXCEPT ![0 + k - 1] = g[k - 1][Columns + k - 1]]
        BY <3>2, <4>1
      <4> QED BY <4>1, <4>2, <4>3, <1>1
    <3> QED BY <3>1, <3>2
  <2>2. DOMAIN g = 0 .. n /\ DOMAIN Turns(g) = 0 .. n
    OBVIOUS
  <2>3. g = [k \in 0 .. n |-> g[k]]
    OBVIOUS
  <2> HIDE DEF g
  <2> QED BY <2>1, <2>3
<1> HIDE DEF g
<1>4. copy = Turns(copy)
  <2>1. (\E f : f = Turns(f)) => copy = Turns(copy)
    OBVIOUS
  <2> QED BY <2>1, <1>3
<1> HIDE DEF copy
<1>5. copy[0] = Moved(v, 0)
  <2>1. 0 \in 0 .. n
    OBVIOUS
  <2>2. copy[0] = v
    BY <1>4, <2>1
  <2> QED BY <2>2, <1>2
<1>6. ASSUME NEW k \in 1 .. n, copy[k - 1] = Moved(v, k - 1)
      PROVE  copy[k] = Moved(v, k)
  <2>1. k \in 0 .. n /\ k # 0
    OBVIOUS
  <2>2. copy[k] = [copy[k - 1] EXCEPT ![0 + k - 1] = copy[k - 1][Columns + k - 1]]
    BY <1>4, <2>1
  <2> QED BY <2>2, <1>6, <1>1
<1> DEFINE T == {k \in 0 .. n : copy[k] = Moved(v, k)}
<1>7. 0 \in T
  BY <1>5
<1>8. \A k \in 1 .. n : k - 1 \in T => k \in T
  BY <1>6
<1> HIDE DEF T
<1>9. n \in T
  BY <1>7, <1>8, UpTo
<1>10. copy[n] = Moved(v, n)
  BY <1>9 DEF T
<1>11. Memcpy(v, 0, Columns, n) = copy[n]
  BY DEF Memcpy, copy
<1> QED BY <1>10, <1>11

-----------------------------------------------------------------------------
(* The screen and the text, row by row.                                     *)

\* The cell of column j in row k, both counted from one as in text.
Cell(k, j) == RowStart(k - 1) + j - 1

\* All rows the text may have lie within the window, one behind the other, a
\* row's length apart.
LEMMA CellFacts ==
    ASSUME NEW k \in 1 .. LastRow + 2, NEW j \in 1 .. Columns
    PROVE  /\ Cell(k, j) \in Cells /\ Cell(k, j) + Columns = Cell(k + 1, j)
           /\ RowStart(k - 1) \in Nat /\ Cell(k, j) >= RowStart(k - 1)
           /\ \A m \in 1 .. LastRow + 3 : k < m => Cell(k, j) < RowStart(m - 1)
<1>0. LastRow \in Nat /\ Columns \in Nat /\ Columns >= 1 /\ Window \in Nat
  BY GeometryAssumption
<1>1. k - 1 \in Nat /\ k \in Nat /\ LastRow + 2 \in Nat /\ k <= LastRow + 2
  BY <1>0
<1>2. RowStart(k) = RowStart(k - 1) + Columns
  BY <1>0, <1>1 DEF RowStart
<1>3. RowStart(k - 1) \in Nat /\ RowStart(k) <= RowStart(LastRow + 2)
  BY <1>1, RowStartMonotone
<1>4. RowStart(LastRow + 2) \in Nat /\ RowStart(LastRow + 2) <= Window
  BY <1>0, <1>1, Products, RowStartMonotone
<1>5. Cell(k, j) = RowStart(k - 1) + j - 1
  BY DEF Cell
<1>6. Cell(k, j) \in Cells
  BY <1>0, <1>2, <1>3, <1>4, <1>5 DEF Cells
<1>7. Cell(k + 1, j) = RowStart(k) + j - 1
  <2>1. (k + 1) - 1 = k
    BY <1>1
  <2> QED BY <2>1 DEF Cell
<1>8. Cell(k, j) + Columns = Cell(k + 1, j)
  BY <1>0, <1>2, <1>3, <1>5, <1>7
<1>9. ASSUME NEW m \in 1 .. LastRow + 3, k < m PROVE Cell(k, j) < RowStart(m - 1)
  <2>1. m - 1 \in Nat /\ k <= m - 1
    BY <1>0, <1>9
  <2>2. RowStart(m - 1) \in Nat /\ RowStart(k) <= RowStart(m - 1)
    BY <1>1, <2>1, RowStartMonotone
  <2> QED BY <1>0, <1>2, <1>3, <1>5, <2>2
<1> QED BY <1>0, <1>3, <1>5, <1>6, <1>8, <1>9

\* The text as console_putc leaves it: at most one row more than the screen
\* has, which is then empty and waits for the next call to scroll.
Rows(t) ==
    /\ t \in Seq(Seq(Chars)) /\ Len(t) \in 1 .. LastRow + 2
    /\ \A k \in 1 .. Len(t) : Len(t[k]) <= Columns
    /\ Len(t) = LastRow + 2 => t[Len(t)] = <<>>

\* Every character is in its cell, and what is behind it on its row is blank.
Printed(v, t) ==
    \A k \in 1 .. Len(t) : \A j \in 1 .. Columns : j <= Len(t[k]) => v[Cell(k, j)] = t[k][j]

Clean(v, t, sh) ==
    \A k \in 1 .. Len(t) : \A j \in 1 .. Columns :
        t[k] # <<>> /\ (k > 1 \/ sh) /\ j > Len(t[k]) => v[Cell(k, j)] = "blank"

\* The whole: screen, text and cursor agree.  On a screen of one row nothing is
\* ever cleared.
Shown(c, v, t, sh) ==
    /\ Rows(t) /\ v \in Memory /\ sh \in BOOLEAN
    /\ c = [row |-> Len(t) - 1, column |-> Len(t[Len(t)])]
    /\ Printed(v, t)
    /\ LastRow > 0 => Clean(v, t, sh)
    /\ sh => Len(t) > LastRow

\* Where the last row of the text stands.
LEMMA LastRowOf ==
    ASSUME NEW t, Rows(t)
    PROVE  /\ Len(t) \in Nat /\ Len(t) >= 1 /\ Len(t) \in 1 .. Len(t)
           /\ t[Len(t)] \in Seq(Chars) /\ Len(t[Len(t)]) \in Nat
           /\ Len(t[Len(t)]) <= Columns
           /\ \A k \in 1 .. Len(t) : t[k] \in Seq(Chars) /\ Len(t[k]) \in 0 .. Columns
<1>0. LastRow \in Nat /\ Columns \in Nat
  BY GeometryAssumption
<1>1. Len(t) \in Nat /\ Len(t) >= 1 /\ t \in Seq(Seq(Chars))
  BY <1>0 DEF Rows
<1>2. ASSUME NEW k \in 1 .. Len(t)
      PROVE  t[k] \in Seq(Chars) /\ Len(t[k]) \in 0 .. Columns
  <2>1. t[k] \in Seq(Chars)
    BY <1>1
  <2>2. Len(t[k]) \in Nat /\ Len(t[k]) <= Columns
    BY <2>1 DEF Rows
  <2> QED BY <2>1, <2>2, <1>0
<1>3. Len(t) \in 1 .. Len(t)
  BY <1>1
<1>4. t[Len(t)] \in Seq(Chars) /\ Len(t[Len(t)]) \in 0 .. Columns
  BY <1>2, <1>3
<1> QED BY <1>0, <1>1, <1>2, <1>3, <1>4

\* A new row below the others shows what it should: nothing.
LEMMA NewRow ==
    ASSUME NEW c, NEW v, NEW t, NEW sh, Shown(c, v, t, sh), Len(t) <= LastRow + 1
    PROVE  Shown(NextRow(c), v, Append(t, <<>>), sh)
<1> DEFINE u == Append(t, <<>>)
<1>0. LastRow \in Nat /\ Columns \in Nat
  BY GeometryAssumption
<1>1. Rows(t) /\ t \in Seq(Seq(Chars)) /\ Len(t) \in Nat /\ Len(t) >= 1
  BY LastRowOf DEF Shown, Rows
<1>2. <<>> \in Seq(Chars) /\ Len(<<>>) = 0
  OBVIOUS
<1>3. /\ u \in Seq(Seq(Chars)) /\ Len(u) = Len(t) + 1 /\ u[Len(u)] = <<>>
      /\ \A k \in 1 .. Len(t) : u[k] = t[k]
  BY <1>1, <1>2
<1> HIDE DEF u
<1>4. \A k \in 1 .. Len(u) : k \in 1 .. Len(t) \/ k = Len(u)
  BY <1>1, <1>3
<1>5. Rows(u)
  <2>1. Len(u) \in 1 .. LastRow + 2
    BY <1>0, <1>1, <1>3
  <2>2. ASSUME NEW k \in 1 .. Len(u) PROVE Len(u[k]) <= Columns
    <3>1. CASE k \in 1 .. Len(t)
      BY <3>1, <1>1, <1>3 DEF Rows
    <3>2. CASE k = Len(u)
      <4>1. Len(u[k]) = 0
        BY <3>2, <1>2, <1>3
      <4> QED BY <4>1, <1>0
    <3> QED BY <3>1, <3>2, <1>4
  <2> QED BY <1>3, <2>1, <2>2 DEF Rows
<1>6. Printed(v, u)
  <2> SUFFICES ASSUME NEW k \in 1 .. Len(u), NEW j \in 1 .. Columns, j <= Len(u[k])
               PROVE  v[Cell(k, j)] = u[k][j]
    BY DEF Printed
  <2>1. CASE k \in 1 .. Len(t)
    BY <2>1, <1>3 DEF Printed, Shown
  <2>2. CASE k = Len(u)
    <3>1. Len(u[k]) = 0
      BY <2>2, <1>2, <1>3
    <3> QED BY <3>1, <1>0
  <2> QED BY <2>1, <2>2, <1>4
<1>7. LastRow > 0 => Clean(v, u, sh)
  BY <1>3, <1>4 DEF Clean, Shown
<1>8. NextRow(c) = [row |-> Len(u) - 1, column |-> Len(u[Len(u)])]
  BY <1>1, <1>2, <1>3 DEF Shown, NextRow
<1>9. sh => Len(u) > LastRow
  BY <1>0, <1>1, <1>3 DEF Shown
<1> QED BY <1>5, <1>6, <1>7, <1>8, <1>9 DEF Shown, u

\* The scroll of console_putc: the top row goes, every other one moves up as a
\* whole, and the cursor stands at the start of the last row.
LEMMA ScrollShows ==
    ASSUME NEW c, NEW v, NEW t, NEW sh, Shown(c, v, t, sh), Len(t) > LastRow + 1
    PROVE  /\ Shown(Scrolled, ScrollUp(v, c), Tail(t), TRUE)
           /\ Len(Tail(t)) <= LastRow + 1 /\ Tail(t)[Len(Tail(t))] = <<>>
<1> DEFINE u == Tail(t)
           n == RowStart(LastRow + 1)
           v2 == ScrollUp(v, c)
<1>0. LastRow \in Nat /\ Columns \in Nat /\ Columns >= 1 /\ Window \in Nat
  BY GeometryAssumption
<1>1. /\ Rows(t) /\ t \in Seq(Seq(Chars)) /\ Len(t) = LastRow + 2 /\ t[Len(t)] = <<>>
      /\ v \in Memory
  BY <1>0 DEF Shown, Rows
<1>2. /\ u \in Seq(Seq(Chars)) /\ Len(u) = LastRow + 1
      /\ \A k \in 1 .. Len(u) : u[k] = t[k + 1]
  BY <1>0, <1>1
<1> HIDE DEF u
<1>3. u[Len(u)] = <<>> /\ Len(<<>>) = 0
  BY <1>0, <1>1, <1>2
<1>4. \A k \in 1 .. Len(u) : k + 1 \in 1 .. Len(t) /\ k \in 1 .. LastRow + 2
  BY <1>0, <1>1, <1>2
<1>5. Rows(u)
  <2>1. \A k \in 1 .. Len(u) : Len(u[k]) <= Columns
    BY <1>1, <1>2, <1>4 DEF Rows
  <2> QED BY <1>0, <1>2, <1>3, <2>1 DEF Rows
<1>6. n \in Nat /\ n + Columns <= Window
  <2>1. LastRow + 1 \in Nat /\ LastRow + 1 <= LastRow + 1
    BY <1>0
  <2>2. n \in Nat
    BY <2>1, RowStartMonotone
  <2>3. RowStart(LastRow + 2) = n + Columns /\ RowStart(LastRow + 2) + Columns <= Window
    BY Products
  <2> HIDE DEF n
  <2> QED BY <2>2, <2>3, <1>0
<1>7. v2 = Moved(v, n)
  <2>1. c.row = LastRow + 1 /\ c.column = 0
    BY <1>0, <1>1, <1>3 DEF Shown
  <2>2. ScrollCount(c.row, c.column) = n
    BY <2>1, <1>6 DEF ScrollCount, RowStart
  <2> HIDE DEF n
  <2>3. Memcpy(v, 0, Columns, n) = Moved(v, n)
    BY <1>1, <1>6, MemcpyMoves
  <2> QED BY <2>2, <2>3 DEF ScrollUp
<1> HIDE DEF v2
<1>8. ASSUME NEW k \in 1 .. Len(u), NEW j \in 1 .. Columns
      PROVE  v2[Cell(k, j)] = v[Cell(k + 1, j)]
  <2>1. k \in 1 .. LastRow + 2 /\ LastRow + 2 \in 1 .. LastRow + 3 /\ k < LastRow + 2
    BY <1>0, <1>2
  <2>2. /\ Cell(k, j) \in Cells /\ Cell(k, j) + Columns = Cell(k + 1, j)
        /\ Cell(k, j) < RowStart((LastRow + 2) - 1)
    BY <2>1, CellFacts
  <2>3. (LastRow + 2) - 1 = LastRow + 1
    BY <1>0
  <2>4. Cell(k, j) < n
    BY <2>2, <2>3
  <2> HIDE DEF n
  <2> QED BY <1>7, <2>2, <2>4 DEF Moved
<1>9. v2 \in Memory
  <2>1. ASSUME NEW i \in Cells PROVE (IF i < n THEN v[i + Columns] ELSE v[i]) \in Values
    <3>1. i < n => i + Columns \in Cells
      BY <1>0, <1>6 DEF Cells
    <3> HIDE DEF n
    <3> QED BY <1>1, <3>1 DEF Memory
  <2> HIDE DEF n
  <2> QED BY <1>7, <2>1 DEF Moved, Memory
<1>10. Printed(v2, u)
  <2> SUFFICES ASSUME NEW k \in 1 .. Len(u), NEW j \in 1 .. Columns, j <= Len(u[k])
               PROVE  v2[Cell(k, j)] = u[k][j]
    BY DEF Printed
  <2>1. v[Cell(k + 1, j)] = t[k + 1][j]
    BY <1>2, <1>4 DEF Shown, Printed
  <2> QED BY <2>1, <1>2, <1>8
<1>11. LastRow > 0 => Clean(v2, u, TRUE)
  <2> SUFFICES ASSUME LastRow > 0, NEW k \in 1 .. Len(u), NEW j \in 1 .. Columns,
                      u[k] # <<>>, j > Len(u[k])
               PROVE  v2[Cell(k, j)] = "blank"
    BY DEF Clean
  <2>1. k + 1 > 1 /\ t[k + 1] # <<>> /\ j > Len(t[k + 1])
    BY <1>0, <1>2
  <2>2. v[Cell(k + 1, j)] = "blank"
    BY <2>1, <1>4 DEF Shown, Clean
  <2> QED BY <2>2, <1>8
<1>12. Scrolled = [row |-> Len(u) - 1, column |-> Len(u[Len(u)])]
  BY <1>0, <1>2, <1>3 DEF Scrolled
<1>13. Len(u) > LastRow /\ Len(u) <= LastRow + 1
  BY <1>0, <1>2
<1>14. Shown(Scrolled, v2, u, TRUE)
  BY <1>5, <1>9, <1>10, <1>11, <1>12, <1>13 DEF Shown
<1> QED BY <1>14, <1>3, <1>13 DEF u, v2

\* A character on a row that is not full: it stands behind the others, what
\* follows it is blank, and no other row changes.
LEMMA CharShows ==
    ASSUME NEW c, NEW v, NEW t, NEW sh, Shown(c, v, t, sh), NEW ch \in Chars,
           Len(t) <= LastRow + 1, Len(t[Len(t)]) < Columns
    PROVE  Shown([c EXCEPT !.column = @ + 1], WriteChar(ClearRow(v, c), c, ch),
                 [t EXCEPT ![Len(t)] = Append(@, ch)], sh)
<1> DEFINE n == Len(t)
           l == t[n]
           u == [t EXCEPT ![n] = Append(@, ch)]
           v1 == ClearRow(v, c)
           v2 == WriteChar(v1, c, ch)
<1>0. LastRow \in Nat /\ Columns \in Nat /\ Columns >= 1 /\ Window \in Nat
  BY GeometryAssumption
<1>1. /\ Rows(t) /\ t \in Seq(Seq(Chars)) /\ n \in Nat /\ n >= 1 /\ n \in 1 .. LastRow + 1
      /\ l \in Seq(Chars) /\ Len(l) \in Nat /\ Len(l) < Columns /\ n \in 1 .. n
      /\ v \in Memory /\ c = [row |-> n - 1, column |-> Len(l)]
      /\ \A k \in 1 .. n : t[k] \in Seq(Chars) /\ Len(t[k]) \in 0 .. Columns
  BY <1>0, LastRowOf DEF Shown, Rows
<1>2. /\ Append(l, ch) \in Seq(Chars) /\ Len(Append(l, ch)) = Len(l) + 1
      /\ Append(l, ch)[Len(l) + 1] = ch /\ \A j \in 1 .. Len(l) : Append(l, ch)[j] = l[j]
  BY <1>1
<1>3. /\ u \in Seq(Seq(Chars)) /\ Len(u) = n /\ u[n] = Append(l, ch)
      /\ \A k \in 1 .. n : k # n => u[k] = t[k]
  BY <1>1, <1>2
<1>4. c.row = n - 1 /\ c.column = Len(l)
  BY <1>1
<1>5. v1 \in Memory /\ (l # <<>> => v1 = v)
      /\ (l = <<>> => \A i \in Cells :
             v1[i] = IF i \in RowStart(n - 1) .. RowStart(n - 1) + RowStart(n - 1) - 1
                     THEN "blank" ELSE v[i])
  <2>1. CASE l # <<>>
    <3>1. Len(l) # 0
      BY <2>1, <1>1
    <3>2. v1 = v
      BY <3>1, <1>4 DEF ClearRow
    <3> QED BY <3>2, <2>1, <1>1
  <2>2. CASE l = <<>>
    <3>1. Len(l) = 0
      BY <2>2
    <3>2. v1 = [i \in Cells |-> IF i \in RowStart(n - 1) .. RowStart(n - 1) + RowStart(n - 1) - 1
                                THEN "blank" ELSE v[i]]
      BY <3>1, <1>4 DEF ClearRow, Memset, RowStart, Blank, Cells
    <3>3. v1 \in Memory
      BY <3>2, <1>1 DEF Memory, Values
    <3> QED BY <2>2, <3>2, <3>3
  <2> QED BY <2>1, <2>2
<1> HIDE DEF v1
<1> DEFINE here == Cell(n, Len(l) + 1)
<1>6. here \in Cells /\ here = RowStart(n - 1) + Len(l)
  <2>1. n \in 1 .. LastRow + 2 /\ Len(l) + 1 \in 1 .. Columns
    BY <1>0, <1>1
  <2>2. RowStart(n - 1) \in Nat /\ here \in Cells
    BY <2>1, CellFacts
  <2>3. here = RowStart(n - 1) + (Len(l) + 1) - 1
    BY DEF Cell
  <2> QED BY <2>2, <2>3, <1>1
<1>7. v2 = [v1 EXCEPT ![here] = ch]
  BY <1>4, <1>6 DEF WriteChar, RowStart
<1> HIDE DEF v2, here
<1>8. v2 \in Memory /\ v2[here] = ch /\ \A i \in Cells : i # here => v2[i] = v1[i]
  BY <1>5, <1>6, <1>7 DEF Memory, Values
\* The rows above.
<1>9. ASSUME NEW k \in 1 .. n, k # n, NEW j \in 1 .. Columns
      PROVE  v2[Cell(k, j)] = v[Cell(k, j)]
  <2>1. k \in 1 .. LastRow + 2 /\ n \in 1 .. LastRow + 3 /\ k < n
    BY <1>0, <1>1, <1>9
  <2>2. Cell(k, j) \in Cells /\ Cell(k, j) < RowStart(n - 1)
    BY <2>1, CellFacts
  <2>3. RowStart(n - 1) \in Nat /\ Cell(k, j) \in Nat
    <3>1. n - 1 \in Nat
      BY <1>1
    <3> QED BY <3>1, <2>2, RowStartMonotone DEF Cells
  <2>4. Cell(k, j) # here
    BY <1>1, <1>6, <2>2, <2>3
  <2>5. v1[Cell(k, j)] = v[Cell(k, j)]
    <3>1. Cell(k, j) \notin RowStart(n - 1) .. RowStart(n - 1) + RowStart(n - 1) - 1
      BY <2>2, <2>3
    <3> QED BY <3>1, <2>2, <1>5
  <2> QED BY <2>2, <2>4, <2>5, <1>8
\* The cells of the last row are different ones.
<1>10. ASSUME NEW j \in 1 .. Columns
       PROVE  Cell(n, j) \in Cells /\ (j # Len(l) + 1 => Cell(n, j) # here)
  <2>1. n \in 1 .. LastRow + 2
    BY <1>0, <1>1
  <2>2. RowStart(n - 1) \in Nat /\ Cell(n, j) \in Cells
    BY <2>1, CellFacts
  <2>3. Cell(n, j) = RowStart(n - 1) + j - 1
    BY DEF Cell
  <2> QED BY <2>2, <2>3, <1>1, <1>6
<1>11. Printed(v2, u)
  <2> SUFFICES ASSUME NEW k \in 1 .. n, NEW j \in 1 .. Columns, j <= Len(u[k])
               PROVE  v2[Cell(k, j)] = u[k][j]
    BY <1>3 DEF Printed
  <2>1. CASE k # n
    <3>1. v[Cell(k, j)] = t[k][j]
      BY <2>1, <1>3 DEF Shown, Printed
    <3> QED BY <2>1, <3>1, <1>3, <1>9
  <2>2. CASE k = n /\ j = Len(l) + 1
    BY <2>2, <1>2, <1>3, <1>8 DEF here
  <2>3. CASE k = n /\ j # Len(l) + 1
    <3>1. j \in 1 .. Len(l)
      BY <2>3, <1>1, <1>2, <1>3
    <3>2. l # <<>>
      BY <3>1, <1>1
    <3>3. v[Cell(n, j)] = l[j]
      BY <3>1, <1>1 DEF Shown, Printed
    <3> QED BY <2>3, <3>1, <3>2, <3>3, <1>2, <1>3, <1>5, <1>8, <1>10
  <2> QED BY <2>1, <2>2, <2>3
<1>12. ASSUME LastRow > 0 PROVE Clean(v2, u, sh)
  <2> SUFFICES ASSUME NEW k \in 1 .. n, NEW j \in 1 .. Columns,
                      u[k] # <<>>, k > 1 \/ sh, j > Len(u[k])
               PROVE  v2[Cell(k, j)] = "blank"
    BY <1>3 DEF Clean
  <2>0. Clean(v, t, sh)
    BY <1>12 DEF Shown
  <2>1. CASE k # n
    <3>1. v[Cell(k, j)] = "blank"
      BY <2>0, <2>1, <1>3 DEF Clean
    <3> QED BY <2>1, <3>1, <1>9
  <2>2. CASE k = n /\ l # <<>>
    <3>1. j # Len(l) + 1 /\ j > Len(l)
      BY <2>2, <1>1, <1>2, <1>3
    <3>2. v[Cell(n, j)] = "blank"
      BY <2>0, <2>2, <3>1 DEF Clean
    <3> QED BY <2>2, <3>1, <3>2, <1>5, <1>8, <1>10
  <2>3. CASE k = n /\ l = <<>>
    <3>1. j # Len(l) + 1 /\ Len(l) = 0
      BY <2>3, <1>1, <1>2, <1>3
    <3>2. n > 1
      <4>1. sh => n > LastRow
        BY DEF Shown
      <4> QED BY <4>1, <2>3, <1>0, <1>1, <1>12
    <3>3. Cell(n, j) \in RowStart(n - 1) .. RowStart(n - 1) + RowStart(n - 1) - 1
      <4>1. 1 \in Nat /\ n - 1 \in Nat /\ 1 <= n - 1
        BY <3>2, <1>1
      <4>2. RowStart(1) <= RowStart(n - 1) /\ RowStart(n - 1) \in Nat
        BY <4>1, RowStartMonotone
      <4>3. RowStart(1) = Columns
        BY <1>0 DEF RowStart
      <4>4. Cell(n, j) = RowStart(n - 1) + j - 1
        BY DEF Cell
      <4> QED BY <4>2, <4>3, <4>4, <1>0
    <3>4. v1[Cell(n, j)] = "blank"
      BY <2>3, <3>3, <1>5, <1>10
    <3> QED BY <2>3, <3>1, <3>4, <1>8, <1>10
  <2> QED BY <2>1, <2>2, <2>3
<1>13. Rows(u)
  <2>1. \A k \in 1 .. n : Len(u[k]) <= Columns
    <3>1. ASSUME NEW k \in 1 .. n, k # n PROVE Len(u[k]) <= Columns
      BY <3>1, <1>1, <1>3 DEF Rows
    <3>2. Len(u[n]) = Len(l) + 1
      BY <1>2, <1>3, Zenon
    <3> HIDE DEF u, n, l
    <3>3. Len(u[n]) <= Columns
      BY <3>2, <1>0, <1>1
    <3> QED BY <3>1, <3>3
  <2>2. n \in 1 .. LastRow + 2 /\ n # LastRow + 2
    BY <1>0, <1>1
  <2> QED BY <2>1, <2>2, <1>3 DEF Rows
<1>14. [c EXCEPT !.column = @ + 1] = [row |-> Len(u) - 1, column |-> Len(u[Len(u)])]
  BY <1>1, <1>2, <1>3
<1> HIDE DEF u, n, l
<1>15. sh \in BOOLEAN /\ (sh => Len(u) > LastRow)
  BY <1>3 DEF Shown, n
<1>16. Shown([c EXCEPT !.column = @ + 1], v2, u, sh)
  BY <1>8, <1>11, <1>12, <1>13, <1>14, <1>15 DEF Shown
<1> QED BY <1>16 DEF u, n, v2, v1

\* The whole state of ScreenText.
Displayed == Shown(cursor, video, text, shifted)

\* One call of console_putc shows one character more.
LEMMA PutcShows ==
    ASSUME Displayed, NEW ch \in Chars \cup {Newline}, Putc(ch)
    PROVE  Displayed'
<1> DEFINE full == Len(text[Len(text)]) = Columns
           rows == IF full THEN Append(text, <<>>) ELSE text
           w == IF AtLineEnd(cursor) THEN NextRow(cursor) ELSE cursor
           below == BelowLastRow(w)
           kept == IF Len(rows) > LastRow + 1 THEN Tail(rows) ELSE rows
           s == IF below THEN Scrolled ELSE w
           v == IF below THEN ScrollUp(video, w) ELSE video
           sh == shifted \/ below
<1>0. LastRow \in Nat /\ Columns \in Nat /\ Columns >= 1
  BY GeometryAssumption
<1>1. /\ Rows(text) /\ Len(text) \in Nat /\ Len(text[Len(text)]) \in Nat
      /\ Len(text[Len(text)]) <= Columns /\ cursor.column = Len(text[Len(text)])
      /\ shifted \in BOOLEAN
  BY LastRowOf DEF Displayed, Shown
<1>2. AtLineEnd(cursor) <=> full
  BY <1>0, <1>1 DEF AtLineEnd
<1>3. Shown(w, video, rows, shifted) /\ Len(rows[Len(rows)]) < Columns
  <2>1. CASE full
    <3>1. text[Len(text)] # <<>>
      BY <2>1, <1>0
    <3>2. Len(text) <= LastRow + 1
      BY <3>1, <1>0, <1>1 DEF Rows
    <3>3. Shown(NextRow(cursor), video, Append(text, <<>>), shifted)
      BY <3>2, NewRow DEF Displayed
    <3>4. text \in Seq(Seq(Chars))
      BY <1>1 DEF Rows
    <3>5. Append(text, <<>>)[Len(Append(text, <<>>))] = <<>>
      BY <3>4
    <3>6. rows = Append(text, <<>>) /\ w = NextRow(cursor)
      BY <2>1, <1>2
    <3>7. Len(rows[Len(rows)]) = 0
      BY <3>5, <3>6
    <3> HIDE DEF rows, w
    <3> QED BY <3>3, <3>6, <3>7, <1>0
  <2>2. CASE ~full
    <3>1. rows = text /\ w = cursor
      BY <2>2, <1>2
    <3>2. Len(text[Len(text)]) < Columns
      BY <2>2, <1>0, <1>1
    <3> HIDE DEF rows, w
    <3> QED BY <3>1, <3>2 DEF Displayed
  <2> QED BY <2>1, <2>2
<1> HIDE DEF rows, w, full
<1>4. below <=> Len(rows) > LastRow + 1
  <2>1. Len(rows) \in Nat /\ w.row = Len(rows) - 1
    BY <1>3, LastRowOf DEF Shown
  <2> QED BY <2>1, <1>0 DEF BelowLastRow
<1>5. /\ Shown(s, v, kept, sh) /\ Len(kept) <= LastRow + 1
      /\ Len(kept[Len(kept)]) < Columns
  <2>1. CASE below
    <3>1. /\ Shown(Scrolled, ScrollUp(video, w), Tail(rows), TRUE)
          /\ Len(Tail(rows)) <= LastRow + 1 /\ Tail(rows)[Len(Tail(rows))] = <<>>
      BY <2>1, <1>3, <1>4, ScrollShows
    <3>2. /\ s = Scrolled /\ v = ScrollUp(video, w) /\ kept = Tail(rows) /\ sh = TRUE
      BY <2>1, <1>4
    <3> HIDE DEF s, v, kept, sh, below
    <3>3. Len(kept[Len(kept)]) = 0
      BY <3>1, <3>2
    <3>4. Shown(s, v, kept, sh) /\ Len(kept) <= LastRow + 1
      BY <3>1, <3>2, Zenon
    <3>5. Len(kept[Len(kept)]) < Columns
      BY <3>3, <1>0
    <3> QED BY <3>4, <3>5
  <2>2. CASE ~below
    <3>1. s = w /\ v = video /\ kept = rows /\ sh = shifted
      BY <2>2, <1>1, <1>4
    <3>2. Len(rows) <= LastRow + 1
      <4>1. Len(rows) \in Nat
        BY <1>3, LastRowOf DEF Shown
      <4> QED BY <4>1, <2>2, <1>0, <1>4
    <3> HIDE DEF s, v, kept, sh, below
    <3> QED BY <3>1, <3>2, <1>3
  <2> QED BY <2>1, <2>2
<1>6. text' = IF ch = Newline THEN Append(kept, <<>>)
              ELSE [kept EXCEPT ![Len(kept)] = Append(@, ch)]
  BY DEF Putc, Typed, rows, full
<1>7. /\ cursor' = IF ch = Newline THEN NextRow(s) ELSE [s EXCEPT !.column = @ + 1]
      /\ video' = IF ch = Newline THEN v ELSE WriteChar(ClearRow(v, s), s, ch)
      /\ shifted' = sh
  BY DEF Putc, w
<1> HIDE DEF s, v, kept, sh, below
<1>8. CASE ch = Newline
  BY <1>5, <1>6, <1>7, <1>8, NewRow DEF Displayed
<1>9. CASE ch # Newline
  BY <1>5, <1>6, <1>7, <1>9, CharShows DEF Displayed
<1> QED BY <1>8, <1>9

\* Before the first call nothing is printed and nothing promised.
LEMMA EmptyScreen == TextInit => Displayed
<1> SUFFICES ASSUME TextInit PROVE Displayed
  OBVIOUS
<1>0. LastRow \in Nat /\ Columns \in Nat /\ Columns >= 1
  BY GeometryAssumption
<1>1. /\ text = << <<>> >> /\ shifted = FALSE /\ cursor = [row |-> 0, column |-> 0]
      /\ video = [i \in Cells |-> "old"]
  BY DEF TextInit, Home, Cells, Old
<1>2. /\ text \in Seq(Seq(Chars)) /\ Len(text) = 1 /\ text[1] = <<>> /\ Len(text[1]) = 0
  <2>1. <<>> \in Seq(Chars)
    OBVIOUS
  <2> QED BY <1>1, <2>1
<1>3. Rows(text)
  BY <1>0, <1>2 DEF Rows
<1>4. video \in Memory
  BY <1>1 DEF Memory, Values
<1>5. Printed(video, text) /\ Clean(video, text, shifted)
  BY <1>0, <1>1, <1>2 DEF Printed, Clean
<1>6. cursor = [row |-> Len(text) - 1, column |-> Len(text[Len(text)])]
  BY <1>1, <1>2
<1> QED BY <1>1, <1>3, <1>4, <1>5, <1>6 DEF Displayed, Shown

\* The relation of screen and text holds after any number of calls.
THEOREM ScreenInvariant == TextSpec => []Displayed
<1>1. Displayed /\ [TextNext]_textVars => Displayed'
  <2> SUFFICES ASSUME Displayed, [TextNext]_textVars PROVE Displayed'
    OBVIOUS
  <2>1. CASE TextNext
    BY <2>1, PutcShows DEF TextNext
  <2>2. CASE UNCHANGED textVars
    BY <2>2 DEF textVars, Displayed
  <2> QED BY <2>1, <2>2
<1> QED BY <1>1, EmptyScreen, PTL DEF TextSpec

\* The screen shows the text printed, for every geometry: through wraps,
\* newlines on full rows, and a scroll whose memcpy overlaps itself.
THEOREM ScreenShowsText == TextSpec => []ShowsText
<1>1. Displayed => ShowsText
  <2> SUFFICES ASSUME Displayed PROVE ShowsText
    OBVIOUS
  <2>1. /\ Rows(text) /\ Printed(video, text)
        /\ cursor = [row |-> Len(text) - 1, column |-> Len(text[Len(text)])]
    BY DEF Displayed, Shown
  <2>2. ASSUME NEW k \in 1 .. Len(text), NEW j \in 1 .. Len(text[k])
        PROVE  video[RowStart(k - 1) + j - 1] = text[k][j]
    <3>1. Len(text[k]) \in 0 .. Columns
      BY <2>1, LastRowOf
    <3>2. j \in 1 .. Columns /\ j <= Len(text[k])
      BY <3>1, GeometryAssumption
    <3>3. video[Cell(k, j)] = text[k][j]
      BY <3>2, <2>1 DEF Printed
    <3> QED BY <3>3 DEF Cell, RowStart
  <2> QED BY <2>1, <2>2 DEF ShowsText
<1> QED BY <1>1, ScreenInvariant, PTL

\* Behind its text a printed row is blank, on every screen of at least two
\* rows: what clears a row is as long as the rows above it.
THEOREM ScreenRowsClean ==
    ASSUME LastRow > 0
    PROVE  TextSpec => []PrintedRowsClean
<1>1. Displayed => PrintedRowsClean
  <2> SUFFICES ASSUME Displayed, NEW k \in 1 .. Len(text), text[k] # <<>>, k > 1 \/ shifted,
                      NEW j \in Len(text[k]) + 1 .. Columns
               PROVE  video[RowStart(k - 1) + j - 1] = Blank
    BY DEF PrintedRowsClean, RowIsClean
  <2>1. Rows(text) /\ Clean(video, text, shifted)
    BY DEF Displayed, Shown
  <2>2. Len(text[k]) \in 0 .. Columns
    BY <2>1, LastRowOf
  <2>3. j \in 1 .. Columns /\ j > Len(text[k])
    BY <2>2, GeometryAssumption
  <2>4. video[Cell(k, j)] = "blank"
    BY <2>1, <2>3 DEF Clean
  <2> QED BY <2>4 DEF Cell, RowStart, Blank
<1> QED BY <1>1, ScreenInvariant, PTL
=============================================================================
