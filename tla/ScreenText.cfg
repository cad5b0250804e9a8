\* Calls of console_putc before interrupts are enabled.
SPECIFICATION TextSpec
CONSTANTS
    Columns = 2
    LastRow = 3
    Window = 16
    Chars = {"a", "b"}
INVARIANTS ShowsText PrintedRowsClean
