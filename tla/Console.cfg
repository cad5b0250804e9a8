\* A screen of 3 columns and 3 rows; the window is as small as the bound allows.
SPECIFICATION Spec
CONSTANTS
    Columns = 3
    LastRow = 2
    Window = 21
INVARIANTS TypeOK InWindow
