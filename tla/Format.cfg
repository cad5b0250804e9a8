\* All format strings of up to six characters.
SPECIFICATION FormatSpec
CONSTANTS
    Word = 256
    Chars <- MCChars
    MaxFmt = 6
    Unsigneds <- MCUnsigneds
    Signeds <- MCSigneds
    Strings <- MCStrings
    Widest = 4
    Room = 14
INVARIANTS PrintsText WritesOnlyText ClearAhead
CHECK_DEADLOCK FALSE
