\* Periods 1, 6, 9 and 15: polls may come later than a period, or never do.
SPECIFICATION FairSpec
CONSTANTS
    Word = 32
    Fallback = 2
    CalWindow = 2
    Ratio = 3
    Measured = {1, 7, 10, 22}
    Amounts = {0, 1, 2, 4, 12}
    ZeroVisible = TRUE
    MaxGap = 7
    MaxTicks = 60
INVARIANTS TypeOK NeverEarly Punctual
PROPERTY DelayReturns
