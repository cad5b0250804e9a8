\* Every layout of the firmware's tables over the frames of MCAcpi.
SPECIFICATION AcpiSpec
CONSTANTS
    NDir = 4
    NPage = 7
    NTables = 2
    VmaDir = 2
    KernelLast = 0
    KernelEndWord = 0
    PgdirPage = 1
    FirstTablePage = 2
    ApicDir = 3
    IoApicPage = 0
    LApicPage = 2
    MaxTlb = 0
    CallLins <- NoCalls
    CallFrames <- NoCalls
    EbdaRsdts <- MCEbdaRsdts
    BiosRsdts <- MCBiosRsdts
    TableFrames <- MCTableFrames
    PerPage = 2
    Header = 2
    Lengths = {0, 2, 3, 4}
    Word = 8
INVARIANTS AcpiTypeOK SafeIfFits DamageConfined
PROPERTIES RespectsContract PowerButtonArmed
