\* What reaches kmain as the multiboot magic.
SPECIFICATION BootSpec
CONSTANTS
    NDir = 4
    NPage = 6
    NTables = 3
    VmaDir = 2
    KernelLast = 0
    KernelEndWord = 0
    PgdirPage = 1
    FirstTablePage = 2
    ApicDir = 3
    IoApicPage = 0
    LApicPage = 2
    MaxTlb = 0
    CallLins <- NoCalls
    CallFrames <- NoCalls
    KernelPage = 5
    StubTables <- MCStubTables
INVARIANT MagicReachesKmain
