\* Callers that respect the contract of the map functions.
SPECIFICATION Spec
CONSTANTS
    NDir = 4
    NPage = 5
    NTables = 3
    VmaDir = 2
    KernelLast = 0
    KernelEndWord = 0
    PgdirPage = 1
    FirstTablePage = 2
    ApicDir = 3
    IoApicPage = 0
    LApicPage = 2
    MaxTlb = 1
    CallLins <- MCCallLins
    CallFrames <- MCCallFrames
INVARIANTS TypeOK PoolOwnership NoStrayStore BootMappingsHold TlbCoherent
PROPERTY ImplementsAddressSpace
