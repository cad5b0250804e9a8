\* Eight accesses of notice for eight reads.
SPECIFICATION FairSpec
CONSTANTS
    Lead = 8
    Rest = 2
    Instants <- MCInstants
    Modes <- MCModes
INVARIANTS TypeOK NotTorn ReadsOneInstant
PROPERTY CallReturns
CHECK_DEADLOCK FALSE
