\* One exception and two interrupts, around every step of the boot.
SPECIFICATION FairSpec
CONSTANTS
    Room = 3
    MaxExc = 1
    MaxEvents = 2
INVARIANTS TypeOK StackFits InServiceIsRunning
PROPERTY RequestsServed
