\* Presses of the power button around its set-up, with a fair processor.
SPECIFICATION FairSpec
CONSTANTS
    Room = 3
    MaxExc = 0
    MaxEvents = 2
PROPERTY PowerButtonWorks
