\* One cell with two node runs; the caller may stop at any time.
SPECIFICATION LiveSpec
CONSTANTS
    Cells = {c1}
    Runs = {r1, r2}
    CellOf <- MCCellOf
    Dispatchers = {d1}
    MaxLeases = 2
    MaxEvents = 2
    MaxTries = 1
    MaxKids = 2
    MaxFaults = 1
INVARIANTS
    NoZombieWrites
    DeliveredIsStored
    SeqsAreDistinct
PROPERTIES
    EveryEventArrives
CHECK_DEADLOCK FALSE
