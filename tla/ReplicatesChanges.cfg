SPECIFICATION StateSpec
CONSTANTS
    Objects = {1, 2, 3, 4, 5, 6}
    Keys = {1, 2}
    Maps <- MCMaps
    Added = {}
    Modes = {}
    Writables = {}
    MaxCapacity = 2
    MaxUid = 7
    MaxGenerated = 2
    MaxObjects = 2
    MaxHandlers = 1
    Documents <- MCContinued
    Continued <- MCContinued
    None = None
    Missing = Missing
INVARIANT ReplicatesChanges
CHECK_DEADLOCK FALSE
