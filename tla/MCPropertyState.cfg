SPECIFICATION StateSpec
CONSTANTS
    Objects = {1, 2, 3, 4, 5, 6, 7, 8, 9, 10, 11, 12}
    Keys = {1, 2}
    Maps <- MCMaps
    Added <- MCAdded
    Modes = {TRUE}
    Writables = {FALSE}
    MaxCapacity = 2
    MaxUid = 7
    MaxGenerated = 6
    MaxObjects = 4
    MaxHandlers = 1
    Documents <- MCDocuments
    Continued <- MCContinued
    None = None
    Missing = Missing
INVARIANTS ObservesItself ObserversAreOrigins CalledOnce CallsOwnOrOrigins WrittenIsRead
PROPERTIES PathsLeadToLeaves
CONSTRAINT MCBound
CHECK_DEADLOCK FALSE
