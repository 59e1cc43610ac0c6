CONSTANTS
    Pass = {0, 1, 2, 3}
    Adjacencies <- MCAdjacencies
SPECIFICATION FairSpec
INVARIANTS
    AllLinkedPushed
PROPERTIES
    Terminates
    ImplementsPassOrder
