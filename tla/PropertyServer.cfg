SPECIFICATION FairSpec
CONSTANTS
    Clients = {c1, c2, c3}
    None = None
    Commands = 1
INVARIANTS ServerHasSession OneClientServed RunsWhileServing
PROPERTIES StateReachesClient PostedIsSent ExitReturns
CHECK_DEADLOCK FALSE
