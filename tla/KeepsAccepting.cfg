SPECIFICATION Spec
CONSTANTS
    Clients = {c1, c2}
    None = None
    Commands = 1
INVARIANT KeepsAccepting
CHECK_DEADLOCK FALSE
