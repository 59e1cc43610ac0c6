SPECIFICATION Spec
CONSTANTS
    ImageCounts = {3}
    PassCounts = {2}
    MaxRecreations = 2
    AcquireResults = {"SUCCESS", "OUT_OF_DATE", "ERROR"}
    PresentResults = {"SUCCESS", "SUBOPTIMAL", "ERROR"}
    Failures = {"wait", "bind", "pass"}
INVARIANTS
    SemaphoresAlternate
    BuffersNotInUse
    SubpassesAgree
