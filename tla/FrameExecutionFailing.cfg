SPECIFICATION FairSpec
CONSTANTS
    ImageCounts = {1, 2}
    PassCounts = {1, 2}
    MaxRecreations = 1
    AcquireResults = {"SUCCESS", "SUBOPTIMAL"}
    PresentResults = {"SUCCESS", "SUBOPTIMAL"}
    Failures = {"bind", "pass", "output"}
INVARIANT
    PresentsWhatItAcquired
PROPERTY
    FrameReturns
