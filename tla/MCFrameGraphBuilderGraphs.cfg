CONSTANTS
    MaxPass = 3
    MaxResource = 5
    MaxReferences = 2
    MaxDependency = 2
    Calls = {"createTexture", "registerTexture", "writeColor", "readAttachment", "readTexture", "createPassDependency", "failSetup"}
    Sizes = {1}
    Ranges <- WholeOnly
    Formats = {"R8G8B8A8"}
    Requested = {"Automatic"}
    FormatClass <- BitClass
    Permitted <- AllUsages
    Validating = FALSE
SPECIFICATION FairSpec
INVARIANTS
    SourcesRunFirst
    AttachmentsConsistent
    SubjacentIsRoot
    ReferenceCounts
    SubpassesSynchronized
    AttachmentsNumberedAlike
    EdgesFollowSpawning
    OnlyIsolatedOmitted
PROPERTIES
    CompileReturns
CONSTRAINT MCBound
