CONSTANTS
    MaxPass = 2
    MaxResource = 3
    MaxReferences = 2
    MaxDependency = 0
    Calls = {"importTexture", "createTexture", "writeColor", "writeDepth", "readTexture", "forwardTexture", "acceptTexture", "useMesh", "useMaterial", "registerRenderables"}
    Sizes = {3}
    Ranges <- Nested
    Formats = {"R8G8B8A8", "R32"}
    Requested = {"Automatic", "B8G8R8A8"}
    FormatClass <- BitClass
    Permitted <- SomeUsages
    Validating = TRUE
SPECIFICATION Spec
INVARIANTS
    CompiledViewsUsable
    TexturesReadyForViews
