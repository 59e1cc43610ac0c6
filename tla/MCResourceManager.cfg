CONSTANTS
    texture = texture
    view = view
    frameBuffer = frameBuffer
    image = image
    asset = asset
    Dynamic <- MCDynamic
    Assets <- MCAssets
    Parts <- MCParts
    Given <- MCGiven
    Loadable <- MCLoadable
    CanFail <- MCTextureFails
SPECIFICATION Spec
INVARIANT FlagsTellObject EdgesAreCurrent CreatedFromKnown OkIsLive

PROPERTY ImplementsProtocol
