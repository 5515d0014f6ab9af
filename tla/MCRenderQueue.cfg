SPECIFICATION FairSpec
CONSTANTS
    MaxRenderables = 3
INVARIANTS
    TypeOK
    RegistryExact
    FrameExact
    HeldIsListed
PROPERTIES
    GarbageIsRemoved
    StageSpec
