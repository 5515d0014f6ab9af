SPECIFICATION Spec
CONSTANTS
    Files = {f1, f2}
    Sounds = {s1}
    NoFile = nofile
    MaxMusic = 4
    Calls <- AllCalls
SYMMETRY FileSymmetry
INVARIANTS
    TypeOK
    LoopingReachable
    BgmDucked
    LastIsPlayed
    NoUpdateAfterClose
PROPERTIES
    NoResurrection
