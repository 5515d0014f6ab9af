SPECIFICATION Spec
CONSTANTS
    Scenes = {s1, s2, s3}
    Toned = {s2}
    Solid = {s1}
    Sizes = {normal, large}
    Durations = {0, 1, 7, 60}
    Levels = {0, 255}
    None = None
    Blank = Blank
    Part = Part
INVARIANTS
    TypeOK
    TransitionReleases
    FadeIsComplete
PROPERTY
    FrozenIsShown
