SPECIFICATION Spec
CONSTANTS
    NULL = NULL
    Indexed = Indexed
    Chained = Chained
    Chms = {Indexed, Chained}
    Names = {6, 7, 8}
    Image <- MCImage
    Frame = 2
INVARIANTS
    FindIsRight
    ExtractIsSound
    InStep
    SecondTrySucceeds
