SPECIFICATION Spec
CONSTANTS
    c1 = c1
    c2 = c2
    c3 = c3
    c4 = c4
    c5 = c5
    NULL = NULL
    Cabs = {c1, c2, c3, c4, c5}
    Image <- MCStoredImage
    Found <- MCFound
    JoinArgs <- MCJoinArgs
    BlockMax = 2
    BufSize = 3
    MaxBlock = 3
PROPERTIES
    StoredIsSound
