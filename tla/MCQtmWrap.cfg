SPECIFICATION Spec
CONSTANTS
    Requests = {1, 2, 5}
    Totals <- MCTotals
    LzxFrame = 3
    LzxWindow = 6
    LzxOffsets = {1, 5}
    LzxLengths = {2, 3}
    LzxRepeats <- MCLzxRepeats
    LzxOptions <- MCLzxOptions
    ZipFrame = 4
    ZipOffsets = {1, 3}
    ZipLengths = {3}
    ZipBlocks = 2
    QtmFrame = 8
    QtmWindow = 4
    QtmOffsets = {1, 3}
    QtmLengths = {3}
INVARIANTS
    MatchFitsTheCall
CHECK_DEADLOCK FALSE
