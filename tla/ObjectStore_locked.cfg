CONSTANTS
    Writers = {w1, w2, w3}
    Locked = {w1, w2, w3}
    Crashable = {w1, w2, w3}
    Contents = {a, b}
    Inodes = {i1, i2, i3}
    Empty = Empty
    Mixed = Mixed
    Nothing = Nothing
SPECIFICATION PutSpec
INVARIANTS ReadersSeeWhole
PROPERTIES WriteLands
