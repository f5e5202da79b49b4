CONSTANTS
    Writers = {w1, w2, w3}
    Locked = {}
    Crashable = {}
    Contents = {a, b}
    Inodes = {i1, i2, i3, i4, i5}
    Empty = Empty
    Mixed = Mixed
    Nothing = Nothing
SPECIFICATION PutSpec
INVARIANTS ObjectReadersSeeWhole
