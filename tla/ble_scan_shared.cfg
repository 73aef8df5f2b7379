\* Two centrals share the offset, one connection may drop, and the Unix socket
\* starts scans, too.
CONSTANTS
    Centrals = {c1, c2}
    Others = {u1}
    MaxScans = 2
    MaxReconnects = 1
    MaxChunk = 2
    Length <- MCLength
    c1 = c1
    c2 = c2
    u1 = u1
SYMMETRY Symmetry
SPECIFICATION Spec
INVARIANTS
    TypeOK
    SliceInBounds
    UndisturbedTransferIsWhole
    FinishedMeansResults
