\* Two lines of any kind, of one client or of two.
CONSTANTS
    c1 = c1
    c2 = c2
    s1 = s1
    NoSsid = NoSsid
    Clients = {c1, c2}
    Kinds <- Lines
    Ssids = {s1}
    MaxLines = 2
    MaxScans = 2
    MaxAttempts = 2
    MaxDisconnects = 1
SYMMETRY Symmetry
SPECIFICATION Spec
INVARIANTS
    TypeOK
    AnswersInOrder
    ToldAfterTheFact
