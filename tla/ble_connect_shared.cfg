\* Two centrals hand over their networks through one session, or give up half-way;
\* one connect that is accepted, others that are refused, and one disconnect.
CONSTANTS
    c1 = c1
    c2 = c2
    n1 = n1
    n2 = n2
    NoSsid = NoSsid
    NoNetwork = NoPsk
    Centrals = {c1, c2}
    Networks = {n1, n2}
    MidCharacter = {n1, n2}
    MaxParts = 3
    MaxAttempts = 1
    MaxDisconnects = 1
SYMMETRY Symmetry
SPECIFICATION Spec
INVARIANTS
    TypeOK
    NothingLeftBehind
PROPERTIES
    UndisturbedConnectsOwn
