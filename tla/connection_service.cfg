\* Two callers, two networks, two attempts and two disconnects that may overlap
\* with them and with each other.
CONSTANTS
    c1 = c1
    c2 = c2
    s1 = s1
    s2 = s2
    NoSsid = NoSsid
    Callers <- MCCallers
    Ssids <- MCSsids
    MaxAttempts = 2
    MaxDisconnects = 2
SYMMETRY Symmetry
SPECIFICATION Spec
INVARIANTS
    TypeOK
    ConnectingHasTask
    SingleAttempt
    OutcomeIsLatest
    ConnectedToTarget
PROPERTIES
    ImplementsPromise
