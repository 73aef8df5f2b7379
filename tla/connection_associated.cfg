\* One attempt, no disconnect.
CONSTANTS
    c1 = c1
    c2 = c2
    s1 = s1
    s2 = s2
    NoSsid = NoSsid
    Callers <- MCCallers
    Ssids <- MCSsids
    MaxAttempts = 1
    MaxDisconnects = 0
SPECIFICATION Spec
INVARIANTS
    ConnectedMeansAssociated
