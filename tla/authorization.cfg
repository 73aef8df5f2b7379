\* Two centrals, a timeout of two ticks, and time enough for it to pass twice.
CONSTANTS
    Centrals = {c1, c2}
    Timeout = 2
    MaxTime = 7
    MaxKeys = 3
SPECIFICATION Spec
INVARIANTS
    TypeOK
    GrantIsRecent
    AdmittedAfterGrant
PROPERTIES
    AcceptedIsServed
