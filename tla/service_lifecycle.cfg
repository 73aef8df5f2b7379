\* One program with any options or two that share a path, and up to two signals,
\* crashes or I/O errors.
CONSTANTS
    a = a
    b = b
    Programs = {a, b}
    Deployments <- MCDeployments
    MaxFaults = 2
SPECIFICATION FairSpec
INVARIANTS
    TypeOK
    SomebodyListens
    WaitsForSomething
PROPERTIES
    ListenerOutlivesBle
    SignalIsObeyed
    ClientIsServed
