\* Two callers, two scans, one reset that may meet a running scan, and a radio
\* that brings two lists.
CONSTANTS
    c1 = c1
    c2 = c2
    Callers <- MCCallers
    MaxScans = 2
    MaxResets = 1
    MaxLists = 2
    Lists <- MCLists
SPECIFICATION BackendSpec
INVARIANTS
    BackendTypeOK
    ScanningHasTask
    SingleFlight
    OutcomeIsLatest
    FreshForCallerIfPrompt
    NetworksMatchTheList
PROPERTIES
    ImplementsPromise
    ScanEnds
