\* One program with BLE.
CONSTANTS
    a = a
    b = b
    Programs = {a, b}
    Deployments <- MCDeployments
    MaxFaults = 0
SPECIFICATION Spec
INVARIANTS PublishedWhileRunning
