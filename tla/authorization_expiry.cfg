\* One central that goes on after its authorization has run out.
CONSTANTS
    Centrals = {c1}
    Timeout = 2
    MaxTime = 5
    MaxKeys = 1
SPECIFICATION Spec
PROPERTIES
    AdmittedWhileAuthorized
