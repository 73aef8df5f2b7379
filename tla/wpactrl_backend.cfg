\* Two attempts, command by command, and one disconnect that may fall between
\* any two commands; the program may be killed once, anywhere.
CONSTANTS
    c1 = c1
    c2 = c2
    Callers = {c1, c2}
    Ssids = {s1}
    NoSsid = NoSsid
    MaxAttempts = 2
    MaxDisconnects = 1
    MaxKills = 1
SYMMETRY Symmetry
SPECIFICATION RestartSpec
INVARIANTS
    RestartTypeOK
    OwnCredentials
    OnlyTargetJoinable
    IdleJoinsOnlyInherited
