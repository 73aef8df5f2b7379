\* Two lines about the connection, or that are no request, of one client or of two.
CONSTANTS
    c1 = c1
    c2 = c2
    s1 = s1
    NoSsid = NoSsid
    Clients = {c1, c2}
    Kinds = {"connect", "connect bad psk", "connect torn psk", "disconnect", "garbage", "binary"}
    Ssids = {s1}
    MaxLines = 2
    MaxScans = 0
    MaxAttempts = 2
    MaxDisconnects = 1
SPECIFICATION FairSpec
PROPERTIES
    RequestsAreAnswered
    AttemptEnds
