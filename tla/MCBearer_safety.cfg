\* Every kind of request, two at a time, around one rotation that withdraws key 1 (Kept = 1);
\* the clock passes the ttl and a fetch after it.
CONSTANTS
    c1 = c1
    c2 = c2
    Callers <- TwoCallers
    Ttl = 1
    MinRefresh = 2
    Start = 2
    MaxTime = 5
    MaxVersion = 2
    Skew = 1
    Kept = 1
    MaxFetch = 1
    Requests <- AllRequests
    Options <- Defaults
SPECIFICATION BearerSpec
SYMMETRY Symmetry
INVARIANTS
    BearerTypeOK
    NoOutageOnceWarm
    OnlyAccessTokensPass
PROPERTIES
    RotationOnlyDelays
    WithdrawnKeysDie
    ForgedOnlyWhileStale
