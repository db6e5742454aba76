\* Tokens of the key the issuer is about to publish: every request may have to
\* refresh, and the refresh may come too early.
CONSTANTS
    c1 = c1
    c2 = c2
    Callers <- TwoCallers
    Ttl = 2
    MinRefresh = 2
    Start = 2
    MaxTime = 3
    MaxVersion = 2
    Skew = 1
    Kept = 1
    MaxFetch = 1
    Requests <- NextKeyRequests
    Options <- Defaults
SPECIFICATION BearerFairSpec
PROPERTIES
    EveryRequestIsAnswered
