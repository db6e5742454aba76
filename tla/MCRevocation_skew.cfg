\* One request at a time, past the exp of a revoked token but not past the
\* skew both ends allow.
CONSTANTS
    short = short
    anonymous = anonymous
    f1 = f1
    f2 = f2
    Tokens <- AllTokens
    Named <- JtiTokens
    Exp <- Expiry
    Fibers <- OneFiber
    Skew = 1
    Ttl = 2
    MaxFetch = 1
    MaxTime = 8
SPECIFICATION Spec
PROPERTIES
    EntriesExpireWithTokens
