\* Two requests at a time; the clock passes the exp of one token and the skew
\* after it, and several lives of the list.
CONSTANTS
    short = short
    anonymous = anonymous
    f1 = f1
    f2 = f2
    Tokens <- AllTokens
    Named <- JtiTokens
    Exp <- Expiry
    Fibers <- TwoFibers
    Skew = 1
    Ttl = 2
    MaxFetch = 1
    MaxTime = 8
SPECIFICATION FairSpec
PROPERTIES
    RevocationTakesEffect
    RefusalIsFinal
    OutageEndsWithTtl
    LateByOneFetch
    EveryCheckEnds
