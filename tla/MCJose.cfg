\* Messages of every family, altered up to twice.
CONSTANTS
    IllTyped = IllTyped
    JwsOffers <- SomeOffers
    JwsReceivers <- SomeReceivers
    JweOffers <- SomeLetters
    JweReceivers <- SomeReaders
    Others <- SomeOthers
    OtherPayload = "another"
    ProtectedEdits <- SomeProtectedEdits
    HeaderEdits <- SomeHeaderEdits
    ParameterEdits <- SomeParameterEdits
    OtherKeys <- SomeKeys
    Spares <- SomeSpares
    MaxAlterations = 2
SPECIFICATION Spec
CHECK_DEADLOCK FALSE
INVARIANTS
    MadeOpens
    OpenedIsAuthentic
    RsaFailuresAlike
    SpareKeysDoNoHarm
