\* A client registered for the refresh token grant alone.
CONSTANTS
    s1 = s1
    s2 = s2
    Services <- TwoServices
    Requests <- AllRequests
    Bodies <- OnlyRefresh
    Documents <- AllDocuments
    Policies <- AllPolicies
    Issuer <- Home
    MaxClients = 2
    MaxSecrets = 2
SPECIFICATION Spec
INVARIANTS
    RefreshTokensAreObtainable
