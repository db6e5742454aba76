\* Two copies of a service and a stranger over every document and policy.
CONSTANTS
    s1 = s1
    s2 = s2
    Services <- TwoServices
    Requests <- AllRequests
    Bodies <- AllBodies
    Documents <- AllDocuments
    Policies <- AllPolicies
    Issuer <- Home
    MaxClients = 2
    MaxSecrets = 2
SPECIFICATION Spec
SYMMETRY Symmetry
INVARIANTS
    RegistrationTypeOK
    OutcomeTellsTheTruth
    CredentialsAreCurrent
    OneClientPerSoftware
    TokensStayAtTheIssuer
    RegisteredFlowsComplete
