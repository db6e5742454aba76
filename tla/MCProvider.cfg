\* Two requests at a time over two sign-ins and three refresh tokens; codes
\* and tokens expire in the run.
CONSTANTS
    r1 = r1
    r2 = r2
    Requests <- TwoRequests
    Clients <- TwoClients
    Redirects <- TwoRedirects
    Registered <- Registrations
    Verifiers <- TwoVerifiers
    Scopes <- TwoScopes
    Nonces <- TwoNonces
    Asks <- SomeAsks
    Texts <- SomeTexts
    Messages <- SomeMessages
    Service <- OneService
    CodeTtl = 1
    TokenTtl = 0
    KeyTtl = 5
    Skew = 1
    MaxTime = 2
    MaxCodes = 2
    MaxHandles = 3
SPECIFICATION ProviderSpec
SYMMETRY Symmetry
INVARIANTS
    ProviderTypeOK
    OneLiveCredential
    OnlyTheProverIsPaid
    TokensTellTheGrant
    EveryTokenHasItsReader
    ServiceIsKnown
PROPERTIES
    ImplementsGrantLife
