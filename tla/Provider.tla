------------------------------ MODULE Provider -------------------------------
(***************************************************************************)
(* The token endpoint of src/examples/02-oidc-provider.ts: authorization   *)
(* codes bound to a PKCE challenge, redeemed once for tokens, the refresh  *)
(* token that comes with them, replaced at every use, and the client       *)
(* credentials grant, which stores nothing.                                *)
(*                                                                         *)
(* A request to the token endpoint is a fiber.  It runs without            *)
(* interruption up to its first await: the digest of the verifier in the   *)
(* code grant, the signing of the tokens in both grants.  Between two      *)
(* awaits other requests run, the client may hang up, signing may fail.    *)
(* Codes and refresh tokens are random and never reused: they are numbered *)
(* in the order they are minted.  A verifier and its S256 challenge are    *)
(* one value.  A scope is the set of its words.                            *)
(***************************************************************************)
EXTENDS Tokens, ClientAuth

CONSTANTS
    Requests,    \* fibers of the token endpoint
    Clients, Redirects, Verifiers, Scopes, Nonces,
    Registered,  \* the <<client, redirect>> pairs of the registration
    Asks,        \* the authorization requests that are made
    Texts,       \* the ids and secrets clients may have
    Messages,    \* the client credentials requests that are made
    Service,     \* registeredService: [name, id, secret, scopes]; the claims of
                 \* its tokens carry the name instead of the id's text
    CodeTtl,     \* how long a code may be redeemed
    TokenTtl,    \* how long access and id tokens live
    KeyTtl,      \* and api keys
    MaxTime, MaxCodes, MaxHandles    \* bounds

ASSUME RegisteredAssumption == Registered \subseteq Clients \X Redirects
ASSUME AskAssumption ==
    Asks \subseteq [client : Clients, redirect : Redirects, challenge : Verifiers,
                    scope : SUBSET Scopes, nonce : Nonces \cup {NoNonce}]
ASSUME TextAssumption == \A text \in Texts : text \in Seq(Range(text))
ASSUME MessageAssumption ==
    \A message \in Messages :
        /\ DOMAIN message = {"header", "id", "secret", "scope"}
        /\ message.header = <<>> \/ message.header = <<message.header[1]>>
ASSUME TtlAssumption == CodeTtl \in Nat /\ TokenTtl \in Nat /\ KeyTtl \in Nat
ASSUME BoundAssumption == MaxTime \in Nat /\ MaxCodes \in Nat /\ MaxHandles \in Nat

VARIABLES
    clock,
    codes,          \* [Codes -> Grant or Absent]
    refreshTokens,  \* [Handles -> Chain or Absent]
    minted,         \* how many codes there have been
    issued,         \* how many refresh tokens
    at,             \* where each request is
    held,           \* the grant it took out of the store
    proof,          \* the verifier it presented
    asked,          \* history: who presented what it holds, or the client
                    \* credentials request it is
    answer,         \* what it was answered
    authorized      \* history: the grant each code was minted for

storeVars == <<codes, refreshTokens, minted, issued, authorized>>
tokenVars == <<at, held, proof, asked, answer>>
providerVars == <<clock, storeVars, tokenVars>>

Codes == 1..MaxCodes
Handles == 1..MaxHandles
Absent == [absent |-> TRUE]

\* A PendingAuthorization, and what a RefreshGrant keeps of it; `code` is the
\* one it descends from.  A RefreshGrant has no nonce.
Grant == [code : Codes, client : Clients, redirect : Redirects, challenge : Verifiers,
          scope : SUBSET Scopes, nonce : Nonces \cup {NoNonce}, expires : Nat]
Chain == [code : Codes, client : Clients, scope : SUBSET Scopes, nonce : Nonces \cup {NoNonce}]

ChainOf(grant) ==
    [code |-> grant.code, client |-> grant.client, scope |-> grant.scope, nonce |-> grant.nonce]
Renewal(chain) == [chain EXCEPT !.nonce = NoNonce]

\* Who a request is of that presents a code or a refresh token and gets past the
\* store's checks; of a code, the redirect uri that came with it, and when.
CodePresented(client, redirect) == [client |-> client, redirect |-> redirect, when |-> clock]
TokenPresented(client) == [client |-> client]
Presented == [client : Clients, redirect : Redirects, when : Nat] \cup [client : Clients]

NoProof == -1
Errors == {"invalid_request", "invalid_grant", "invalid_client", "invalid_scope"}

\* An answer: the tokens in it, the refresh token if there is one, and
\* (history) the code of the sign-in they are of.
NoAnswer == [status |-> "none", tokens |-> {}, refresh |-> 0, code |-> 0]
Nobody == [NoAnswer EXCEPT !.status = "nobody"]    \* the request ended without one
Refused(error) == [NoAnswer EXCEPT !.status = error]
Granted(tokens) == [NoAnswer EXCEPT !.status = "ok", !.tokens = tokens]
IsAnswer(a) ==
    /\ a.status \in Errors \cup {"none", "nobody", "ok"}
    /\ a.refresh \in {0} \cup Handles
    /\ a.code \in {0} \cup Codes
    /\ a.tokens # {} <=> a.status = "ok"

\* What a sign-in's tokens are: the account's, and an id token for an OpenID
\* request only.
User == "user-123"
Issuer == "provider"
Api == "demo-api"
ASSUME NameAssumption == NoProof \notin Verifiers /\ Api \notin Clients
ASSUME AbsenceAssumption == None \notin Clients \cup {Service.name} /\ NoNonce \notin Nonces
ProviderKey == SigningKey(1)
UserTokens(chain) ==
    {IssueAccessToken(ProviderKey, Issuer, User, Api, chain.client, chain.scope, clock + TokenTtl)}
    \cup IF "openid" \in chain.scope
         THEN {IssueIdToken(ProviderKey, Issuer, User, chain.client, chain.nonce, clock + TokenTtl)}
         ELSE {}

\* A client that stands for itself: access tokens and nothing else.
OwnTokens(client, scope, ttl) ==
    {IssueAccessToken(ProviderKey, Issuer, client, Api, client, scope, clock + ttl)}

ProviderInit ==
    /\ clock = 0
    /\ codes = [c \in Codes |-> Absent]
    /\ refreshTokens = [h \in Handles |-> Absent]
    /\ minted = 0
    /\ issued = 0
    /\ at = [r \in Requests |-> "idle"]
    /\ held = [r \in Requests |-> Absent]
    /\ proof = [r \in Requests |-> NoProof]
    /\ asked = [r \in Requests |-> Absent]
    /\ answer = [r \in Requests |-> NoAnswer]
    /\ authorized = [c \in Codes |-> Absent]

Pass ==
    /\ clock < MaxTime
    /\ clock' = clock + 1
    /\ UNCHANGED <<storeVars, tokenVars>>

\* The grant a code is stored with.
Pend(code, ask) ==
    [code |-> code, client |-> ask.client, redirect |-> ask.redirect,
     challenge |-> ask.challenge, scope |-> ask.scope, nonce |-> ask.nonce,
     expires |-> clock + CodeTtl]

\* Mutation of Authorize: codes are not fresh.
AuthorizeSameCode(ask) ==
    /\ <<ask.client, ask.redirect>> \in Registered
    /\ minted' = 1
    /\ codes' = [codes EXCEPT ![1] = Pend(1, ask)]
    /\ authorized' = [authorized EXCEPT ![1] = Pend(1, ask)]
    /\ UNCHANGED <<clock, refreshTokens, issued, tokenVars>>

\* handleAuthorize, for a registered redirect uri; the user is signed in and
\* consents at once.
Authorize(ask) ==
    /\ <<ask.client, ask.redirect>> \in Registered
    /\ minted < MaxCodes
    /\ minted' = minted + 1
    /\ codes' = [codes EXCEPT ![minted'] = Pend(minted', ask)]
    /\ authorized' = [authorized EXCEPT ![minted'] = Pend(minted', ask)]
    /\ UNCHANGED <<clock, refreshTokens, issued, tokenVars>>

\* Request r goes on with a grant it has taken, or is over.
Hold(r, step, grant) ==
    /\ at' = [at EXCEPT ![r] = step]
    /\ held' = [held EXCEPT ![r] = grant]
    /\ UNCHANGED answer

End(r, result) ==
    /\ at' = [at EXCEPT ![r] = "done"]
    /\ held' = [held EXCEPT ![r] = Absent]
    /\ answer' = [answer EXCEPT ![r] = result]

\* Mutation of Redeemable: a code is anybody's who knows its redirect uri.
RedeemableByAnyClient(grant, client, redirect) ==
    grant # Absent /\ clock <= grant.expires /\ grant.redirect = redirect

\* What the code grant asks of a code before it looks at the verifier.
Redeemable(grant, client, redirect) ==
    /\ grant # Absent
    /\ clock <= grant.expires
    /\ grant.client = client
    /\ grant.redirect = redirect

\* Mutation of CodeGrant: a code is consumed only when it is good for the
\* request, and by the time its tokens are out.
CodeGrantKeepsCode(r, code, client, redirect, verifier) ==
    /\ at[r] = "idle"
    /\ UNCHANGED codes
    /\ proof' = [proof EXCEPT ![r] = verifier]
    /\ IF Redeemable(codes[code], client, redirect)
       THEN /\ Hold(r, "digest", codes[code])
            /\ asked' = [asked EXCEPT ![r] = CodePresented(client, redirect)]
       ELSE End(r, Refused("invalid_grant")) /\ UNCHANGED asked
    /\ UNCHANGED <<clock, refreshTokens, minted, issued, authorized>>

\* handleAuthorizationCodeGrant up to the digest: whatever becomes of the
\* request, the code is gone.
CodeGrant(r, code, client, redirect, verifier) ==
    /\ at[r] = "idle"
    /\ codes' = [codes EXCEPT ![code] = Absent]
    /\ proof' = [proof EXCEPT ![r] = verifier]
    /\ IF Redeemable(codes[code], client, redirect)
       THEN /\ Hold(r, "digest", codes[code])
            /\ asked' = [asked EXCEPT ![r] = CodePresented(client, redirect)]
       ELSE End(r, Refused("invalid_grant")) /\ UNCHANGED asked
    /\ UNCHANGED <<clock, refreshTokens, minted, issued, authorized>>

\* PKCE: the verifier must be the one of the challenge.
Digest(r) ==
    /\ at[r] = "digest"
    /\ IF proof[r] = held[r].challenge
       THEN Hold(r, "issue", ChainOf(held[r]))
       ELSE End(r, Refused("invalid_grant"))
    /\ UNCHANGED <<clock, storeVars, proof, asked>>

\* Mutation of RefreshGrant: the token is rotated when the new one is out.
RefreshGrantKeepsToken(r, handle, client) ==
    /\ at[r] = "idle"
    /\ IF refreshTokens[handle] # Absent /\ refreshTokens[handle].client = client
       THEN /\ Hold(r, "issue", refreshTokens[handle])
            /\ asked' = [asked EXCEPT ![r] = TokenPresented(client)]
       ELSE End(r, Refused("invalid_grant")) /\ UNCHANGED asked
    /\ UNCHANGED <<clock, storeVars, proof>>

\* handleRefreshTokenGrant up to the signing: a token presented by its client
\* is gone, one presented by another stays.
RefreshGrant(r, handle, client) ==
    /\ at[r] = "idle"
    /\ IF refreshTokens[handle] # Absent /\ refreshTokens[handle].client = client
       THEN /\ refreshTokens' = [refreshTokens EXCEPT ![handle] = Absent]
            /\ Hold(r, "issue", refreshTokens[handle])
            /\ asked' = [asked EXCEPT ![r] = TokenPresented(client)]
       ELSE /\ End(r, Refused("invalid_grant"))
            /\ UNCHANGED <<refreshTokens, asked>>
    /\ UNCHANGED <<clock, codes, minted, issued, authorized, proof>>

\* Mutation of Issue: the refresh token keeps the nonce of the sign-in.
IssueKeepsNonce(r) ==
    /\ at[r] = "issue"
    /\ issued < MaxHandles
    /\ issued' = issued + 1
    /\ refreshTokens' = [refreshTokens EXCEPT ![issued'] = held[r]]
    /\ End(r, [Granted(UserTokens(held[r])) EXCEPT !.refresh = issued', !.code = held[r].code])
    /\ UNCHANGED <<clock, codes, minted, authorized, proof, asked>>

\* issueTokens: signed, with a fresh refresh token.
Issue(r) ==
    /\ at[r] = "issue"
    /\ issued < MaxHandles
    /\ issued' = issued + 1
    /\ refreshTokens' = [refreshTokens EXCEPT ![issued'] = Renewal(held[r])]
    /\ End(r, [Granted(UserTokens(held[r])) EXCEPT !.refresh = issued', !.code = held[r].code])
    /\ UNCHANGED <<clock, codes, minted, authorized, proof, asked>>

\* handleClientCredentialsGrant.  It reads and writes no store, so its awaits
\* (two digests, a signature) are no steps of their own.  No scope stands for
\* all of the registration, an empty one is a word that no registration has.
ServiceAnswer(message) ==
    LET auth == ClientAuthentication(message)
        scope == IF message.scope = <<>> THEN Service.scopes ELSE message.scope[1]
    IN IF auth # <<[id |-> Service.id, secret |-> <<Service.secret>>]>>
       THEN Refused("invalid_client")
       ELSE IF scope = {} \/ ~(scope \subseteq Service.scopes) THEN Refused("invalid_scope")
       ELSE Granted(OwnTokens(Service.name, scope, TokenTtl))

ServiceGrant(r, message) ==
    /\ at[r] = "idle"
    /\ asked' = [asked EXCEPT ![r] = message]
    /\ End(r, ServiceAnswer(message))
    /\ UNCHANGED <<clock, storeVars, proof>>

\* TokenRoute, for a body that does not decode; and the api key route.
Malformed(r) ==
    /\ at[r] = "idle"
    /\ End(r, Refused("invalid_request"))
    /\ UNCHANGED <<clock, storeVars, proof, asked>>

ApiKey(r) ==
    /\ at[r] = "idle"
    /\ End(r, Granted(OwnTokens("robot-1", {"notes"}, KeyTtl)))
    /\ UNCHANGED <<clock, storeVars, proof, asked>>

\* Mutation of Abort: what the request held goes back.
AbortRestores(r) ==
    /\ at[r] \in {"digest", "issue"}
    /\ codes' = [codes EXCEPT ![held[r].code] = held[r]]
    /\ End(r, Nobody)
    /\ UNCHANGED <<clock, refreshTokens, minted, issued, authorized, proof, asked>>

\* The client hangs up, or signing fails: nothing is put back.
Abort(r) ==
    /\ at[r] \in {"digest", "issue"}
    /\ End(r, Nobody)
    /\ UNCHANGED <<clock, storeVars, proof, asked>>

Close(r) ==
    /\ at[r] = "done"
    /\ at' = [at EXCEPT ![r] = "idle"]
    /\ answer' = [answer EXCEPT ![r] = NoAnswer]
    /\ proof' = [proof EXCEPT ![r] = NoProof]
    /\ asked' = [asked EXCEPT ![r] = Absent]
    /\ UNCHANGED <<clock, storeVars, held>>

ProviderNext ==
    \/ Pass
    \/ \E ask \in Asks : Authorize(ask)
    \/ \E r \in Requests :
          \/ \E code \in Codes, client \in Clients, redirect \in Redirects, v \in Verifiers :
                CodeGrant(r, code, client, redirect, v)
          \/ \E handle \in Handles, client \in Clients : RefreshGrant(r, handle, client)
          \/ Digest(r) \/ Issue(r) \/ Abort(r) \/ Close(r)
          \/ \E message \in Messages : ServiceGrant(r, message)
          \/ Malformed(r) \/ ApiKey(r)

ProviderSpec == ProviderInit /\ [][ProviderNext]_providerVars

------------------------------------------------------------------------------
(* Properties.                                                              *)

ProviderTypeOK ==
    /\ clock \in Nat
    /\ codes \in [Codes -> Grant \cup {Absent}]
    /\ refreshTokens \in [Handles -> Chain \cup {Absent}]
    /\ minted \in 0..MaxCodes
    /\ issued \in 0..MaxHandles
    /\ at \in [Requests -> {"idle", "digest", "issue", "done"}]
    /\ held \in [Requests -> Grant \cup Chain \cup {Absent}]
    /\ proof \in [Requests -> Verifiers \cup {NoProof}]
    /\ asked \in [Requests -> Messages \cup Presented \cup {Absent}]
    /\ DOMAIN answer = Requests
    /\ \A r \in Requests : IsAnswer(answer[r])
    /\ authorized \in [Codes -> Grant \cup {Absent}]

\* What a sign-in can still be used through: its code, a request that took the
\* code or a refresh token out of the store, or a refresh token.
Waiting(c) == codes[c] # Absent
Taken(c) == {r \in Requests : held[r] # Absent /\ held[r].code = c}
Live(c) == {h \in Handles : refreshTokens[h] # Absent /\ refreshTokens[h].code = c}

\* "Authorization codes are single-use", and refresh tokens rotate: whatever
\* requests overlap, a sign-in never has two credentials at a time.
OneLiveCredential ==
    \A c \in Codes :
        /\ Waiting(c) => Taken(c) = {} /\ Live(c) = {}
        /\ Taken(c) # {} => Live(c) = {}
        /\ \A r, s \in Taken(c) : r = s
        /\ \A h, i \in Live(c) : h = i

\* What is left of sign-in c: where it is, and whose it is for what.
Left(stage, grant) == [stage |-> stage, client |-> grant.client, scope |-> grant.scope]
LeftOf(c) ==
    {Left("code", codes[d]) : d \in {d \in {c} : Waiting(d)}}
    \cup {Left(IF proof[r] = NoProof THEN "refreshing" ELSE "redeeming", held[r]) : r \in Taken(c)}
    \cup {Left("refreshable", refreshTokens[h]) : h \in Live(c)}

Life == INSTANCE GrantLife WITH
    SignIns <- Codes,
    authorized <- 1..minted,
    left <- [c \in Codes |-> LeftOf(c)]

\* "A failed attempt burns the code too", and so does a lost response: what is
\* left of a sign-in passes from code to request to refresh token and on, for
\* the same client and scope, and once lost never comes back.
ImplementsGrantLife == Life!Spec

\* Whoever gets tokens is the client they were authorized for; and to get them
\* for a code it came in time, to the redirect uri the code went to, with the
\* verifier of its challenge.  Whichever refreshes came in between, the client
\* is the one of the code the sign-in began with.
OnlyTheProverIsPaid ==
    \A r \in Requests : answer[r].refresh # 0 =>
        LET grant == authorized[answer[r].code]
        IN /\ asked[r].client = grant.client
           /\ proof[r] # NoProof => /\ proof[r] = grant.challenge
                                    /\ asked[r].redirect = grant.redirect
                                    /\ asked[r].when <= grant.expires

\* Tokens of the user: one access token for this client and scope, and an id
\* token with this nonce if it was an OpenID request.
Tell(tokens, client, scope, nonce) ==
    LET idTokens == {token \in tokens : token.aud = {client}}
    IN /\ \A token \in tokens \ idTokens :
             token.client = client /\ token.scope = scope /\ token.sub = User
       /\ Cardinality(tokens \ idTokens) = 1
       /\ idTokens # {} <=> "openid" \in scope
       /\ \A token \in idTokens : token.nonce = nonce /\ token.sub = User

\* Whatever a sign-in is exchanged and refreshed for, its tokens say what was
\* authorized, no less and no more: the client, the scope, an id token if it
\* was an OpenID request; and only those of the code itself have its nonce, so
\* that no refresh makes an id token another sign-in could be completed with.
TokensTellTheGrant ==
    \A r \in Requests : answer[r].refresh # 0 =>
        LET grant == authorized[answer[r].code]
        IN Tell(answer[r].tokens, grant.client, grant.scope,
                IF proof[r] = NoProof THEN NoNonce ELSE grant.nonce)

\* "So that a resource server can refuse any other JWT the issuer signs": as
\* long as it lives, a token is taken by those it is for and by no others - an
\* access token by the api and the revocation endpoint, an id token by its
\* client, in the sign-in with its nonce.
EveryTokenHasItsReader ==
    \A r \in Requests : \A token \in answer[r].tokens :
        LET live == clock <= token.exp + Skew
            jwks == {ProviderKey}
            forApi == token.client # None
        IN /\ AccessTokenVerdict(token, jwks, Issuer, Api, clock) = "Ok" <=> live /\ forApi
           /\ RevocationVerdict(token, jwks, Issuer, Api, clock) = "Ok" <=> live /\ forApi
           /\ \A client \in Clients, nonce \in Nonces :
                 IdTokenVerdict(token, jwks, Issuer, client, nonce, clock) = "Ok"
                    <=> live /\ token.aud = {client} /\ token.nonce = nonce

\* Whatever characters an id and a secret are made of, a service is known by
\* its own and by no other: what exchangeClientCredentials joins and escapes
\* clientAuthentication takes apart again.  Both methods at once are refused.
ServiceIsKnown ==
    \A r \in Requests : asked[r] \in Messages =>
        /\ \A id, secret \in Texts :
              asked[r] = ExchangeClientCredentials(id, secret, asked[r].scope)
                 => (answer[r].status # "invalid_client"
                        <=> id = Service.id /\ secret = Service.secret)
        /\ asked[r].secret # <<>> /\ (\E method \in Range(asked[r].header) : method.scheme = "Basic")
              => answer[r].status = "invalid_client"
==============================================================================
