# effect-oidc, specified

TLA+ specifications of effect-oidc: the OAuth 2.1 / OpenID Connect library under
`src/src/` and the example provider and resource server under `src/examples/`,
which show how its parts are meant to be put together. The specifications are
checked by TLC on small instances; every invariant, action property and refinement
that holds there is proved with TLAPS for every instance.

Paths below are those of the repository, which lives in `src/` beside this
directory.

## The system

| Part | Where | State | Operations |
|---|---|---|---|
| JWKS cache | `src/src/Oidc.ts` 411-486 | the last good document, the time of the last forced refresh, the library's cached outcome and the fetch in flight | `get`, `refresh` |
| Token verification | `src/src/Jwt.ts` 205-277, `Jwk.ts` 354-410 | none | `verify` |
| Bearer middleware | `src/src/ResourceServer.ts` 264-412 | a JWKS cache; each request is a fiber | one pass per request: keys, verify, refresh once, claims, `revoked`, scopes |
| Revocation | `src/examples/02-oidc-provider.ts` 410-452, `03-resource-server.ts` 120-138 | the provider's denylist, the resource server's cached copy | revoke, list (and purge), look up |
| Relying party | `src/src/RelyingParty.ts` 187-391 | none of its own: four cookies in the browser, a JWKS cache | `beginAuthorization`, `completeAuthorization`, `expireTransactionCookies` |
| Provider grants | `src/examples/02-oidc-provider.ts` 46-473 | codes, refresh tokens, a signing key | authorize, code grant, refresh grant, client credentials, api keys |
| Token issuing | `src/src/Jwt.ts` 91-141, `Oidc.ts` 255-410 | none | `issueAccessToken`, `issueIdToken`, `verifyIdToken` |
| Discovery, client authentication, token client | `src/src/Oidc.ts` | none | `fetchDiscovery`, `clientAuthentication`, `exchange...` |
| Dynamic client registration | `src/src/DynamicClientRegistration.ts` | none | `validateClientMetadata`, `register`, `registerAt` |
| JWS, JWE, algorithm tables | `src/src/Jws.ts`, `Jwe.ts`, `Jwa.ts`, `Jwk.ts` | none | sign, verify, encrypt, decrypt |

How they interact. A resource server and a relying party each own one JWKS
cache; every request they serve is a fiber, and all fibers share it. The
middleware and the callback use it in the same way: `get`, verify, and only for
`UnknownKey` one `refresh` and one more attempt. The relying party has no session
store: what it must remember between the login route and the callback travels in
cookies, which the tabs of a browser share. The provider's stores are maps, read
and written by request fibers between their awaits. The denylist travels from
provider to resource server by polling.

What is hard. JavaScript runs a fiber without interruption up to its next await,
so the hazards are where a decision is made on one side of an await (a fetch, a
digest, a signature) and used on the other: an eviction that comes after a newer
fetch, a fetch that was sent before the rotation it is awaited for, a code taken
but not yet paid out, a cookie jar rewritten by another tab between a redirect
and its callback, a list of revoked tokens that is older than the revocation.
Then failures: a fetch that fails with or without something to fall back on, a
failure that is itself cached, an answer lost after its effect, a rate limit used
up by an attempt that failed, a registration retried although it was made, a key
that makes WebCrypto throw among keys that fit. And time: ttl, window,
expiry, skew, and which of two clocks rules. `PROJECT.json` lists each hazard at
its line with the properties that cover it, or why none does.

## Modules

| Module | Models | Checked by | Proved in |
|---|---|---|---|
| `KeyView` | what the JWKS cache promises | `cache_safety` (as a property) | `JwksCacheProofs`, `BearerProofs` |
| `JwksCache` | `jwksCache` over the library's ttl cache | `cache_safety`, `bearer_liveness` | `JwksCacheProofs` |
| `Jwk` | keys, algorithms and which goes with which | through `TokenVerify` and `Jws` | - |
| `TokenVerify` | `Jwt.verify` as a decision | through `Bearer` | `TokenVerifyProofs` (lemmas) |
| `Tokens` | `issueAccessToken`, `issueIdToken`, `verifyIdToken` and what each reader asks of a token | through `Provider` | - |
| `ClientAuth` | the two ends of the Basic header: `exchangeClientCredentials`, `clientAuthentication` | through `Provider` | `ProviderProofs` |
| `Bearer` | the middleware; extends `JwksCache` and `TokenVerify` | `bearer_safety`, `bearer_liveness` | `BearerProofs` |
| `Revocation` | denylist, purge, cached copy, predicate | `revocation`, `revocation_skew` | `RevocationProofs` |
| `RelyingParty` | login and callback over a browser with tabs | `tabs`, `tabs_payload` | `SignInProofs` |
| `GrantLife` | what the token endpoint promises of a sign-in | `provider` (as a property) | `ProviderProofs`, `SignInProofs` |
| `Provider` | codes, PKCE, refresh rotation, client credentials, api keys; extends `Tokens` and `ClientAuth` | `provider` | `ProviderProofs` |
| `SignIn` | `RelyingParty` with `Provider` as its environment | `sign_in` | `SignInProofs` |
| `RegistrationRules` | `validateClientMetadata`, `isRegistrableRedirectUri`, `fetchDiscovery` as decisions | through `ClientRegistration` | - |
| `ClientRegistration` | `register` and `registerAt` against a provider | `registration`, `registration_refresh` | `ClientRegistrationProofs` |
| `Headers` | headers as functions: merging two, a part of one | through `Jose` | - |
| `Jws`, `Jwe` | sign and verify, encrypt and decrypt, as functions | through `Jose` | lemmas of `JoseProofs` |
| `Jose` | a message made, altered in transit, and opened | `jose` | `JoseProofs` |

`MC*` modules and their `.cfg` files are the TLC instances.

### JwksCache

A caller goes through `pc`: `idle` - `get` - (answer at once, join the fetch in
flight, or fetch) - `answered` or `evict` then `failed`. From `answered` a
verifier that met an unknown key goes on with `check` - `stamp` - `drop` - `get`,
or with `check` - `get` when the rate limit holds. One action per `yield*` that
touches shared state, so that any interleaving the runtime could produce is
there, and some it hardly would (the runtime seldom yields between two Refs).

| Code | Model |
|---|---|
| `Ref lastGood`, `lastRefreshMillis` | `lastGood`, `lastRefresh` |
| `Effect.cachedInvalidateWithTTL` | `running`, `exit`, `expiresAt`; `Hit`, `Join`, `StartFetch`, `Settle`, `Drop` |
| `fetchJwks`, `tap`, `catch` | `StartFetch`, `FetchSucceeds`, `FetchFails` |
| `tapError(cached, () => invalidate)` | `Evict` |
| `refresh` | `Refresh`, `RateLimited` or `PassWindow`, `Stamp`, `Invalidate` |

A document is the number of its version. A fetch may answer with any version
served between its start and its end. The library's cache is modelled from how
the code uses it: a stored outcome, failures included, is served until it
expires; one computation runs at a time and is shared; `invalidate` clears the
stored outcome and not the computation. Whether the ttl counts from the start or
from the end of a fetch is left open, both are explored. Its source is not in
the repository; what it does when the fiber that fetches is interrupted is
therefore not modelled.

Steps that await nothing take no time (`Urgent`): the clock only moves while
fibers fetch, wait, or hold an answer. A consequence: the rate limit can be
passed by several callers at the same instant, if the runtime interleaves them
between check and stamp. The model allows it, which is why
`StampsAreAWindowApart` speaks of stamps that differ. The harm is bounded by
`SingleFlight`.

### Bearer

`stage` is how far a request is: `none`, `keys` (with `pc` and `leg` of the
cache telling where), `revocation`, `done`. The issuer signs with key *k* from
version *k* of its document on and lists it in `Kept` versions. `Verdict` of
`TokenVerify` is evaluated on the document a request holds at the moment it
verifies. Two assumptions about time, named in `Elapse`: verification takes
none, and a fetch no more than `MaxFetch`. What the `revoked` predicate says of a
claim set (no, yes, a failure) is part of the request, `revocation`, and when it
says so is open; `Revocation` is the model of one. `MayCall` is the scope check
of the middleware, over the endpoint's annotation, its group's, or the names
derived from both; `RequireScopes` is what a handler adds. A layer made with
static keys has no cache to be wrong about: it is the case of a document that
never changes. `publishedAt` remembers when each version came out, so that
`WithdrawnKeysDie` and `ForgedOnlyWhileStale` can say how late is late, and
`verifiedAt` when a token was verified. `OnlyAccessTokensPass` uses it: whatever
comes after verification (the predicate, the scopes, the handler) sees only tokens
of a published key, for this api, in time at that moment, and the status of the
answer is the one `Due` for what the predicate said and then for the scopes. It
is stated over the token and not over the model's verdicts.

### Revocation

`Revoke` and `Serve` are the provider's handlers, each without an await between
its reading and its writing of the map. `Serve` purges what is past its exp and
answers with the rest. The resource server's side has the shape of the JWKS
cache without its fallback and its eviction: `cachedWithTTL` keeps a failure
like a list. `token` is what a request carries while it waits: its expiry is looked
at before the wait and not after it (`LateByOneFetch`).

### RelyingParty, Provider, SignIn

In `RelyingParty` a flow is one `beginAuthorization`; its state, verifier, nonce
and payload are all named by its number, which is what random values are good
for. Requests take the jar's cookies along when they leave (`sent`), responses
change the jar when they arrive (`Redirected`, `Land`), and in between other tabs
do the same. `Reopen` is a callback address opened twice; `Stray` one this
browser was never given; `Forget` the cookies' maximum age.

In `Provider` a token request is split at the awaits of its handler: `CodeGrant`
up to the digest, `Digest`, `Issue` after the signatures; `RefreshGrant`, `Issue`.
`Abort` is a client that hangs up or a signature that fails in between. What a
request was answered is `answer`: the error, or the tokens as records of the
claims and the header they have, so that the properties can give them to the
verifiers of `Tokens`. A refresh token keeps no nonce (`Renewal`), as the code's
`RefreshGrant` has no field for it. `ServiceGrant`, `Malformed` and `ApiKey` touch
no store and are one step each. `authorized` and `asked` are history: the grant
each code was minted for; who presented a code or a refresh token and got past
the store's checks, with the redirect uri and the time of a code, or the client
credentials request a fiber has served. `OnlyTheProverIsPaid` compares the two at
the answer, so it is the client that asked, and not the one the store remembers,
which must be the one that was authorized: through any number of refreshes, each
by a request of its own.

The strings of `ClientAuth` are sequences of pieces, so that escaping is modelled
by what it does to the characters that matter: the colon that separates, the
percent sign that escapes, the blank that is encoded. The loops along a text are
recursive functions, not RECURSIVE operators, so that they can be proved about.

`GrantLife` is what all that is for: of each sign-in there is one credential, its
code, then a request that holds it, then a refresh token, of the same client and
for the same scope, until one is lost. `LeftOf` is the refinement mapping: it
collects whatever is left of a sign-in anywhere, so that a second credential is
not hidden by the first.

`SignIn` replaces the free environment of `RelyingParty` by `Provider`: the code
in a tab's address is one the provider minted for the flow's challenge, the
exchange is a `CodeGrant` with the verifier from the cookies, and its answer may
be lost while the provider goes on, or be a refusal (`ExchangeIsRefused`).
`displaced` and `excused` remember to which flows something happened that the
parties can do nothing about: cookies replaced, expired by another tab's answer or
dead of age; an exchange aborted, lost or late, a callback opened twice, keys that
could not be had. `NoUnexplainedFailure` says that no other sign-in fails.

### RegistrationRules, ClientRegistration

The rules are operators, with the defaults filled in where the code fills them
in: `Metadata` is what a validation returns, `Refusal` its error. A service's
attempt is a sequence of exchanges: discovery, the request (`Send`), the
provider's deed (`Deny`, `Reject` or `Accept`), the answer (`Receive`), each of
which the network may lose; `Retry` is the caller's, the code retries nothing.
`did` remembers what the provider did, so that a property can compare it with
what the attempt reports.

The library has no registration endpoint of its own, only its two halves. The
model puts around them what their documentation asks of a provider: a gate on
the initial access token, a store that recognizes clients by `software_id`, and
a fresh secret for each registration of a confidential client. These are marked
external in the map; properties that depend on them (`OneClientPerSoftware`,
`CredentialsAreCurrent`) are about the library in such a provider.

Urls are scheme, host and fragment, names are left out, scopes and lists are
sets. The order of metadata checks is kept only where it shows: all but the
first answer the same error.

### Headers, Jws, Jwe, Jose

Cryptography is ideal: a signature is known by who made it, how, and over what;
an encrypted key by what it is wrapped under; a derived key by what it is
derived from. The decisions around it are the code's: which header decodes,
which keys are candidates, what a failing candidate means, which signature is
decisive, which failure has which reason, where a random key takes the place of
one that failed. Details that matter are kept. `signatureParameters`
names only a family for HMAC and PKCS1, so the hash is that of the CryptoKey and
not of `alg` (`Scheme`). Nothing in `encrypt` or `decrypt` looks at the length of
a key encryption key (`Fits`), nor `encrypt` at the header parameters a caller
adds. And for `dir` and `ECDH-ES` the encrypted key part
is not looked at at all, so a message opens with any.

`IllTyped` is a value of another type than the schema has for its parameter.
Headers are decoded as a whole (`HeaderDecodes` for JWS, `HeaderReads` for JWE):
one such value, or an embedded `jwk` that does not decode, makes the header
malformed, whether or not anything reads that parameter.

`Jose` makes a message, lets transit edit headers, add, drop and reorder
signatures, replace keys and garble parts, and opens it. Its messages are
independent of one another, so one is enough.

## Runs

| Run | Instance and why it is enough | Shows |
|---|---|---|
| `cache_safety` | 3 callers (one fetches, one joins, one refreshes), 3 versions (a rotation during a fetch and one after), ttl 3, window 2, 4 instants | `SingleFlight`, `StoredIsLastGood`, `FailureIsBeingEvicted`, `RefreshSeesRotation`, `StampsAreAWindowApart`; that it implements `KeyView` |
| `bearer_safety` | 2 requests, one rotation that withdraws key 1, 11 kinds of request (keys of two generations, no kid, forged, expiring, not valid yet, of another type, issuer or api, without the claims or the scopes, revoked, a predicate that fails), time past publication + ttl + fetch; 5.2 million states | `NoOutageOnceWarm`; `RotationOnlyDelays`: a rotation costs only the rate limit; `WithdrawnKeysDie`; `ForgedOnlyWhileStale`: a good token is called forged only if it names no key, and for a ttl and a fetch; `OnlyAccessTokensPass`: nothing after verification is asked about any other token, and the statuses are those due |
| `bearer_liveness` | 2 requests with tokens of the next key, so that a refresh is needed and may come too early | `EveryRequestIsAnswered` |
| `revocation` | 2 requests, a token that expires in the run and one without jti, time past exp and skew, several lives of the list | `RevocationTakesEffect`, `RefusalIsFinal`, `OutageEndsWithTtl`, `LateByOneFetch`, `EveryCheckEnds` |
| `revocation_skew` | 1 request | the counterexample of the first finding |
| `tabs` | 3 tabs (two flows and a reopened callback), 2 flows with and without payload, any provider | `SignInIsOfOneFlow`, `PayloadComesBack` |
| `tabs_payload` | the same | the counterexample of the second finding |
| `provider` | 2 overlapping requests, 2 clients, 2 verifiers, 2 codes, 3 refresh tokens, codes and tokens that expire, with and without `openid`; 7 client credentials requests around an id and a secret full of reserved characters | `OneLiveCredential`, `OnlyTheProverIsPaid`, `TokensTellTheGrant`, `EveryTokenHasItsReader`, `ServiceIsKnown`; that it implements `GrantLife` |
| `sign_in` | 2 tabs, 2 flows, 3 codes (one flow may be authorized twice), codes that expire | `OneSignInPerCode`, `NoUnexplainedFailure` |
| `registration` | 2 copies of a service, 5 things to ask for, 5 bodies of other clients, 6 discovery documents, 3 policies, gate open or closed, 2 clients and 2 secrets at the provider | the properties of `ClientRegistration` |
| `registration_refresh` | a client that asks for the refresh token grant alone | the counterexample of the third finding |
| `jose` | 5 signed and 29 encrypted messages of every family, the latter under six headers of a caller's making that are written over by one algorithm and not by another, 6 verifiers and 8 recipients, up to 2 alterations (one to break a part, one to hide it) | `MadeOpens`, `OpenedIsAuthentic`, `RsaFailuresAlike`, `SpareKeysDoNoHarm` |

Bounds: `MaxTime`, `MaxVersion`, `MaxCodes`, `MaxHandles`, `MaxFlows`,
`MaxClients`, `MaxSecrets` and `MaxAlterations` stop the clock, the issuer, the
stores, the user and the transport. They stand in guards only and no property
depends on their values. `sign_in` runs without the deadlock check because there
every sign-in may have been used up with all tabs closed, `jose` because its one
message has been opened; nothing else in the model can stop. Symmetry is used
over callers, requests, tabs and services, which are told apart by nothing, in
runs of invariants and action properties.

Fairness: weak fairness of each fiber's own steps (`Run`, `Handle`), which the
runtime's scheduler gives. It covers the end of a fetch, with either outcome:
the code sets no timeout, so that a request to the issuer ends at all is an
assumption about the transport and what the liveness properties rest on. Nothing
is assumed about clients, the issuer's rotations, the clock, or fetches
succeeding.

## What the runs found

1. `revocation_skew`: a revoked token comes back to life. The denylist drops an
   entry once its exp has passed (`02-oidc-provider.ts:448`); the token verifies
   until exp plus thirty seconds of skew (`Jwt.ts:264`). In between it is accepted
   again. The comment at `02-oidc-provider.ts:445` has entries expire with their
   tokens. Up to exp, `RevocationTakesEffect` and `RefusalIsFinal` hold.
2. `tabs_payload`: a sign-in begun without a payload returns the payload of an
   earlier one that was never completed: `beginAuthorization` neither sets nor
   expires that cookie (`RelyingParty.ts:280`), and `completeAuthorization`
   promises the payload that `beginAuthorization` carried (`:143`).
   `PayloadComesBack` is the half that holds.
3. `registration_refresh`: a client may register for the `refresh_token` grant
   alone, with no response types (`DynamicClientRegistration.ts:392` compares
   only `authorization_code` with `code`). It can never be issued a refresh
   token, while `:316` promises that no client registers with a grant every later
   request would be refused for. `RegisteredFlowsComplete` is what holds.

Not findings, but worth knowing: `sign` makes messages of more signatures than
`verify` takes by default, `encrypt` makes PBES2 messages of a count `decrypt`
never takes, and accepts as plain header parameters what `decrypt` then gives a
meaning (`crit`, `apu`, `apv`) or does not decode (`kid: 7`, or an `epk` that is
no key under an algorithm that does not write its own over it). `InTheWay` names
the latter; `MadeOpens` says that a JWE opens if and only if `WithinDecrypt`, of
which it is a part, so the list is complete. For JWS `WithinVerify` is sufficient,
with one condition that the proof found missing: a
signer whose own header names a `jku` makes a message that a verifier refuses
while that address cannot be fetched, other signatures notwithstanding.

## What is proved

Eight modules hold the proofs. Each follows one plan: an invariant that is
inductive, one lemma for each action that it survives, and the properties as
consequences of it. The invariants below were checked by TLC on the instances of
the runs before they were proved. Constants are unconstrained but for the named
assumptions of the modules that declare them, which TLC evaluates in the runs.

`JwksCacheProofs`, for any number of callers, any ttl, window, clock and number
of versions. The seven properties of `cache_safety` are theorems of `Spec`. They
rest on one inductive invariant, `Inv`:

- `TypeOK`;
- `FlightInv`: who fetches has set `running`, and nothing is stored while a
  fetch runs - so an eviction or an invalidation cannot open the way to a second
  one, which `SingleFlight` alone does not say;
- `FreshInv`: a fetch asks after everything learned so far: its `since` is no
  older than `lastGood` nor than what any caller has seen, so that no late
  answer takes the view back;
- `StoredInv`: what is stored is `lastGood` or a failure somebody is about to
  evict; what was dropped cannot be served;
- `ForcedInv`: a forced caller that has not asked yet finds only outcomes no
  older than what it had seen - the part `RefreshSeesRotation` needs when it joins
  another's fetch;
- `StampInv`: a caller between check and stamp has read the clock of this very
  instant, and either its window is still open or the instant has a stamp.

The refinement is proved step by step: a step of the cache is `Rotate`, `Ask`,
`Answer` for the callers it delivers to, or a stutter of `KeyView`.

`NobodyWaitsForNothing` is what remains of liveness when fairness is left out:
whoever waits, waits for a caller whose request is out. `WaitInv` is its inductive
form, that the flag which makes callers wait is up exactly while a request is.
`RevocationProofs` has its like (`NobodyWaitsForNoList`).

`TokenVerifyProofs` states what a verdict means: `Ok` is every check passed, any
other names the first that failed (`VerdictIsOk` and its lemmas, for any token, keys,
options and time). `Bearer` and `Provider` decide by it.

`BearerProofs`, for any requests, any number of them at a time, any delays, ttl
and window: the types and the five safety properties of `bearer_safety`. The
middleware takes the cache's own steps: `CacheIsKept` has `BearerSpec` implement the
cache's specification, so that whatever is proved of the cache is true under the
middleware (`RequestsShareOneView`, `NoRequestIsLeftWaiting`), and `Inv` of
`JwksCacheProofs` carries over; `BearerInv` adds what the cache does not know:

- `OutageInv`: once a document was fetched, only a `get` that was there before can
  still receive an error, and no refresh ever does;
- `SeenInv`: what a request's `get` has seen published was published when the
  request came in;
- `FetchAge`, `StoredAge`, `HeldAge`: how old a document may be on its way, in the
  cache and in a request's hands. `WithdrawnKeysDie` and `ForgedOnlyWhileStale` are
  sums of these three delays and inductive only with each of them by itself;
- `OnlyAccessTokensPass` itself, inductive as it stands because it speaks of the
  wait for `revoked` too: what was shown when the token was verified is kept until
  the answer (`PassedKept`).

Assumed: fetches of at most `MaxFetch`, keys in at least one version
(`KeptAssumption`), options with an issuer, an audience and a type
(`OptionsAssumption`: the first two are required, for the third the code falls back
on `at+jwt`), a predicate that says no, yes or fails (`RevocationAssumption`),
issuer keys that make signatures of one algorithm (`SignerAssumption`).

`RevocationProofs`, for any tokens, requests and delays: the types,
`RevocationTakesEffect`, `RefusalIsFinal`, `LateByOneFetch`, `OutageEndsWithTtl`.
`NewsInv` follows a revocation from the denylist through the answer under way to
the cached copy: a list without it was asked for before, or does not live long
after. `RefusalInv` says that a token refused once is on every list to come until
its exp; `DelayInv` bounds each wait, that of requests which join another's fetch
included.

`ProviderProofs`, for any number of requests, clients, verifiers, codes and any
grants asked for: `ProviderTypeOK`, `OneLiveCredential`, `OnlyTheProverIsPaid`,
`TokensTellTheGrant`, `EveryTokenHasItsReader`, `ServiceIsKnown`, and that the
endpoint implements `GrantLife`. Of the constants it needs the named assumptions
of `Provider`, among them that the api is no client (`NameAssumption`): with one
name for both, an access token could not be told from an id token by its audience.
The inductive invariant `Inv` adds to the types

- `HeldInv`: a request holds a grant exactly between its awaits, of the kind its
  place says, and has presented nothing before it starts;
- `MintedInv`: codes and handles above the counters are unused, so that a fresh
  one revives nothing;
- `AuthorizedInv`: what is stored or held agrees with what was authorized, in
  client, scope and, for a code only, nonce;
- `AnsweredInv`: what was answered stays so;
- `Came`, `Owed`: a request that holds a grant is recorded as having presented
  itself as the grant's client, one that holds a code's as having come in time and
  with its redirect uri, and a request past the digest as having shown the verifier;
  this is `OnlyTheProverIsPaid` before the answer;
- `Apart`: `OneLiveCredential`, said of pairs of places, which is what each action
  changes.

The refinement rests on `LeftIsCode`, `LeftIsTaken` and `LeftIsLive` - by `Apart`
the one credential in sight is all there is - and on `SameLeft`: a step leaves
every sign-in alone whose places it does not touch. `EveryTokenHasItsReader` has an
invariant of its own, `SignedInv`: an answer holds access tokens and id tokens
only, and either kind passes the checks of its readers and fails one of every
other's, by the lemmas of `TokenVerifyProofs`.

`ServiceIsKnown` is about texts of any length. Their loops are recursive functions;
that these exist, and agree with their equation on every prefix (`Recursion`,
`FoldIs`), and every fact that goes along a text, is proved by the least
counterexample: of a nonempty set of lengths at which a fact fails the smallest is
impossible. `RoundTrip` is the core: `decodeURIComponent` gives back whatever
`encodeURIComponent` wrote. With `NoColon` (what is escaped has no separator) and
`AroundColon` (the header splits at the first one) the id and the secret arrive as
they were sent. It assumes that texts are sequences (`TextAssumption`) and that a
request has at most one Authorization header (`MessageAssumption`, which also
says what fields a request has).

`SignInProofs` has two parts. The first is about `RelyingParty` alone, any number
of tabs and flows, any provider: `PartyTypeOK`, `SignInIsOfOneFlow`,
`PayloadComesBack`. What keeps flows apart is that the jar never mixes them,
however responses overtake one another (`JarInv`: cookies are set and expired
together), and that a callback past its cookies had those of its flow
(`HandlerInv`).

The second is about the composition. `PartyIsKept` and `ProviderIsKept`: a sign-in
takes no step that either part could not take in its own specification; for the
party this needs an invariant, because the id token that arrives must be one of
its flow (`ExchangeInv`). So everything proved of a part is true in the whole, and
that is stated too: `PartyKeepsItsPromises`, and `EndpointIsKept` with the
theorems of `ProviderProofs`. The latter come from an instance of that module with
the constants of a sign-in, whose assumptions are discharged in
`EndpointAssumptions`; `SameInit` to `SameNext` show that it and the instance in
`SignIn` take the same steps. Then `OneSignInPerCode` and `NoUnexplainedFailure`,
from `SignInInv`:

- `CodeInv`: a code is stored as authorized, for the flow in the address it is in;
- `CreditInv`: a code is in the store, or with one exchange that may still pay, or
  used up - `OneSignInPerCode` is what remains of it at the end;
- `AwayInv`: a flow that is away owns the jar or has been displaced from it;
- `SharedInv`: two tabs share a code only when an address was reopened, which is an
  excuse; so a tab that finds its code taken has one.

`ClientRegistrationProofs`, for any services, requests, documents, policies and
foreign clients: the six properties of `registration`. `AttemptInv` ties the
outcome to the deed through the answer that may be lost on the way;
`CredentialInv` holds from the answer on, not only from its receipt, and until
another service of the same software registers (`Current`); `EndpointInv`:
whatever was discovered and accepted is at the issuer's origin. Assumed: a policy's
grants are ones there are, a document names one registration endpoint
(`PolicyAssumption`, `DocumentAssumption`).

`JoseProofs`, for any messages, signers, keys, headers, options and any number of
alterations: the four properties of `jose`.

- `JwsInv`: whatever transit does to a message, each of its signatures is one that
  was asked for, as it was made, or one by a key of somebody else; transit changes
  what is beside a signature and never what it is over. `OpenedIsAuthentic` follows
  by `SignedByWhom`.
- `JweInv`: the content of an encrypted message stays bound to the header it was
  encrypted with.
- `RsaVerdict` gives the answer to an RSA message that does not open in terms that
  do not mention the encrypted key; `RsaFailuresAlike` is then a matter of two
  messages that differ in nothing else.
- `FirstDecides` is `verify`'s loop without its recursion: too many signatures, or
  none is decisive, or the first that is decides. `SpareKeysDoNoHarm` compares two
  such loops, and holds for any key, not only those of `Spares`.
- For `MadeOpens`: `ProtectedHeaderSays` (no header of a caller gets in the way of
  `alg`, `crit` or `jku`) and `SameKey` (what `encrypt` derives its key from is what
  `decrypt` finds in the header it was sent, whatever else the caller put there).
  The converse goes through `decrypt`'s checks in their order: each part of
  `InTheWay` is what one of them refuses, and another key yields another content
  key.

Assumed, and checked by the code or its types: signers' keys of their algorithm's
family, critical headers that are not registered ones, headers that encode by the
schema and no `alg` or `crit` from a caller of `sign` (`SignersAssumption`); known
algorithms, whole PBES2 counts and well-typed values of what `encrypt` writes itself
(`EncryptersAssumption`, `EditsAssumption`, `IllTypedAssumption`). Of the caller's
own parameters of `encrypt` nothing is assumed. Keys are known by their ids
(`KeysAssumption`). And about the world: the others have no key that a verifier
trusts (`OthersAssumption`).

Left to TLC:

- `EveryRequestIsAnswered` and `EveryCheckEnds`: liveness under fairness, and the
  ENABLED in it, are out of the prover's reach. `NobodyWaitsForNothing`,
  `NoRequestIsLeftWaiting` and `NobodyWaitsForNoList` are the part that is proved;
- the three properties of the runs that find a counterexample.

## Not modelled

JWK import and export, WebCrypto itself and timing; payload codecs. What builds a
value from its arguments and keeps nothing: `authorizationRequest`, `revokeToken`,
`generatePkce`, `makeDiscoveryDocument`, `scopeCatalog`. Of the last, one remark:
it collects the scopes of a group's annotation even where every endpoint of the
group has an annotation of its own, which is then the one that decides; the
catalog may name a scope that opens nothing. Restarts: the example provider keeps
everything, its signing key included, in memory, so nothing survives one. The
interruption of a fiber inside the library's cache: see `JwksCache`. Memory: the
example's stores of codes and refresh tokens are never swept, and no module tracks
their size.

Two hazards in `PROJECT.json` have no property for these reasons: the interrupted
fetch (`Oidc.ts:472`) and the stores that only grow (`02-oidc-provider.ts:190`).

## Plan

The order of the work: the JWKS cache and its abstract view, verification and the
middleware over them, revocation, the sign-in with both its ends, registration,
signatures and encryption, then tokens, client authentication and the life of a
grant; then the proofs, module by module in the same order, and last what they say
of the compositions. What could be added:

1. An abstract specification of revocation, as `KeyView` is of the cache and
   `GrantLife` of the provider.
2. `Bearer` with `Revocation` as its predicate, and a relying party with a real
   `JwksCache`: their parts are checked and proved, and `CacheIsKept` and
   `EndpointIsKept` are the pattern, each part keeps its own specification in the
   whole.
3. The cache when the fiber that fetches is interrupted, from the library's source.
