------------------------------- MODULE Bearer --------------------------------
(***************************************************************************)
(* The bearer middleware of src/src/ResourceServer.ts: every request is a  *)
(* fiber that gets the keys from its JwksCache, verifies the token, asks   *)
(* for fresh keys once if none of them answers, then decodes the claims,   *)
(* consults the `revoked` predicate and checks scopes.                     *)
(*                                                                         *)
(* The issuer signs with key k from version k of its document on and lists *)
(* it in Kept versions: keys are published before they are used and kept   *)
(* for a while after, as a rotation must.                                  *)
(***************************************************************************)
EXTENDS JwksCache, TokenVerify

CONSTANTS
    Kept,       \* how many versions of the document list a key
    MaxFetch,   \* bound: how long a fetch takes
    Requests,   \* [token, typed, scopes, endpoint, revocation] that clients
                \* send, with what the `revoked` predicate answers of each
    Options     \* the layer's issuer, audience, algorithms and types

ASSUME KeptAssumption == Kept \in Nat \ {0}
ASSUME FetchAssumption == MaxFetch \in Nat

\* The layer always has an issuer, an audience and types: those of its options
\* or at+jwt alone.
ASSUME OptionsAssumption ==
    Options.issuer # None /\ Options.audience # None /\ Options.types # {}

\* The `revoked` predicate of a claim set says yes, no, or fails.  It answers
\* "clear" to all when the option is left out.
ASSUME RevocationAssumption ==
    \A r \in Requests : ~r.empty => r.revocation \in {"clear", "revoked", "fails"}

\* The issuer's keys are P-256 keys: they make ES256 signatures only.
ASSUME SignerAssumption ==
    \A r \in Requests :
        ~r.empty /\ r.token.signer \in Docs => KeyType(r.token.alg) = "P-256"

VARIABLES
    stage,      \* how far each request is
    request,    \* what it carries
    verdict,    \* why it was answered the way it was
    arrived,    \* history: published when the request came in
    warm,       \* history: keys had been fetched when it came in
    verifiedAt, \* history: when its token was verified
    publishedAt \* history: when each version was published

requestVars == <<stage, request, verdict, arrived, warm, verifiedAt>>
bearerVars == <<vars, requestVars, publishedAt>>

NoRequest == [empty |-> TRUE]
Refusals ==
    Verdicts \cup {"Empty", "NoKeys", "NoFreshKeys", "BadClaims", "Revoked",
                   "NoRevocations", "BadScope", "ScopeRequired"}
Pending == "pending"

\* The HTTP status each verdict is answered with.
Status(why) ==
    IF why = "Ok" THEN 200
    ELSE IF why \in {"BadScope", "ScopeRequired"} THEN 403
    ELSE IF why \in {"NoKeys", "NoRevocations"} THEN 500 ELSE 401

\* The keys version v of the document lists.
KeysOf(v) == {k \in 1..v : v < k + Kept}
Jwks(v) == {Key(k, k, "P-256") : k \in KeysOf(v)}

\* acceptedScopes: the endpoint's annotation, else its group's, else the
\* names derived from both.  An annotation is <<>> or <<scopes>>.
AcceptedScopes(endpoint) ==
    IF endpoint.own # <<>> THEN endpoint.own[1]
    ELSE IF endpoint.group # <<>> THEN endpoint.group[1]
    ELSE endpoint.derived

MayCall(r) ==
    LET accepted == AcceptedScopes(r.endpoint)
    IN accepted = {} \/ accepted \cap r.scopes # {}

\* requireScopes, called by the endpoint's handler.
RequireScopes(r) == r.endpoint.needs \subseteq r.scopes

BearerInit ==
    /\ Init
    /\ stage = [c \in Callers |-> "none"]
    /\ request = [c \in Callers |-> NoRequest]
    /\ verdict = [c \in Callers |-> Pending]
    /\ arrived = [c \in Callers |-> NoDoc]
    /\ warm = [c \in Callers |-> FALSE]
    /\ verifiedAt = [c \in Callers |-> 0]
    /\ publishedAt = [v \in Docs |-> IF v = 1 THEN Start ELSE 0]

------------------------------------------------------------------------------
(* The environment and the cache.                                           *)

\* Verifying takes no time, and no fetch takes longer than MaxFetch.
Elapse ==
    /\ Tick
    /\ \A c \in Callers :
          /\ stage[c] = "keys" => pc[c] \notin {"answered", "failed"}
          /\ pc[c] = "fetching" => now < fetch[c].at + MaxFetch
    /\ UNCHANGED <<requestVars, publishedAt>>

Publish ==
    /\ Rotate
    /\ publishedAt' = [publishedAt EXCEPT ![published'] = now]
    /\ UNCHANGED requestVars

CacheStep(c) ==
    /\ Run(c)
    /\ UNCHANGED <<requestVars, publishedAt>>

------------------------------------------------------------------------------
(* The middleware.                                                          *)

\* The request is answered: why, and with it the status.
Answer(c, why) ==
    /\ stage' = [stage EXCEPT ![c] = "done"]
    /\ verdict' = [verdict EXCEPT ![c] = why]
    /\ UNCHANGED <<request, arrived, warm, verifiedAt, publishedAt>>

\* A request comes in.  An empty credential needs no key.
Receive(c, r) ==
    /\ stage[c] = "none"
    /\ request' = [request EXCEPT ![c] = r]
    /\ arrived' = [arrived EXCEPT ![c] = published]
    /\ warm' = [warm EXCEPT ![c] = lastGood # NoDoc]
    /\ UNCHANGED <<verifiedAt, publishedAt>>
    /\ \/ /\ r.empty
          /\ stage' = [stage EXCEPT ![c] = "done"]
          /\ verdict' = [verdict EXCEPT ![c] = "Empty"]
          /\ UNCHANGED vars
       \/ /\ ~r.empty
          /\ stage' = [stage EXCEPT ![c] = "keys"]
          /\ UNCHANGED verdict
          /\ Get(c)

\* Mutation of KeysUnavailable: the error of get is not caught.
KeysUnavailableUncaught(c) ==
    /\ stage[c] = "keys"
    /\ pc[c] = "failed"
    /\ Answer(c, "HttpClientError")
    /\ Finish(c)

\* get or refresh failed.
KeysUnavailable(c) ==
    /\ stage[c] = "keys"
    /\ pc[c] = "failed"
    /\ Answer(c, IF leg[c] = "get" THEN "NoKeys" ELSE "NoFreshKeys")
    /\ Finish(c)

\* Mutation of Judged: verify is not told the audience.
JudgedForAnyApi(c) ==
    Verdict(request[c].token, Jwks(answer[c].doc), [Options EXCEPT !.audience = None], now)

Judged(c) == Verdict(request[c].token, Jwks(answer[c].doc), Options, now)

\* No key of the cached document answers the token: refresh, once.
SeekFreshKeys(c) ==
    /\ stage[c] = "keys"
    /\ Refresh(c)
    /\ Judged(c) = "UnknownKey"
    /\ UNCHANGED <<requestVars, publishedAt>>

Refuse(c) ==
    /\ stage[c] = "keys"
    /\ pc[c] = "answered"
    /\ Judged(c) # "Ok"
    /\ Judged(c) = "UnknownKey" => leg[c] # "get"
    /\ Answer(c, Judged(c))
    /\ Finish(c)

\* The signature and the registered claims hold; decodeClaims asks for the
\* access token's own.
Verified(c) ==
    /\ stage[c] = "keys"
    /\ pc[c] = "answered"
    /\ Judged(c) = "Ok"
    /\ Finish(c)
    /\ \/ /\ request[c].typed
          /\ stage' = [stage EXCEPT ![c] = "revocation"]
          /\ verifiedAt' = [verifiedAt EXCEPT ![c] = now]
          /\ UNCHANGED <<request, verdict, arrived, warm, publishedAt>>
       \/ /\ ~request[c].typed
          /\ Answer(c, "BadClaims")

\* The `revoked` predicate answers, in its own time, or fails; what it lets
\* through meets the scopes of the endpoint, then those of its handler.
Decide(c) ==
    /\ stage[c] = "revocation"
    /\ \/ request[c].revocation = "fails" /\ Answer(c, "NoRevocations")
       \/ request[c].revocation = "revoked" /\ Answer(c, "Revoked")
       \/ /\ request[c].revocation = "clear"
          /\ Answer(c, IF ~MayCall(request[c]) THEN "BadScope"
                       ELSE IF ~RequireScopes(request[c]) THEN "ScopeRequired"
                       ELSE "Ok")
    /\ UNCHANGED vars

Leave(c) ==
    /\ stage[c] = "done"
    /\ stage' = [stage EXCEPT ![c] = "none"]
    /\ request' = [request EXCEPT ![c] = NoRequest]
    /\ verdict' = [verdict EXCEPT ![c] = Pending]
    /\ arrived' = [arrived EXCEPT ![c] = NoDoc]
    /\ warm' = [warm EXCEPT ![c] = FALSE]
    /\ verifiedAt' = [verifiedAt EXCEPT ![c] = 0]
    /\ UNCHANGED <<vars, publishedAt>>

Handle(c) ==
    \/ CacheStep(c) \/ KeysUnavailable(c) \/ SeekFreshKeys(c) \/ Refuse(c)
    \/ Verified(c) \/ Decide(c)

BearerNext ==
    \/ Elapse
    \/ Publish
    \/ \E c \in Callers :
          \/ Handle(c)
          \/ \E r \in Requests : Receive(c, r)
          \/ Leave(c)

BearerSpec == BearerInit /\ [][BearerNext]_bearerVars

\* A fiber that can run does; the network ends every fetch.
BearerFairSpec == BearerSpec /\ \A c \in Callers : WF_bearerVars(Handle(c))

------------------------------------------------------------------------------
(* Properties.                                                              *)

BearerTypeOK ==
    /\ TypeOK
    /\ stage \in [Callers -> {"none", "keys", "revocation", "done"}]
    /\ request \in [Callers -> Requests \cup {NoRequest}]
    /\ verdict \in [Callers -> Refusals \cup {Pending}]
    /\ arrived \in [Callers -> {NoDoc} \cup Docs]
    /\ warm \in [Callers -> BOOLEAN]
    /\ verifiedAt \in [Callers -> Nat]
    /\ publishedAt \in [Docs -> Nat]

\* A token the issuer signed, naming its key.
Genuine(token) == token.signer \in Docs /\ token.kid = token.signer

\* "A transient blip must not become a fleet-wide auth outage": once keys were
\* fetched, no request that comes in is refused for want of keys, whatever
\* fetches fail; and a refresh that fails can never turn into a 401.
NoOutageOnceWarm ==
    \A c \in Callers :
        /\ warm[c] /\ verdict[c] # Pending /\ Status(verdict[c]) = 500
              => verdict[c] = "NoRevocations"
        /\ verdict[c] # "NoFreshKeys"

\* A genuine token whose key was listed from the moment the request came in
\* is refused for an unknown key only while the refresh is rate limited or the
\* issuer does not answer: a rotation never costs more than that.
RotationOnlyDelays ==
    [][\A c \in Callers :
        LET token == request[c].token
        IN verdict[c] = Pending /\ verdict'[c] = "UnknownKey" /\ Genuine(token)
              /\ token.signer <= arrived[c] /\ token.signer \in KeysOf(published)
            => leg[c] = "limited" \/ answer[c].fell]_bearerVars

\* A token of a listed key is never called forged when it names its key: only
\* UnknownKey triggers the refetch, so a rotated key must not come out as
\* BadSignature.  One that names none is, under keys from before its own: no
\* longer than those may be cached, or than the issuer does not answer.
ForgedOnlyWhileStale ==
    [][\A c \in Callers :
        LET token == request[c].token
        IN verdict[c] = Pending /\ verdict'[c] = "BadSignature" /\ token.signer \in Docs
              /\ token.kid \in {token.signer, NoKid}
            => /\ token.kid = NoKid
               /\ token.signer \in KeysOf(published) =>
                    answer[c].fell \/ now <= publishedAt[token.signer] + Ttl + MaxFetch]_bearerVars

\* A key taken out of the document stops being accepted: a ttl and a fetch
\* after it was withdrawn no token it signed passes, unless every fetch since
\* has failed and the cache is serving what it last had.
WithdrawnKeysDie ==
    [][\A c \in Callers :
        LET k == request[c].token.signer
        IN stage[c] = "keys" /\ stage'[c] = "revocation" /\ ~answer[c].fell
              /\ k + Kept <= published
            => now <= publishedAt[k + Kept] + Ttl + MaxFetch]_bearerVars

\* An access token the issuer signed with a key it published, for this api,
\* which was in time at t.
AccessToken(r, t) ==
    /\ r.token.signer \in 1..published
    /\ r.token.typ \in Options.types /\ r.typed
    /\ r.token.iss = Options.issuer /\ Options.audience \in r.token.aud
    /\ r.token.nbf - Skew <= t /\ t <= r.token.exp + Skew

\* One scope the endpoint accepts, if it names any, and all its handler needs.
Suffices(scopes, endpoint) ==
    /\ AcceptedScopes(endpoint) # {} => \E scope \in scopes : scope \in AcceptedScopes(endpoint)
    /\ \A scope \in endpoint.needs : scope \in scopes

\* What is due to one with an access token.
Due(r) ==
    CASE r.revocation = "fails"   -> 500
      [] r.revocation = "revoked" -> 401
      [] r.revocation = "clear"   -> IF Suffices(r.scopes, r.endpoint) THEN 200 ELSE 403

\* The `revoked` predicate is asked about access tokens only, which were in time
\* when their keys were there, and what follows depends on its answer, then on
\* the scopes: without such a token a caller learns no more than a 401 or that
\* there are no keys, not which scopes an endpoint wants nor that the denylist
\* fails; nor does one with a revoked token; and a predicate that fails lets
\* nobody in.
AfterVerification == {"Revoked", "NoRevocations", "BadScope", "ScopeRequired", "Ok"}
OnlyAccessTokensPass ==
    \A c \in Callers :
        LET r == request[c]
        IN /\ stage[c] = "revocation" \/ verdict[c] \in AfterVerification
                 => AccessToken(r, verifiedAt[c])
           /\ verdict[c] \in AfterVerification => Status(verdict[c]) = Due(r)

\* Every request is answered: no fiber is left behind by the fetch it joined.
EveryRequestIsAnswered ==
    \A c \in Callers : stage[c] = "keys" ~> stage[c] = "done"
==============================================================================
