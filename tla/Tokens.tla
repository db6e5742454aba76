------------------------------- MODULE Tokens --------------------------------
(***************************************************************************)
(* What the provider signs and who takes it for what: issueAccessToken,    *)
(* issueIdToken and verifyIdToken of src/src/Oidc.ts over `sign` and       *)
(* `verify` of src/src/Jwt.ts, and what a resource server asks of a token. *)
(***************************************************************************)
EXTENDS TokenVerify, FiniteSets

NoNonce == 0

\* Jwt.sign: a compact token under the key's own algorithm and kid.  An absent
\* client, nonce or azp is None, None and NoNonce; no scope is the empty set.
Sign(key, typ, claims) ==
    [kid |-> key.kid, signer |-> key.id, alg |-> key.alg, typ |-> typ,
     readable |-> TRUE, strict |-> TRUE, claims |-> TRUE,
     iss |-> claims.iss, sub |-> claims.sub, aud |-> claims.aud,
     exp |-> claims.exp, nbf |-> 0, client |-> claims.client, scope |-> claims.scope,
     nonce |-> claims.nonce, azp |-> None]

\* generateSigningKey: its private half signs, its public half is published.
SigningKey(id) == [Key(id, id, "P-256") EXCEPT !.alg = "ES256"]

\* Mutation of IssueAccessToken: the type is left at Jwt.sign's default.
IssueAccessTokenUntyped(key, iss, sub, api, client, scope, exp) ==
    Sign(key, "JWT", [iss |-> iss, sub |-> sub, aud |-> {api}, exp |-> exp,
                      client |-> client, scope |-> scope, nonce |-> NoNonce])

IssueAccessToken(key, iss, sub, api, client, scope, exp) ==
    Sign(key, "at+jwt", [iss |-> iss, sub |-> sub, aud |-> {api}, exp |-> exp,
                         client |-> client, scope |-> scope, nonce |-> NoNonce])

IssueIdToken(key, iss, sub, client, nonce, exp) ==
    Sign(key, "JWT", [iss |-> iss, sub |-> sub, aud |-> {client}, exp |-> exp,
                      client |-> None, scope |-> {}, nonce |-> nonce])

\* verifyIdToken; NoNonce when the caller has none to compare.
IdTokenVerdict(token, jwks, iss, client, nonce, now) ==
    LET options == [issuer |-> iss, audience |-> client, algorithms |-> {"ES256", "RS256"},
                    types |-> {}]
        verdict == Verdict(token, jwks, options, now)
    IN IF verdict # "Ok" THEN verdict
       ELSE IF (token.azp # None \/ Cardinality(token.aud) > 1) /\ token.azp # client
            THEN "BadAudience"
       ELSE IF nonce \notin {NoNonce, token.nonce} THEN "BadSignature"
       ELSE "Ok"

\* A resource server with the layer's default types: the signature and the
\* registered claims, then AccessTokenClaims, which has a client and a scope.
AccessTokenVerdict(token, jwks, iss, api, now) ==
    LET options == [issuer |-> iss, audience |-> api, algorithms |-> {"ES256"},
                    types |-> {"at+jwt"}]
        verdict == Verdict(token, jwks, options, now)
    IN IF verdict = "Ok" /\ token.client = None THEN "BadClaims" ELSE verdict

\* The revocation endpoint verifies what it is given and looks at no type.
RevocationVerdict(token, jwks, iss, api, now) ==
    Verdict(token, jwks, [issuer |-> iss, audience |-> api, algorithms |-> {}, types |-> {}], now)
==============================================================================
