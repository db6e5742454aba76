--------------------------------- MODULE Jwk ---------------------------------
(***************************************************************************)
(* Json web keys, src/src/Jwk.ts, and the signature algorithms they are    *)
(* for, src/src/Jwa.ts.  Key material is the identity of a key: a          *)
(* signature verifies under the key that made it and under no other.       *)
(***************************************************************************)

\* An optional member that is absent.
None == "none"
NoKid == 0

\* The WebCrypto algorithm that each JWS algorithm is an instance of.
Family ==
    [HS256 |-> "HMAC", HS384 |-> "HMAC", HS512 |-> "HMAC",
     RS256 |-> "RSASSA-PKCS1-v1_5", RS384 |-> "RSASSA-PKCS1-v1_5",
     RS512 |-> "RSASSA-PKCS1-v1_5",
     ES256 |-> "ECDSA", ES384 |-> "ECDSA", ES512 |-> "ECDSA",
     PS256 |-> "RSA-PSS", PS384 |-> "RSA-PSS", PS512 |-> "RSA-PSS"]

Algorithms == DOMAIN Family

\* The kty (and EC curve) an algorithm needs.
KeyType(alg) ==
    CASE alg = "ES256" -> "P-256"
      [] alg = "ES384" -> "P-384"
      [] alg = "ES512" -> "P-521"
      [] Family[alg] = "HMAC" -> "oct"
      [] OTHER -> "RSA"

\* A public key of a JWKS document: `decodes` is false for one JwkSet skips,
\* `imports` for one WebCrypto refuses.
Key(id, kid, type) ==
    [id |-> id, kid |-> kid, type |-> type, alg |-> None, use |-> "sig",
     verifies |-> TRUE, decodes |-> TRUE, imports |-> TRUE, private |-> FALSE]

\* Jwk.isCompatibleWith
IsCompatibleWith(alg, key) ==
    /\ key.use # "enc"
    /\ key.alg \in {None, alg}
    /\ key.verifies
    /\ key.type = KeyType(alg)

IsSymmetric(key) == key.type = "oct"
IsPrivate(key) == key.type # "oct" /\ key.private
==============================================================================
