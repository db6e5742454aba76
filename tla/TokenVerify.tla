----------------------------- MODULE TokenVerify -----------------------------
(***************************************************************************)
(* Verification of a compact JWT against a JWKS: `verify` of src/src/      *)
(* Jwt.ts, with the key selection of Jwk.ts and the signature check of     *)
(* Jws.ts it calls.  A pure decision: a token, a set of keys, the caller's *)
(* options and the time give a verdict, "Ok" or the reason of a JwtError.  *)
(***************************************************************************)
EXTENDS Integers, Sequences, Jwk

CONSTANT Skew    \* CLOCK_SKEW_SECONDS

ASSUME SkewAssumption == Skew \in Nat

\* Mutation of Candidates: kid is not looked at.
CandidatesOfAnyKid(token, jwks) ==
    {key \in jwks : key.decodes /\ IsCompatibleWith(token.alg, key)}

\* The keys of the set that may have signed the token, going by its header.
Candidates(token, jwks) ==
    {key \in jwks :
        /\ key.decodes
        /\ IsCompatibleWith(token.alg, key)
        /\ token.kid = NoKid \/ key.kid = NoKid \/ key.kid = token.kid}

\* The checks in the order verify makes them; the first to fail is the error.
\* No algorithms and no types stand for options left undefined, nbf 0 for a
\* token without one.
Checks(token, jwks, options, now) ==
    LET keys == Candidates(token, jwks)
        usable == {key \in keys : key.imports}
    IN <<
        [ok |-> token.readable, reason |-> "Malformed"],
        [ok |-> options.algorithms = {} \/ token.alg \in options.algorithms,
         reason |-> "BadAlgorithm"],
        [ok |-> options.types = {} \/ token.typ \in options.types, reason |-> "BadType"],
        [ok |-> keys # {} /\ usable # {}, reason |-> "UnknownKey"],
        [ok |-> token.strict, reason |-> "Malformed"],
        [ok |-> \E key \in usable : key.id = token.signer, reason |-> "BadSignature"],
        [ok |-> token.claims, reason |-> "Malformed"],
        [ok |-> now <= token.exp + Skew, reason |-> "Expired"],
        [ok |-> token.nbf - Skew <= now, reason |-> "NotYetValid"],
        [ok |-> options.issuer \in {None, token.iss}, reason |-> "BadIssuer"],
        [ok |-> options.audience = None \/ options.audience \in token.aud,
         reason |-> "BadAudience"] >>

Verdict(token, jwks, options, now) ==
    LET checks == Checks(token, jwks, options, now)
        failed == {i \in DOMAIN checks : ~checks[i].ok}
    IN IF failed = {} THEN "Ok"
       ELSE checks[CHOOSE i \in failed : \A j \in failed : i <= j].reason

Verdicts ==
    {"Ok", "Malformed", "BadAlgorithm", "BadType", "UnknownKey", "BadSignature",
     "Expired", "NotYetValid", "BadIssuer", "BadAudience"}
==============================================================================
