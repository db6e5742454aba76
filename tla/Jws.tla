--------------------------------- MODULE Jws ---------------------------------
(***************************************************************************)
(* Json web signatures: `sign` and `verify` of src/src/Jws.ts.             *)
(*                                                                         *)
(* A JWS is its General serialization, which the other two are turned      *)
(* into.  A signature is known by who made it, how, and over what; a       *)
(* CryptoKey is key material and the algorithm it was imported for.        *)
(***************************************************************************)
EXTENDS Naturals, Sequences, Jwk, Headers

CryptoKey(id, alg) == [id |-> id, alg |-> alg]

\* signatureParameters(alg) as WebCrypto combines them with a key: for HMAC
\* and PKCS1 they only name the family, and the hash is the key's.
Scheme(key, alg) ==
    <<key.alg, IF Family[alg] \in {"ECDSA", "RSA-PSS"} THEN alg ELSE key.alg>>

SignatureBy(key, alg, protected, payload) ==
    [by |-> key.id, scheme |-> Scheme(key, alg), over |-> <<protected, payload>>]

\* crypto.subtle.verify: a key of another family makes it reject, which
\* counts as not verified.
Verifies(key, alg, signature, protected, payload) ==
    /\ Family[key.alg] = Family[alg]
    /\ signature = SignatureBy(key, alg, protected, payload)

------------------------------------------------------------------------------
(* Signing.                                                                 *)

\* crit lists every critical header, which is there; the caller's parameters
\* come after alg.
ProtectedHeader(signer, criticals) ==
    Over(IF DOMAIN criticals = {} THEN <<>> ELSE [crit |-> DOMAIN criticals],
         Over(criticals, Over(signer.header, [alg |-> signer.algorithm])))

\* A message in any of its serializations: Flattened is General with its one
\* signature among the members, Compact is Flattened without a header.
General(payload, signatures) == [payload |-> payload, signatures |-> signatures]

\* Every signer's key is of its algorithm's family, or signing throws.
Sign(payload, signers, criticals) ==
    General(payload,
        [i \in DOMAIN signers |->
            LET protected == ProtectedHeader(signers[i], criticals)
            IN [protected |-> protected, header |-> <<>>, readable |-> TRUE,
                signature |-> SignatureBy(signers[i].key, signers[i].algorithm,
                                          protected, payload)]])

------------------------------------------------------------------------------
(* Verification.  An optional option is <<>> when it is undefined.          *)

\* The parameters that JoseHeader knows, beside crit.
Registered ==
    {"alg", "jku", "jwk", "kid", "x5u", "x5c", "x5t", "x5t#S256", "typ", "cty"}

\* joseHeaderWithCriticals: without critical headers there is no crit; with
\* them, each is there and crit names them all and nothing else.  A jwk is
\* decoded with the header, trusted or not.
HeaderDecodes(protected, criticals) ==
    /\ WellTyped(protected, Registered)
    /\ "jwk" \in DOMAIN protected => protected.jwk.decodes
    /\ IF criticals = {} THEN "crit" \notin DOMAIN protected
       ELSE /\ criticals \cup {"crit"} \subseteq DOMAIN protected
            /\ protected.crit = criticals

\* Mutation of Trustable: what a token brings along may be a shared secret.
TrustableOfAnyKind(alg, key) == IsCompatibleWith(alg, key)

\* Keys a token brings along: "never symmetric or private keys".
Trustable(alg, key) ==
    ~IsSymmetric(key) /\ ~IsPrivate(key) /\ IsCompatibleWith(alg, key)

\* The key set of a token's jku, when the caller resolves those.
ResolvedKeys(header, options) ==
    IF "jku" \in DOMAIN header /\ options.resolveJku # <<>>
    THEN options.resolveJku[1][header.jku]
    ELSE [fails |-> FALSE, keys |-> {}]

\* The token's own jwk, when the caller trusts those.
EmbeddedKeys(header, options) ==
    IF "jwk" \in DOMAIN header /\ options.trustEmbeddedJwk THEN {header.jwk} ELSE {}

\* The caller's keys, and those of the token that are trustable and import.  Of
\* a key set only what decodes is there.
KeysFor(header, options) ==
    LET resolved == {k \in ResolvedKeys(header, options).keys : k.decodes}
        own == resolved \cup EmbeddedKeys(header, options)
    IN options.publicKeys
         \cup {CryptoKey(key.id, header.alg) :
                  key \in {k \in own : k.imports /\ Trustable(header.alg, k)}}

\* Mutation of Signed: a key that makes verify reject ends it.
SignedUnlessRejected(jws, entry, keys) ==
    /\ \A key \in keys : Family[key.alg] = Family[entry.protected.alg]
    /\ \E key \in keys :
          Verifies(key, entry.protected.alg, entry.signature, entry.protected, jws.payload)

\* Some key of the candidates verifies the signature.
Signed(jws, entry, keys) ==
    \E key \in keys :
        Verifies(key, entry.protected.alg, entry.signature, entry.protected, jws.payload)

\* What verify makes of one signature; after "Next" it tries the next one.
EntryVerdict(jws, entry, options) ==
    LET header == Over(entry.protected, entry.header)
    IN IF ~entry.readable \/ ~HeaderDecodes(entry.protected, options.criticals)
       THEN "SchemaError"
       ELSE IF \/ DOMAIN entry.protected \cap DOMAIN entry.header # {}
               \/ options.algorithms # <<>> /\ header.alg \notin options.algorithms[1]
               \/ ResolvedKeys(header, options).fails
       THEN "InvalidHeaders"
       ELSE IF Signed(jws, entry, KeysFor(header, options)) THEN "Ok"
       ELSE "Next"

\* The verdict, and the signature that was decisive (0: none).
Verify(jws, options) ==
    LET verdicts == [i \in DOMAIN jws.signatures |->
                        EntryVerdict(jws, jws.signatures[i], options)]
        decisive == {i \in DOMAIN verdicts : verdicts[i] # "Next"}
    IN IF Len(jws.signatures) > options.maxSignatures
       THEN [verdict |-> "InvalidHeaders", entry |-> 0]
       ELSE IF decisive = {} THEN [verdict |-> "InvalidSignature", entry |-> 0]
       ELSE LET first == CHOOSE i \in decisive : \A j \in decisive : i <= j
            IN [verdict |-> verdicts[first], entry |-> first]
==============================================================================
