--------------------------------- MODULE Jwe ---------------------------------
(***************************************************************************)
(* Json web encryption: `encrypt` and `decrypt` of src/src/Jwe.ts.         *)
(*                                                                         *)
(* A JWE is its five parts.  An encrypted key is a content key and what it *)
(* is wrapped under; the content is known by the key and the header it was *)
(* encrypted with.  What is derived is known by what it is derived from.   *)
(* One algorithm stands for those of its family that differ in sizes only, *)
(* and time is left out, so a decision that must take the same time either *)
(* way is only modelled by its outcome.                                    *)
(***************************************************************************)
EXTENDS Integers, Sequences, Headers

\* encryptionParameters: how long a content key is.
CekBytes ==
    [enc \in {"A128GCM", "A192GCM", "A256GCM", "A128CBC-HS256", "A192CBC-HS384",
              "A256CBC-HS512"} |->
        CASE enc = "A128GCM" -> 16
          [] enc = "A192GCM" -> 24
          [] enc \in {"A256GCM", "A128CBC-HS256"} -> 32
          [] enc = "A192CBC-HS384" -> 48
          [] enc = "A256CBC-HS512" -> 64]

Agreed == {"ECDH-ES", "ECDH-ES+A128KW"}
JweAlgorithms == {"dir", "RSA-OAEP", "A128KW", "A128GCMKW", "PBES2-HS256+A128KW"} \cup Agreed

\* What kind of CryptoKey an algorithm needs; "dir" exports any.
KeyUse(alg) ==
    CASE alg = "A128KW" -> "AES-KW"
      [] alg = "A128GCMKW" -> "AES-GCM"
      [] alg = "RSA-OAEP" -> "RSA-OAEP"
      [] alg \in Agreed -> "ECDH"
      [] alg = "PBES2-HS256+A128KW" -> "PBKDF2"

\* The header parameters a key (content key or key encryption key) is derived
\* from, beside the recipient's key.
DerivedFrom(alg) ==
    CASE alg = "ECDH-ES" -> {"enc", "epk", "apu", "apv"}
      [] alg = "ECDH-ES+A128KW" -> {"alg", "epk", "apu", "apv"}
      [] alg = "PBES2-HS256+A128KW" -> {"alg", "p2s", "p2c"}
      [] alg = "A128GCMKW" -> {"iv", "tag"}
      [] OTHER -> {}

Garbled == "garbled"    \* a value that is not base64url
Short == "short"        \* a salt of fewer than eight octets

\* Keys: derived from key material and parameters, or drawn at random.
Derived(key, header, alg) == [key |-> key.id, from |-> Part(header, DerivedFrom(alg))]
Random(name) == [key |-> name, from |-> <<>>]
Cek(source, bytes) == [source |-> source, bytes |-> bytes]

NoKey == [under |-> Random("nobody"), cek |-> Cek(Random("nobody"), 0)]
Wrap(kek, cek) == [under |-> kek, cek |-> cek]

------------------------------------------------------------------------------
(* Encryption.                                                              *)

\* The key fits the algorithm, as far as anything looks: its kind matters,
\* and for the shared content key its length (0: it cannot be exported).
Fits(key, alg, enc) ==
    IF alg = "dir" THEN key.bytes = CekBytes[enc] ELSE key.use = KeyUse(alg)

\* headerExtras
Extras(o) ==
    CASE o.alg \in Agreed ->
            Over(o.agreement, [epk |-> [crv |-> o.key.crv, point |-> "ephemeral"]])
      [] o.alg = "PBES2-HS256+A128KW" -> [p2s |-> "salt", p2c |-> o.p2c]
      [] o.alg = "A128GCMKW" -> [iv |-> "iv", tag |-> "tag"]
      [] OTHER -> <<>>

\* encrypt succeeds: the key fits and PBKDF2 takes the count.  The caller's
\* header parameters are looked at by nobody.
Encrypts(o) ==
    /\ Fits(o.key, o.alg, o.enc)
    /\ o.alg = "PBES2-HS256+A128KW" => o.p2c > 0

\* Mutation of Header: the caller's parameters win.
HeaderOfCaller(o) == Over(o.header, Over(Extras(o), [alg |-> o.alg, enc |-> o.enc]))

Header(o) == Over([alg |-> o.alg, enc |-> o.enc], Over(Extras(o), o.header))

\* The content key encrypt uses, and what it sends of it.
ContentKey(o) ==
    CASE o.alg = "dir" -> Cek(Random(o.key.id), o.key.bytes)
      [] o.alg = "ECDH-ES" ->
            Cek(Derived(o.key, Over(Extras(o), [enc |-> o.enc]), o.alg), CekBytes[o.enc])
      [] OTHER -> Cek(Random("fresh"), CekBytes[o.enc])

EncryptedKey(o) ==
    IF o.alg \in {"dir", "ECDH-ES"} THEN NoKey
    ELSE Wrap(Derived(o.key, Over(Extras(o), [alg |-> o.alg]), o.alg), ContentKey(o))

\* The content is authenticated together with the header.
ContentEncrypt(cek, header, plaintext) ==
    [cek |-> cek, header |-> header, intact |-> TRUE, plaintext |-> plaintext]

\* The parts of the compact serialization, and which of them are base64url (of
\* JSON, for the header): iv, ciphertext and tag are the body.
Compact(header, encryptedKey, body) ==
    [readable |-> TRUE, header |-> header, keyReadable |-> TRUE,
     encryptedKey |-> encryptedKey, bodyReadable |-> TRUE, body |-> body]

Encrypt(o) ==
    Compact(Header(o), EncryptedKey(o),
            ContentEncrypt(ContentKey(o), Header(o), o.plaintext))

------------------------------------------------------------------------------
(* Decryption.                                                              *)

\* Key management ends with a content key, or with a reason.
Fail(reason) == [reason |-> reason, cek |-> NoKey.cek]
Yields(cek) == [reason |-> "none", cek |-> cek]

\* Unwrapping authenticates what it unwraps.
Unwrapped(jwe, kek, reason) ==
    IF jwe.encryptedKey.under = kek THEN Yields(jwe.encryptedKey.cek) ELSE Fail(reason)

Lacks(header, names) == ~(names \subseteq DOMAIN header)
GarbledIn(header, names) == \E x \in DOMAIN header \cap names : header[x] = Garbled

\* A count that is not whole is represented by 0.
CountAccepted(p2c, max) == 1000 <= p2c /\ p2c <= max

\* keyManagementDecrypt
KeyManagementDecrypt(jwe, key, max) ==
    LET h == jwe.header
        alg == h.alg
        kek == Derived(key, h, alg)
        fits == Fits(key, alg, h.enc)
    IN IF GarbledIn(h, {"apu", "apv"}) THEN Fail("Malformed")
       ELSE CASE alg = "dir" ->
                    IF fits THEN Yields(Cek(Random(key.id), key.bytes))
                    ELSE Fail("KeyManagementFailed")
              [] alg = "RSA-OAEP" ->
                    IF fits THEN Unwrapped(jwe, kek, "DecryptionFailed")
                    ELSE Fail("DecryptionFailed")
              [] alg = "A128KW" ->
                    IF fits THEN Unwrapped(jwe, kek, "KeyManagementFailed")
                    ELSE Fail("KeyManagementFailed")
              [] alg = "A128GCMKW" ->
                    IF Lacks(h, {"iv", "tag"}) \/ GarbledIn(h, {"iv", "tag"})
                    THEN Fail("Malformed")
                    ELSE IF fits THEN Unwrapped(jwe, kek, "DecryptionFailed")
                    ELSE Fail("DecryptionFailed")
              [] alg \in Agreed ->
                    IF Lacks(h, {"epk"}) THEN Fail("Malformed")
                    ELSE IF ~fits \/ h.epk.crv # key.crv THEN Fail("KeyManagementFailed")
                    ELSE IF alg = "ECDH-ES" THEN Yields(Cek(kek, CekBytes[h.enc]))
                    ELSE Unwrapped(jwe, kek, "KeyManagementFailed")
              [] alg = "PBES2-HS256+A128KW" ->
                    IF \/ Lacks(h, {"p2s", "p2c"})
                       \/ ~CountAccepted(h.p2c, max)
                       \/ h.p2s \in {Garbled, Short}
                    THEN Fail("Malformed")
                    ELSE IF fits THEN Unwrapped(jwe, kek, "KeyManagementFailed")
                    ELSE Fail("KeyManagementFailed")

\* Mutation of Recovered: only a key of the wrong length is replaced.
RecoveredByLength(jwe, got) ==
    IF got.reason # "none" THEN got
    ELSE IF got.cek.bytes = CekBytes[jwe.header.enc] THEN got
    ELSE IF jwe.header.alg = "RSA-OAEP"
    THEN Yields(Cek(Random("substitute"), CekBytes[jwe.header.enc]))
    ELSE Fail("DecryptionFailed")

\* For RSA a content key that does not decrypt, or is of the wrong length, is
\* replaced by a random one; otherwise either is an error.
Recovered(jwe, got) ==
    LET rsa == jwe.header.alg = "RSA-OAEP"
        substitute == Yields(Cek(Random("substitute"), CekBytes[jwe.header.enc]))
    IN IF got.reason # "none"
       THEN IF rsa /\ got.reason = "DecryptionFailed" THEN substitute ELSE got
       ELSE IF got.cek.bytes = CekBytes[jwe.header.enc] THEN got
       ELSE IF rsa THEN substitute ELSE Fail("DecryptionFailed")

\* The header that was sent is authenticated with the content.
ContentDecrypts(jwe, cek) ==
    jwe.body.intact /\ jwe.body.cek = cek /\ jwe.body.header = jwe.header

\* The parameters that the schema of ProtectedHeader knows.
ProtectedParameters ==
    {"alg", "enc", "kid", "typ", "cty", "epk", "apu", "apv", "iv", "tag", "p2s", "p2c"}

\* The header is JSON and decodes.
HeaderReads(jwe) == jwe.readable /\ WellTyped(jwe.header, ProtectedParameters)

\* decrypt: the reason of its error, or "Ok".
Decrypt(jwe, options) ==
    LET got == Recovered(jwe, KeyManagementDecrypt(jwe, options.key, options.maxPBES2Count))
    IN IF ~HeaderReads(jwe) THEN "Malformed"
       ELSE IF \/ "crit" \in DOMAIN jwe.header
               \/ options.algs # <<>> /\ jwe.header.alg \notin options.algs[1]
               \/ options.encs # <<>> /\ jwe.header.enc \notin options.encs[1]
       THEN "UnsupportedAlgorithm"
       ELSE IF ~jwe.keyReadable THEN "Malformed"
       ELSE IF got.reason # "none" THEN got.reason
       ELSE IF ~jwe.bodyReadable THEN "Malformed"
       ELSE IF ContentDecrypts(jwe, got.cek) THEN "Ok" ELSE "DecryptionFailed"
==============================================================================
