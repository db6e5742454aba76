------------------------------- MODULE MCJose --------------------------------
\* TLC instance of Jose.
EXTENDS Jose

------------------------------------------------------------------------------
(* Signatures.                                                              *)

Es == CryptoKey("es", "ES256")
Rs == CryptoKey("rs", "RS256")
Ps == CryptoKey("ps", "PS384")
Hs == CryptoKey("hs", "HS256")

Signer(key, alg, header) == [key |-> key, algorithm |-> alg, header |-> header]
EsSigner == Signer(Es, "ES256", [kid |-> "1"])
RsSigner == Signer(Rs, "RS384", <<>>)
HsSigner == Signer(Hs, "HS256", <<>>)
PsSigner == Signer(Ps, "PS384", <<>>)

NoteOf(signers) == [payload |-> "note", signers |-> signers, criticals |-> <<>>]
SomeOffers ==
    {NoteOf(<<EsSigner>>), NoteOf(<<HsSigner>>), NoteOf(<<RsSigner, EsSigner>>),
     NoteOf(<<PsSigner, RsSigner, EsSigner>>),
     [NoteOf(<<EsSigner, RsSigner>>) EXCEPT !.criticals = [until |-> 1]]}

\* Keys a token may bring: a key pair's, a shared secret.
PairKey == Key("stranger", NoKid, "P-256")
SecretKey == Key("stranger", NoKid, "oct")

\* Somebody else's signatures.
SomeOthers ==
    {Signer(CryptoKey("stranger", "ES256"), "ES256", [jwk |-> PairKey]),
     Signer(CryptoKey("stranger", "HS256"), "HS256", [jwk |-> SecretKey]),
     Signer(CryptoKey("stranger", "ES256"), "ES256", [jku |-> "theirs"])}

JkuSets ==
    [theirs |-> [fails |-> FALSE, keys |-> {PairKey, SecretKey}],
     down |-> [fails |-> TRUE, keys |-> {}]]

Strict ==
    [publicKeys |-> {Es}, algorithms |-> <<>>, criticals |-> {}, maxSignatures |-> 4,
     trustEmbeddedJwk |-> FALSE, resolveJku |-> <<>>]
SomeReceivers ==
    {Strict,
     [Strict EXCEPT !.publicKeys = {Rs, Es}, !.criticals = {"until"}],
     [Strict EXCEPT !.publicKeys = {Hs}, !.algorithms = <<{"HS256"}>>],
     [Strict EXCEPT !.publicKeys = {Rs}, !.algorithms = <<{"ES256", "RS384"}>>,
                    !.maxSignatures = 2],
     [Strict EXCEPT !.trustEmbeddedJwk = TRUE],
     [Strict EXCEPT !.resolveJku = <<JkuSets>>]}

SomeProtectedEdits ==
    {[alg |-> "RS256"], [crit |-> {"until"}], [jwk |-> PairKey], [kid |-> IllTyped],
     [jwk |-> [PairKey EXCEPT !.decodes = FALSE]]}
SomeHeaderEdits == {[kid |-> "1"], [alg |-> "ES256"], [jwk |-> PairKey], [jku |-> "down"]}
SomeSpares == {Ps, Rs, CryptoKey("es2", "ES256")}

------------------------------------------------------------------------------
(* Encryption.                                                              *)

Enc(id, use, bytes) == [id |-> id, use |-> use, bytes |-> bytes, crv |-> "none"]
Shared == Enc("shared", "AES-KW", 32)
Gcm == Enc("gcm", "AES-GCM", 16)
Rsa == Enc("rsa", "RSA-OAEP", 0)
Password == Enc("password", "PBKDF2", 0)
Ec == [Enc("ec", "ECDH", 0) EXCEPT !.crv = "P-256"]
OtherEc == [Enc("ec384", "ECDH", 0) EXCEPT !.crv = "P-384"]

Letter(key, alg) ==
    [plaintext |-> "letter", key |-> key, alg |-> alg, enc |-> "A256GCM",
     header |-> <<>>, p2c |-> 2048, agreement |-> <<>>]
\* What a caller puts into a header without the types to stop it: encrypt writes
\* over some of it under one algorithm and not under another.
CallersHeaders ==
    {[kid |-> IllTyped], [iv |-> IllTyped, typ |-> "JWT"], [epk |-> IllTyped],
     [apu |-> "alice"], [apv |-> Garbled], [p2c |-> 1, until |-> IllTyped]}

SomeLetters ==
    {Letter(Shared, "dir"), Letter(Shared, "A128KW"), Letter(Gcm, "A128GCMKW"),
     Letter(Rsa, "RSA-OAEP"), Letter(Ec, "ECDH-ES"),
     [Letter(Shared, "dir") EXCEPT !.enc = "A128GCM"],
     [Letter(Rsa, "RSA-OAEP") EXCEPT !.enc = "A256CBC-HS512", !.header = [crit |-> "exp"]],
     [Letter(Ec, "ECDH-ES+A128KW") EXCEPT !.agreement = [apu |-> "alice", apv |-> "bob"],
                                          !.header = [epk |-> IllTyped, kid |-> "1"]],
     [Letter(Password, "PBES2-HS256+A128KW") EXCEPT !.header = [p2c |-> IllTyped]],
     [Letter(Password, "PBES2-HS256+A128KW") EXCEPT !.p2c = 1000],
     [Letter(Password, "PBES2-HS256+A128KW") EXCEPT !.p2c = 999]}
        \cup {[Letter(Shared, "A128KW") EXCEPT !.header = h] : h \in CallersHeaders}
        \cup {[Letter(Gcm, "A128GCMKW") EXCEPT !.header = h] : h \in CallersHeaders}
        \cup {[Letter(Ec, "ECDH-ES") EXCEPT !.header = h] : h \in CallersHeaders}

Reader(key) == [key |-> key, algs |-> <<>>, encs |-> <<>>, maxPBES2Count |-> 10000]
SomeReaders ==
    {Reader(key) : key \in {Shared, Gcm, Rsa, Password, Ec, OtherEc}}
        \cup {[Reader(Password) EXCEPT !.maxPBES2Count = 2047],
              [Reader(Shared) EXCEPT !.algs = <<{"dir"}>>, !.encs = <<{"A128GCM", "A256GCM"}>>]}

SomeParameterEdits ==
    {[alg |-> "dir"], [enc |-> "A128CBC-HS256"], [apu |-> Garbled], [apv |-> "carol"],
     [iv |-> Garbled], [p2s |-> Short], [p2c |-> 0], [p2c |-> 100000],
     [epk |-> [crv |-> "P-384", point |-> "other"]],
     [epk |-> [crv |-> "P-256", point |-> "other"]], [crit |-> "exp"],
     [typ |-> IllTyped]}

\* A key that fits, one of the wrong length, one for somebody else.
SomeKeys ==
    {Wrap([key |-> "rsa", from |-> <<>>], Cek(Random("other"), 32)),
     Wrap([key |-> "rsa", from |-> <<>>], Cek(Random("other"), 7)),
     Wrap([key |-> "nobody", from |-> <<>>], Cek(Random("other"), 32))}
==============================================================================
