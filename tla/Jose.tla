-------------------------------- MODULE Jose ---------------------------------
(***************************************************************************)
(* A signed or encrypted message on its way: made by `sign` or `encrypt`,  *)
(* altered in transit in any way the transport may, opened by `verify` or  *)
(* `decrypt`.  The payload's own codec is left out.                        *)
(***************************************************************************)
EXTENDS FiniteSets, SequencesExt, Jws, Jwe

CONSTANTS
    JwsOffers,       \* what may be signed: payload, signers, critical headers
    JwsReceivers,    \* verify's options
    JweOffers,       \* encrypt's options
    JweReceivers,    \* decrypt's options
    Others,          \* signers nobody asked for
    OtherPayload,
    ProtectedEdits,  \* what transit may put into a protected header
    HeaderEdits,     \* and into the unprotected one
    ParameterEdits,  \* and into that of a JWE
    OtherKeys,       \* encrypted keys it may put in
    Spares,          \* keys a verifier may have besides
    MaxAlterations   \* bound

\* An algorithm's name is of the type that it should have.
ASSUME IllTypedAssumption ==
    IllTyped \notin Algorithms \cup JweAlgorithms \cup DOMAIN CekBytes

\* Signing takes a key of its algorithm's family.  A caller's headers leave alg
\* and crit alone (ProtectedHeaderExtras), encode by the header's schema, and
\* critical ones are none of those that are registered
\* (ValidateCriticalHeaderKey).
ASSUME SignersAssumption ==
    \A o \in JwsOffers :
        /\ o.signers \in Seq(Range(o.signers))
        /\ DOMAIN o.criticals \cap (Registered \cup {"crit"}) = {}
        /\ \A s \in Range(o.signers) :
              /\ s.algorithm \in Algorithms /\ s.key.alg \in Algorithms
              /\ Family[s.key.alg] = Family[s.algorithm]
              /\ DOMAIN s.header \cap {"alg", "crit"} = {}
              /\ HeaderDecodes(s.header, {})

\* What verify's options are.
ASSUME ReceiverAssumption ==
    \A r \in JwsReceivers :
        /\ DOMAIN r = {"publicKeys", "algorithms", "criticals", "maxSignatures",
                       "trustEmbeddedJwk", "resolveJku"}
        /\ r.trustEmbeddedJwk \in BOOLEAN /\ r.maxSignatures \in Nat

\* Encryption knows its algorithms, what the parties are called (apu, apv) is
\* encoded before it is sent, a count is a whole number, and so is everything
\* encrypt writes itself of its parameter's type.  A caller's own header
\* parameters may be anything (Record<string, unknown>).
ASSUME EncryptersAssumption ==
    \A o \in JweOffers :
        /\ o.alg \in JweAlgorithms /\ o.enc \in DOMAIN CekBytes
        /\ DOMAIN o.agreement \subseteq {"apu", "apv"}
        /\ \A x \in DOMAIN o.agreement : o.agreement[x] # Garbled
        /\ o.p2c \in Nat
        /\ WellTyped(Extras(o), DOMAIN Extras(o))

\* A key is known by its id, for both sides.
ASSUME KeysAssumption ==
    \A o \in JweOffers, r \in JweReceivers : o.key.id = r.key.id => o.key = r.key

\* A header of any other algorithm does not decode: such an edit leaves a JWE
\* unreadable, as GarblePart does.  An unprotected JWS header is decoded with
\* the serialization; one that does not ends verify before it starts.
ASSUME EditsAssumption ==
    /\ \A edit \in ParameterEdits : "alg" \in DOMAIN edit => edit.alg \in JweAlgorithms
    /\ \A edit \in HeaderEdits : HeaderDecodes(edit, {})

\* The others have no key that a verifier trusts.
ASSUME OthersAssumption ==
    \A s \in Others, r \in JwsReceivers : \A key \in r.publicKeys : s.key.id # key.id

VARIABLES
    stage,     \* "none", "sent", "opened"
    offer,     \* history: what was signed or encrypted
    message,
    receiver,  \* the options it will be opened with
    altered,   \* how often it was altered
    result

vars == <<stage, offer, message, receiver, altered, result>>

Nothing == [kind |-> "none"]
IsJws == stage # "none" /\ message.kind = "jws"
IsJwe == stage # "none" /\ message.kind = "jwe"

Init ==
    /\ stage = "none"
    /\ offer = Nothing /\ message = Nothing /\ receiver = Nothing /\ result = Nothing
    /\ altered = 0

------------------------------------------------------------------------------
(* Making.                                                                  *)

Send(what, by, for) ==
    /\ stage = "none"
    /\ stage' = "sent"
    /\ offer' = by
    /\ message' = what
    /\ receiver' = for
    /\ UNCHANGED <<altered, result>>

MakeJws(o, r) ==
    Send([kind |-> "jws", jws |-> Sign(o.payload, o.signers, o.criticals)], o, r)

\* encrypt may fail, and then there is no message.
MakeJwe(o, r) ==
    /\ Encrypts(o)
    /\ Send([kind |-> "jwe", jwe |-> Encrypt(o)], o, r)

------------------------------------------------------------------------------
(* Transit.                                                                 *)

AlterJws(new) ==
    /\ stage = "sent" /\ IsJws /\ altered < MaxAlterations
    /\ message' = [message EXCEPT !.jws = new]
    /\ altered' = altered + 1
    /\ UNCHANGED <<stage, offer, receiver, result>>

Signatures == message.jws.signatures
WithSignatures(s) == [message.jws EXCEPT !.signatures = s]

ReplacePayload == IsJws /\ AlterJws([message.jws EXCEPT !.payload = OtherPayload])

EditProtected(edit) ==
    /\ IsJws
    /\ \E i \in DOMAIN Signatures :
          AlterJws(WithSignatures([Signatures EXCEPT ![i].protected = Over(edit, @)]))

EditHeader(edit) ==
    /\ IsJws
    /\ \E i \in DOMAIN Signatures :
          AlterJws(WithSignatures([Signatures EXCEPT ![i].header = Over(edit, @)]))

GarbleSignature ==
    /\ IsJws
    /\ \E i \in DOMAIN Signatures :
          AlterJws(WithSignatures([Signatures EXCEPT ![i].readable = FALSE]))

\* Somebody signs it too, with a key of their own.
AddSignature(signer) ==
    /\ IsJws
    /\ LET one == Sign(message.jws.payload, <<signer>>, <<>>).signatures
       IN AlterJws(WithSignatures(one \o Signatures))
             \/ AlterJws(WithSignatures(Signatures \o one))

DropSignature ==
    /\ IsJws /\ Len(Signatures) > 1
    /\ \E i \in DOMAIN Signatures : AlterJws(WithSignatures(RemoveAt(Signatures, i)))

ReorderSignatures ==
    /\ IsJws /\ Len(Signatures) > 1
    /\ AlterJws(WithSignatures(Reverse(Signatures)))

AlterJwe(new) ==
    /\ stage = "sent" /\ IsJwe /\ altered < MaxAlterations
    /\ message' = [message EXCEPT !.jwe = new]
    /\ altered' = altered + 1
    /\ UNCHANGED <<stage, offer, receiver, result>>

EditParameter(edit) ==
    IsJwe /\ AlterJwe([message.jwe EXCEPT !.header = Over(edit, @)])

DropParameter ==
    /\ IsJwe
    /\ LET h == message.jwe.header
       IN \E x \in DOMAIN h \ {"alg", "enc"} :
             AlterJwe([message.jwe EXCEPT !.header = Part(h, DOMAIN h \ {x})])

ReplaceKey == IsJwe /\ \E k \in OtherKeys : AlterJwe([message.jwe EXCEPT !.encryptedKey = k])

CorruptBody == IsJwe /\ AlterJwe([message.jwe EXCEPT !.body.intact = FALSE])

GarblePart ==
    /\ IsJwe
    /\ \/ AlterJwe([message.jwe EXCEPT !.readable = FALSE])
       \/ AlterJwe([message.jwe EXCEPT !.keyReadable = FALSE])
       \/ AlterJwe([message.jwe EXCEPT !.bodyReadable = FALSE])

------------------------------------------------------------------------------
(* Opening.                                                                 *)

Opened(m, r) ==
    IF m.kind = "jws" THEN Verify(m.jws, r)
    ELSE [verdict |-> Decrypt(m.jwe, r), entry |-> 0]

Open ==
    /\ stage = "sent"
    /\ stage' = "opened"
    /\ result' = Opened(message, receiver)
    /\ UNCHANGED <<offer, message, receiver, altered>>

Next ==
    \/ \E o \in JwsOffers, r \in JwsReceivers : MakeJws(o, r)
    \/ \E o \in JweOffers, r \in JweReceivers : MakeJwe(o, r)
    \/ ReplacePayload \/ GarbleSignature \/ DropSignature \/ ReorderSignatures
    \/ \E edit \in ProtectedEdits : EditProtected(edit)
    \/ \E edit \in HeaderEdits : EditHeader(edit)
    \/ \E signer \in Others : AddSignature(signer)
    \/ \E edit \in ParameterEdits : EditParameter(edit)
    \/ DropParameter \/ ReplaceKey \/ CorruptBody \/ GarblePart
    \/ Open

Spec == Init /\ [][Next]_vars

------------------------------------------------------------------------------
(* Properties.                                                              *)

\* A signed message that keeps to the verifier's limits.
WithinVerify ==
    LET algorithms == {offer.signers[i].algorithm : i \in DOMAIN offer.signers}
        keys == {offer.signers[i].key : i \in DOMAIN offer.signers}
    IN /\ Len(offer.signers) <= receiver.maxSignatures
       /\ DOMAIN offer.criticals = receiver.criticals
       /\ receiver.algorithms = <<>> \/ algorithms \subseteq receiver.algorithms[1]
       /\ keys \cap receiver.publicKeys # {}
       /\ \A i \in DOMAIN offer.signers : ~ResolvedKeys(offer.signers[i].header, receiver).fails

\* The caller's header parameters that reach the message: not those that
\* encrypt writes its own over.
OwnParameters(o) ==
    Part(o.header, DOMAIN o.header \ (DOMAIN Extras(o) \cup {"alg", "enc"}))

\* Those that keep a message from being opened: a crit, a value of another type
\* than the schema has, an agreement's party name that is not base64url, or one
\* that encrypt did not agree on.  (An empty name says the same as none and is
\* left out, here as in `agreement`.)
InTheWay(o) ==
    LET own == OwnParameters(o)
    IN \/ "crit" \in DOMAIN own
       \/ ~WellTyped(own, ProtectedParameters)
       \/ GarbledIn(own, {"apu", "apv"})
       \/ o.alg \in Agreed /\ {"apu", "apv"} \cap DOMAIN own # {}

\* An encrypted message that keeps to the recipient's.
WithinDecrypt ==
    /\ offer.key = receiver.key
    /\ receiver.algs = <<>> \/ offer.alg \in receiver.algs[1]
    /\ receiver.encs = <<>> \/ offer.enc \in receiver.encs[1]
    /\ offer.alg = "PBES2-HS256+A128KW"
          => 1000 <= offer.p2c /\ offer.p2c <= receiver.maxPBES2Count
    /\ ~InTheWay(offer)

\* What sign makes verify accepts when both sides' options agree: with several
\* signers a verifier needs the key of any one of them.  What encrypt makes
\* decrypt opens when they agree and only then: of a caller's header parameters
\* those that encrypt writes over get in nobody's way, and of the others exactly
\* those that InTheWay names.
MadeOpens ==
    stage = "opened" /\ altered = 0
        => IF IsJws THEN WithinVerify => result.verdict = "Ok"
           ELSE result.verdict = "Ok" <=> WithinDecrypt

\* What opens is what was made: a signature under one of the verifier's keys
\* was made over this very header and payload, one under a key the token
\* brought needs the verifier's consent and a key pair; and a decrypted
\* message has the header and plaintext it was encrypted with.
OpenedIsAuthentic ==
    stage = "opened" /\ result.verdict = "Ok" =>
        IF IsJws
        THEN LET entry == Signatures[result.entry]
                 own == {k.id : k \in receiver.publicKeys}
             IN IF entry.signature.by \in own
                THEN /\ message.jws.payload = offer.payload
                     /\ \E i \in DOMAIN offer.signers :
                           /\ offer.signers[i].key.id = entry.signature.by
                           /\ entry.protected = ProtectedHeader(offer.signers[i], offer.criticals)
                ELSE /\ receiver.trustEmbeddedJwk \/ receiver.resolveJku # <<>>
                     /\ Family[entry.protected.alg] # "HMAC"
        ELSE message.jwe.header = Header(offer) /\ message.jwe.body.plaintext = offer.plaintext

\* RFC 7516 Section 11.5: whatever is wrong with the encrypted key of an RSA
\* message, its recipient answers the same.
RsaFailuresAlike ==
    IsJwe /\ message.jwe.header.alg = "RSA-OAEP" =>
        LET verdict(k) == Decrypt([message.jwe EXCEPT !.encryptedKey = k], receiver)
        IN \A k, l \in OtherKeys \cup {message.jwe.encryptedKey} :
              verdict(k) # "Ok" /\ verdict(l) # "Ok" => verdict(k) = verdict(l)

\* A key too many, of another family even, is passed over when it does not
\* fit: it turns no success into a failure and no failure into another.
SpareKeysDoNoHarm ==
    IsJws => \A key \in Spares :
        Verify(message.jws, [receiver EXCEPT !.publicKeys = @ \cup {key}]).verdict
            \in {Verify(message.jws, receiver).verdict, "Ok"}
==============================================================================
