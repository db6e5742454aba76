----------------------------- MODULE JoseProofs ------------------------------
(***************************************************************************)
(* Proofs about Jose, for any messages, keys, headers and options and any  *)
(* number of alterations on the way: what was made opens, what opens was   *)
(* made, and neither a key too many nor the encrypted key of an RSA        *)
(* message makes a difference that it should not.                          *)
(***************************************************************************)
EXTENDS Jose, WellFoundedInduction, TLAPS

------------------------------------------------------------------------------
(* What decrypt makes of an RSA message.                                    *)

\* A message of five parts.
IsJweMessage(jwe) ==
    /\ jwe = [readable |-> jwe.readable, header |-> jwe.header,
              keyReadable |-> jwe.keyReadable, encryptedKey |-> jwe.encryptedKey,
              bodyReadable |-> jwe.bodyReadable, body |-> jwe.body]
    /\ jwe.body = [cek |-> jwe.body.cek, header |-> jwe.body.header, intact |-> jwe.body.intact,
                   plaintext |-> jwe.body.plaintext]
    /\ {jwe.readable, jwe.keyReadable, jwe.bodyReadable} \subseteq BOOLEAN

\* What a recipient answers to an RSA message that does not open: it does not
\* depend on the encrypted key.
RsaFailure(jwe, options) ==
    IF ~HeaderReads(jwe) THEN "Malformed"
    ELSE IF \/ "crit" \in DOMAIN jwe.header
            \/ options.algs # <<>> /\ jwe.header.alg \notin options.algs[1]
            \/ options.encs # <<>> /\ jwe.header.enc \notin options.encs[1]
    THEN "UnsupportedAlgorithm"
    ELSE IF ~jwe.keyReadable \/ GarbledIn(jwe.header, {"apu", "apv"}) \/ ~jwe.bodyReadable
    THEN "Malformed"
    ELSE "DecryptionFailed"

LEMMA RsaKeyIsRecovered ==
    ASSUME NEW jwe, NEW key, NEW max, jwe.header.alg = "RSA-OAEP"
    PROVE  Recovered(jwe, KeyManagementDecrypt(jwe, key, max)).reason =
              IF GarbledIn(jwe.header, {"apu", "apv"}) THEN "Malformed" ELSE "none"
<1> DEFINE got == KeyManagementDecrypt(jwe, key, max)
<1>1. CASE GarbledIn(jwe.header, {"apu", "apv"})
  <2>1. got = Fail("Malformed")
    BY <1>1 DEF KeyManagementDecrypt
  <2>2. got.reason = "Malformed"
    BY <2>1 DEF Fail
  <2> QED
    BY <1>1, <2>2 DEF Recovered
<1>2. CASE ~GarbledIn(jwe.header, {"apu", "apv"})
  <2>1. got \in {Yields(jwe.encryptedKey.cek), Fail("DecryptionFailed")}
    BY <1>2 DEF KeyManagementDecrypt, Unwrapped, Agreed
  <2>2. got.reason \in {"none", "DecryptionFailed"}
    BY <2>1 DEF Yields, Fail
  <2>3. Yields(Cek(Random("substitute"), CekBytes[jwe.header.enc])).reason = "none"
    BY DEF Yields
  <2> HIDE DEF got
  <2>4. Recovered(jwe, got).reason = "none"
    BY <2>2, <2>3 DEF Recovered
  <2> QED
    BY <1>2, <2>4 DEF got
<1> QED
  BY <1>1, <1>2

LEMMA RsaVerdict ==
    ASSUME NEW jwe, IsJweMessage(jwe), NEW options, jwe.header.alg = "RSA-OAEP"
    PROVE  Decrypt(jwe, options) \in {"Ok", RsaFailure(jwe, options)}
<1> DEFINE got == Recovered(jwe, KeyManagementDecrypt(jwe, options.key, options.maxPBES2Count))
<1>1. got.reason = IF GarbledIn(jwe.header, {"apu", "apv"}) THEN "Malformed" ELSE "none"
  BY RsaKeyIsRecovered
<1> HIDE DEF got
<1>2. Decrypt(jwe, options) =
        IF ~HeaderReads(jwe) THEN "Malformed"
        ELSE IF \/ "crit" \in DOMAIN jwe.header
                \/ options.algs # <<>> /\ jwe.header.alg \notin options.algs[1]
                \/ options.encs # <<>> /\ jwe.header.enc \notin options.encs[1]
        THEN "UnsupportedAlgorithm"
        ELSE IF ~jwe.keyReadable THEN "Malformed"
        ELSE IF got.reason # "none" THEN got.reason
        ELSE IF ~jwe.bodyReadable THEN "Malformed"
        ELSE IF ContentDecrypts(jwe, got.cek) THEN "Ok" ELSE "DecryptionFailed"
  BY DEF Decrypt, got
<1> QED
  BY <1>1, <1>2 DEF RsaFailure

LEMMA RsaKeyDoesNotMatter ==
    ASSUME NEW jwe, IsJweMessage(jwe), NEW options, NEW k
    PROVE  LET other == [jwe EXCEPT !.encryptedKey = k]
           IN /\ IsJweMessage(other) /\ other.header = jwe.header
              /\ RsaFailure(other, options) = RsaFailure(jwe, options)
<1> DEFINE other == [jwe EXCEPT !.encryptedKey = k]
<1>1. other = [readable |-> jwe.readable, header |-> jwe.header,
              keyReadable |-> jwe.keyReadable, encryptedKey |-> k,
              bodyReadable |-> jwe.bodyReadable, body |-> jwe.body]
  BY DEF IsJweMessage
<1> HIDE DEF other
<1>2. IsJweMessage(other)
  BY <1>1 DEF IsJweMessage
<1>3. RsaFailure(other, options) = RsaFailure(jwe, options)
  BY <1>1 DEF RsaFailure, HeaderReads
<1> QED
  BY <1>1, <1>2, <1>3 DEF other

------------------------------------------------------------------------------
\* A sequence, of its own elements.
Elements(s) == {s[i] : i \in DOMAIN s}
IsSeq(s) == Len(s) \in Nat /\ s = [i \in 1..Len(s) |-> s[i]]

LEMMA SeqOfElements ==
    ASSUME NEW s, IsSeq(s)
    PROVE  s \in Seq(Elements(s)) /\ DOMAIN s = 1..Len(s)
<1>1. DOMAIN s = 1..Len(s)
  BY DEF IsSeq
<1>2. \A i \in 1..Len(s) : s[i] \in Elements(s)
  BY <1>1 DEF Elements
<1>3. s \in [1..Len(s) -> Elements(s)]
  BY <1>1, <1>2 DEF IsSeq
<1> QED
  BY <1>1, <1>3 DEF IsSeq

LEMMA SeqIsSeq ==
    ASSUME NEW S, NEW s \in Seq(S)
    PROVE  IsSeq(s) /\ Elements(s) \subseteq S
  BY DEF IsSeq, Elements

LEMMA Removed ==
    ASSUME NEW s, IsSeq(s), NEW i \in DOMAIN s
    PROVE  IsSeq(RemoveAt(s, i)) /\ Elements(RemoveAt(s, i)) \subseteq Elements(s)
<1>1. s \in Seq(Elements(s)) /\ i \in 1..Len(s)
  BY SeqOfElements
<1>2. RemoveAt(s, i) \in Seq(Elements(s))
  BY <1>1 DEF RemoveAt
<1> QED
  BY <1>2, SeqIsSeq

LEMMA Reversed ==
    ASSUME NEW s, IsSeq(s)
    PROVE  IsSeq(Reverse(s)) /\ Elements(Reverse(s)) \subseteq Elements(s)
<1>1. s \in Seq(Elements(s))
  BY SeqOfElements
<1>2. Reverse(s) \in Seq(Elements(s))
  BY <1>1 DEF Reverse
<1> QED
  BY <1>2, SeqIsSeq

LEMMA Joined ==
    ASSUME NEW s, IsSeq(s), NEW t, IsSeq(t)
    PROVE  IsSeq(s \o t) /\ Elements(s \o t) \subseteq Elements(s) \cup Elements(t)
<1>1. s \in Seq(Elements(s) \cup Elements(t)) /\ t \in Seq(Elements(s) \cup Elements(t))
  BY SeqOfElements
<1>2. s \o t \in Seq(Elements(s) \cup Elements(t))
  BY <1>1
<1> QED
  BY <1>2, SeqIsSeq

LEMMA Replaced ==
    ASSUME NEW s, IsSeq(s), NEW i \in DOMAIN s, NEW e
    PROVE  /\ IsSeq([s EXCEPT ![i] = e])
           /\ Elements([s EXCEPT ![i] = e]) \subseteq Elements(s) \cup {e}
<1>1. s \in Seq(Elements(s) \cup {e})
  BY SeqOfElements
<1>2. [s EXCEPT ![i] = e] \in Seq(Elements(s) \cup {e})
  BY <1>1
<1> QED
  BY <1>2, SeqIsSeq

------------------------------------------------------------------------------
(* What verify makes of a message.                                          *)

At(jws, i, options) == EntryVerdict(jws, jws.signatures[i], options)

\* Every set of positions has a first one.
LEMMA FirstPosition ==
    ASSUME NEW S \in SUBSET Nat, S # {}
    PROVE  \E i \in S : \A j \in S : i <= j
<1>1. PICK i \in S : \A j \in S : ~(<<j, i>> \in OpToRel(<, Nat))
  BY WFMin, NatLessThanWellFounded
<1>2. \A j \in S : <<j, i>> \in Nat \X Nat
  OBVIOUS
<1>3. \A j \in S : ~(j < i)
  BY <1>1, <1>2 DEF OpToRel
<1> QED
  BY <1>3

\* There are too many signatures, or none is decisive, or the first that is
\* decides.
LEMMA FirstDecides ==
    ASSUME NEW jws, IsSeq(jws.signatures), NEW options
    PROVE  \/ /\ Len(jws.signatures) > options.maxSignatures
              /\ Verify(jws, options) = [verdict |-> "InvalidHeaders", entry |-> 0]
           \/ /\ ~(Len(jws.signatures) > options.maxSignatures)
              /\ \A i \in DOMAIN jws.signatures : At(jws, i, options) = "Next"
              /\ Verify(jws, options) = [verdict |-> "InvalidSignature", entry |-> 0]
           \/ /\ ~(Len(jws.signatures) > options.maxSignatures)
              /\ \E i \in DOMAIN jws.signatures :
                    /\ At(jws, i, options) # "Next"
                    /\ \A j \in DOMAIN jws.signatures : j < i => At(jws, j, options) = "Next"
                    /\ Verify(jws, options) = [verdict |-> At(jws, i, options), entry |-> i]
<1> DEFINE verdicts == [i \in DOMAIN jws.signatures |-> At(jws, i, options)]
<1> DEFINE decisive == {i \in DOMAIN verdicts : verdicts[i] # "Next"}
<1>1. DOMAIN jws.signatures \subseteq Nat
  BY SeqOfElements
<1>2. Verify(jws, options) =
        IF Len(jws.signatures) > options.maxSignatures
        THEN [verdict |-> "InvalidHeaders", entry |-> 0]
        ELSE IF decisive = {} THEN [verdict |-> "InvalidSignature", entry |-> 0]
        ELSE LET first == CHOOSE i \in decisive : \A j \in decisive : i <= j
             IN [verdict |-> verdicts[first], entry |-> first]
  BY DEF Verify, At
<1>3. CASE Len(jws.signatures) > options.maxSignatures
  BY <1>2, <1>3
<1>4. CASE ~(Len(jws.signatures) > options.maxSignatures) /\ decisive = {}
  BY <1>2, <1>4
<1>5. CASE ~(Len(jws.signatures) > options.maxSignatures) /\ decisive # {}
  <2>1. decisive \in SUBSET Nat
    BY <1>1
  <2>2. \E i \in decisive : \A j \in decisive : i <= j
    BY <1>5, <2>1, FirstPosition
  <2>3. PICK i \in decisive :
          /\ \A j \in decisive : i <= j
          /\ Verify(jws, options) = [verdict |-> verdicts[i], entry |-> i]
    BY <1>2, <1>5, <2>2
  <2>4. \A j \in DOMAIN jws.signatures : j < i => At(jws, j, options) = "Next"
    BY <1>1, <2>3
  <2> QED
    BY <1>5, <2>3, <2>4
<1> QED
  BY <1>3, <1>4, <1>5

\* One key more: an entry that was passed over may be signed after all.
LEMMA OneKeyMore ==
    ASSUME NEW jws, NEW entry, NEW r \in JwsReceivers, NEW key
    PROVE  LET more == [r EXCEPT !.publicKeys = @ \cup {key}]
           IN \/ EntryVerdict(jws, entry, more) = EntryVerdict(jws, entry, r)
              \/ EntryVerdict(jws, entry, r) = "Next" /\ EntryVerdict(jws, entry, more) = "Ok"
<1> DEFINE more == [r EXCEPT !.publicKeys = @ \cup {key}]
<1> DEFINE header == Over(entry.protected, entry.header)
<1>1. /\ more.publicKeys = r.publicKeys \cup {key} /\ more.algorithms = r.algorithms
      /\ more.criticals = r.criticals /\ more.trustEmbeddedJwk = r.trustEmbeddedJwk
      /\ more.resolveJku = r.resolveJku
  BY ReceiverAssumption
<1> HIDE DEF more, header
<1>2. ResolvedKeys(header, more) = ResolvedKeys(header, r)
  BY <1>1 DEF ResolvedKeys
<1>3. EmbeddedKeys(header, more) = EmbeddedKeys(header, r)
  BY <1>1 DEF EmbeddedKeys
<1>4. KeysFor(header, more) = KeysFor(header, r) \cup {key}
  BY <1>1, <1>2, <1>3 DEF KeysFor
<1>5. Signed(jws, entry, KeysFor(header, r)) => Signed(jws, entry, KeysFor(header, more))
  BY <1>4 DEF Signed
<1>6. EntryVerdict(jws, entry, r) =
        IF ~entry.readable \/ ~HeaderDecodes(entry.protected, r.criticals)
        THEN "SchemaError"
        ELSE IF \/ DOMAIN entry.protected \cap DOMAIN entry.header # {}
                \/ r.algorithms # <<>> /\ header.alg \notin r.algorithms[1]
                \/ ResolvedKeys(header, r).fails
        THEN "InvalidHeaders"
        ELSE IF Signed(jws, entry, KeysFor(header, r)) THEN "Ok"
        ELSE "Next"
  BY DEF EntryVerdict, header
<1>7. EntryVerdict(jws, entry, more) =
        IF ~entry.readable \/ ~HeaderDecodes(entry.protected, r.criticals)
        THEN "SchemaError"
        ELSE IF \/ DOMAIN entry.protected \cap DOMAIN entry.header # {}
                \/ r.algorithms # <<>> /\ header.alg \notin r.algorithms[1]
                \/ ResolvedKeys(header, r).fails
        THEN "InvalidHeaders"
        ELSE IF Signed(jws, entry, KeysFor(header, more)) THEN "Ok"
        ELSE "Next"
  BY <1>1, <1>2 DEF EntryVerdict, header
<1> QED
  BY <1>5, <1>6, <1>7 DEF more

LEMMA SpareKeyHarmsNot ==
    ASSUME NEW jws, IsSeq(jws.signatures), NEW r \in JwsReceivers, NEW key
    PROVE  Verify(jws, [r EXCEPT !.publicKeys = @ \cup {key}]).verdict
              \in {Verify(jws, r).verdict, "Ok"}
<1> DEFINE more == [r EXCEPT !.publicKeys = @ \cup {key}]
<1>1. more.maxSignatures = r.maxSignatures
  BY ReceiverAssumption
<1>2. \A i \in DOMAIN jws.signatures :
         \/ At(jws, i, more) = At(jws, i, r)
         \/ At(jws, i, r) = "Next" /\ At(jws, i, more) = "Ok"
  BY OneKeyMore DEF At
<1>3. DOMAIN jws.signatures \subseteq Nat
  BY SeqOfElements
<1> HIDE DEF more
<1>4. CASE Len(jws.signatures) > r.maxSignatures
  <2>1. Verify(jws, r).verdict = "InvalidHeaders" /\ Verify(jws, more).verdict = "InvalidHeaders"
    BY <1>1, <1>4, FirstDecides
  <2> QED
    BY <2>1 DEF more
<1>5. CASE /\ ~(Len(jws.signatures) > r.maxSignatures)
           /\ \A i \in DOMAIN jws.signatures : At(jws, i, more) = "Next"
  <2>1. Verify(jws, more).verdict = "InvalidSignature"
    BY <1>1, <1>5, FirstDecides
  <2>2. \A i \in DOMAIN jws.signatures : At(jws, i, r) = "Next"
    BY <1>2, <1>5
  <2>3. Verify(jws, r).verdict = "InvalidSignature"
    BY <1>5, <2>2, FirstDecides
  <2> QED
    BY <2>1, <2>3 DEF more
<1>6. CASE /\ ~(Len(jws.signatures) > r.maxSignatures)
           /\ ~ \A i \in DOMAIN jws.signatures : At(jws, i, more) = "Next"
  <2>1. PICK i \in DOMAIN jws.signatures :
          /\ At(jws, i, more) # "Next"
          /\ \A j \in DOMAIN jws.signatures : j < i => At(jws, j, more) = "Next"
          /\ Verify(jws, more) = [verdict |-> At(jws, i, more), entry |-> i]
    BY <1>1, <1>6, FirstDecides
  <2>2. Verify(jws, more).verdict = At(jws, i, more)
    BY <2>1
  <2>3. CASE At(jws, i, r) = "Next"
    BY <1>2, <2>1, <2>2, <2>3 DEF more
  <2>4. CASE At(jws, i, r) # "Next"
    <3>1. At(jws, i, more) = At(jws, i, r)
      BY <1>2, <2>4
    <3>2. \A j \in DOMAIN jws.signatures : j < i => At(jws, j, r) = "Next"
      BY <1>2, <2>1
    <3>3. PICK k \in DOMAIN jws.signatures :
            /\ At(jws, k, r) # "Next"
            /\ \A j \in DOMAIN jws.signatures : j < k => At(jws, j, r) = "Next"
            /\ Verify(jws, r) = [verdict |-> At(jws, k, r), entry |-> k]
      BY <1>6, <2>4, FirstDecides
    <3>4. k = i
      BY <1>3, <2>4, <3>2, <3>3
    <3> QED
      BY <2>2, <3>1, <3>3, <3>4 DEF more
  <2> QED
    BY <2>3, <2>4
<1> QED
  BY <1>4, <1>5, <1>6

------------------------------------------------------------------------------
(* The messages on their way.                                               *)

\* A signature is one of those that were asked for, as it was made, or one
\* that somebody else made with a key of their own; transit changes what is
\* beside it and never the signature.
Genuine(e, by) ==
    \E i \in DOMAIN by.signers :
        e.signature = SignatureBy(by.signers[i].key, by.signers[i].algorithm,
                                  ProtectedHeader(by.signers[i], by.criticals), by.payload)
Foreign(e) == \E s \in Others : e.signature.by = s.key.id
IsEntry(e, by) ==
    /\ e = [protected |-> e.protected, header |-> e.header, readable |-> e.readable,
            signature |-> e.signature]
    /\ "alg" \in DOMAIN e.protected
    /\ Genuine(e, by) \/ Foreign(e)

IsJwsMessage(jws, by) ==
    /\ jws = [payload |-> jws.payload, signatures |-> jws.signatures]
    /\ IsSeq(jws.signatures)
    /\ \A e \in Elements(jws.signatures) : IsEntry(e, by)

SignedBy(o) == Sign(o.payload, o.signers, o.criticals)

JwsInv ==
    IsJws => /\ offer \in JwsOffers /\ receiver \in JwsReceivers
             /\ message = [kind |-> "jws", jws |-> message.jws]
             /\ IsJwsMessage(message.jws, offer)
             /\ altered = 0 => message.jws = SignedBy(offer)

IsJweHeader(header) == "alg" \in DOMAIN header /\ header.alg \in JweAlgorithms

\* The content of an encrypted message stays what it was, and its header
\* one of a known algorithm.
JweInv ==
    IsJwe => /\ offer \in JweOffers /\ receiver \in JweReceivers
             /\ message = [kind |-> "jwe", jwe |-> message.jwe]
             /\ IsJweMessage(message.jwe) /\ IsJweHeader(message.jwe.header)
             /\ message.jwe.body.header = Header(offer)
             /\ message.jwe.body.plaintext = offer.plaintext
             /\ altered = 0 => message.jwe = Encrypt(offer) /\ Encrypts(offer)

ResultInv ==
    /\ stage \in {"none", "sent", "opened"} /\ altered \in Nat
    /\ stage # "none" => message.kind \in {"jws", "jwe"}
    /\ stage = "opened" => result = Opened(message, receiver)

JoseInv == JwsInv /\ JweInv /\ ResultInv

LEMMA InitEstablishes == Init => JoseInv
  BY DEF Init, JoseInv, JwsInv, JweInv, ResultInv, IsJws, IsJwe

\* What sign makes is signed by those that were asked.
LEMMA SignMakes ==
    ASSUME NEW o \in JwsOffers
    PROVE  IsJwsMessage(SignedBy(o), o)
<1> DEFINE jws == SignedBy(o)
<1> DEFINE headerOf(i) == ProtectedHeader(o.signers[i], o.criticals)
<1> DEFINE signatureOf(i) ==
      SignatureBy(o.signers[i].key, o.signers[i].algorithm, headerOf(i), o.payload)
<1> DEFINE entryOf(i) == [protected |-> headerOf(i), header |-> <<>>, readable |-> TRUE,
                          signature |-> signatureOf(i)]
<1>1. jws = [payload |-> o.payload, signatures |-> [i \in DOMAIN o.signers |-> entryOf(i)]]
  BY DEF SignedBy, Sign, General
<1>2. jws.payload = o.payload /\ jws.signatures = [i \in DOMAIN o.signers |-> entryOf(i)]
  BY <1>1
<1>3. o.signers \in Seq(Range(o.signers))
  BY SignersAssumption
<1>4. IsSeq(jws.signatures)
  <2>1. jws.signatures \in Seq({entryOf(i) : i \in DOMAIN o.signers})
    BY <1>2, <1>3
  <2> QED
    BY <2>1, SeqIsSeq
<1>5. \A i \in DOMAIN o.signers : IsEntry(entryOf(i), o)
  <2> TAKE i \in DOMAIN o.signers
  <2>1. "alg" \in DOMAIN headerOf(i)
    BY DEF ProtectedHeader, Over
  <2> HIDE DEF headerOf
  <2>2. Genuine(entryOf(i), o)
    BY DEF Genuine, headerOf
  <2> QED
    BY <2>1, <2>2 DEF IsEntry
<1>6. \A e \in Elements(jws.signatures) : \E i \in DOMAIN o.signers : e = entryOf(i)
  BY <1>2 DEF Elements
<1>7. \A e \in Elements(jws.signatures) : IsEntry(e, o)
  BY <1>5, <1>6
<1>8. jws = [payload |-> jws.payload, signatures |-> jws.signatures]
  BY <1>1, <1>2
<1> QED
  BY <1>4, <1>7, <1>8 DEF IsJwsMessage

LEMMA MakeJwsStep ==
    ASSUME NEW o \in JwsOffers, NEW r \in JwsReceivers, JoseInv, MakeJws(o, r)
    PROVE  JoseInv'
<1> DEFINE what == [kind |-> "jws", jws |-> SignedBy(o)]
<1>1. /\ stage = "none" /\ stage' = "sent" /\ offer' = o /\ message' = what
      /\ receiver' = r /\ altered' = altered
  BY DEF MakeJws, Send, SignedBy
<1>2. what.kind = "jws" /\ what.jws = SignedBy(o)
  OBVIOUS
<1>3. IsJwsMessage(SignedBy(o), o)
  BY SignMakes
<1> HIDE DEF what
<1>4. what = [kind |-> "jws", jws |-> what.jws]
  BY <1>2 DEF what
<1>5. JwsInv'
  BY <1>1, <1>2, <1>3, <1>4 DEF JwsInv
<1>6. JweInv' /\ ResultInv'
  BY <1>1, <1>2 DEF JoseInv, JweInv, ResultInv, IsJwe
<1> QED
  BY <1>5, <1>6 DEF JoseInv

LEMMA MakeJweStep ==
    ASSUME NEW o \in JweOffers, NEW r \in JweReceivers, JoseInv, MakeJwe(o, r)
    PROVE  JoseInv'
<1> DEFINE what == [kind |-> "jwe", jwe |-> Encrypt(o)]
<1>1. /\ stage = "none" /\ stage' = "sent" /\ offer' = o /\ message' = what
      /\ receiver' = r /\ altered' = altered /\ Encrypts(o)
  BY DEF MakeJwe, Send
<1>2. what.kind = "jwe" /\ what.jwe = Encrypt(o)
  OBVIOUS
<1>3. /\ IsJweMessage(Encrypt(o)) /\ Encrypt(o).body.header = Header(o)
      /\ Encrypt(o).body.plaintext = o.plaintext
  BY DEF Encrypt, Compact, ContentEncrypt, IsJweMessage
<1>7. IsJweHeader(Encrypt(o).header)
  BY EncryptersAssumption DEF Encrypt, Compact, ContentEncrypt, Header, Over, IsJweHeader
<1> HIDE DEF what
<1>4. what = [kind |-> "jwe", jwe |-> what.jwe]
  BY <1>2 DEF what
<1>5. JweInv'
  BY <1>1, <1>2, <1>3, <1>4, <1>7 DEF JweInv
<1>6. JwsInv' /\ ResultInv'
  BY <1>1, <1>2 DEF JoseInv, JwsInv, ResultInv, IsJws
<1> QED
  BY <1>5, <1>6 DEF JoseInv

\* What transit may make of a signed message.
LEMMA JwsAltered ==
    ASSUME JoseInv, NEW new, AlterJws(new), IsJwsMessage(message.jws, offer) => IsJwsMessage(new, offer)
    PROVE  JoseInv'
<1>1. /\ stage = "sent" /\ stage' = "sent" /\ message.kind = "jws" /\ altered' = altered + 1
      /\ offer' = offer /\ receiver' = receiver /\ message' = [message EXCEPT !.jws = new]
  BY DEF AlterJws, IsJws
<1>2. /\ offer \in JwsOffers /\ receiver \in JwsReceivers
      /\ message = [kind |-> "jws", jws |-> message.jws]
      /\ IsJwsMessage(new, offer)
  BY <1>1 DEF JoseInv, JwsInv, IsJws
<1>3. message' = [kind |-> "jws", jws |-> new]
  BY <1>1, <1>2
<1>4. message'.kind = "jws" /\ message'.jws = new
  BY <1>3
<1>5. altered' \in Nat \ {0}
  BY <1>1 DEF JoseInv, ResultInv
<1>6. JwsInv'
  BY <1>1, <1>2, <1>3, <1>4, <1>5 DEF JwsInv
<1>7. JweInv'
  BY <1>4 DEF JweInv, IsJwe
<1>8. ResultInv'
  BY <1>1, <1>4, <1>5 DEF ResultInv
<1> QED
  BY <1>6, <1>7, <1>8 DEF JoseInv

\* And of an encrypted one.
LEMMA JweAltered ==
    ASSUME JoseInv, NEW new, AlterJwe(new), IsJweMessage(message.jwe) => IsJweMessage(new),
           IsJweHeader(message.jwe.header) => IsJweHeader(new.header),
           IsJweMessage(message.jwe) => /\ new.body.header = message.jwe.body.header
                                        /\ new.body.plaintext = message.jwe.body.plaintext
    PROVE  JoseInv'
<1>1. /\ stage = "sent" /\ stage' = "sent" /\ message.kind = "jwe" /\ altered' = altered + 1
      /\ offer' = offer /\ receiver' = receiver /\ message' = [message EXCEPT !.jwe = new]
  BY DEF AlterJwe, IsJwe
<1>2. /\ offer \in JweOffers /\ receiver \in JweReceivers
      /\ message = [kind |-> "jwe", jwe |-> message.jwe]
      /\ IsJweMessage(new) /\ IsJweHeader(new.header)
      /\ new.body.header = Header(offer) /\ new.body.plaintext = offer.plaintext
  BY <1>1 DEF JoseInv, JweInv, IsJwe
<1>3. message' = [kind |-> "jwe", jwe |-> new]
  BY <1>1, <1>2
<1>4. message'.kind = "jwe" /\ message'.jwe = new
  BY <1>3
<1>5. altered' \in Nat \ {0}
  BY <1>1 DEF JoseInv, ResultInv
<1>6. JweInv'
  BY <1>1, <1>2, <1>3, <1>4, <1>5 DEF JweInv
<1>7. JwsInv'
  BY <1>4 DEF JwsInv, IsJws
<1>8. ResultInv'
  BY <1>1, <1>4, <1>5 DEF ResultInv
<1> QED
  BY <1>6, <1>7, <1>8 DEF JoseInv

\* One entry replaced by another of the same signature.
LEMMA EntryChanged ==
    ASSUME NEW jws, NEW by, IsJwsMessage(jws, by), NEW i \in DOMAIN jws.signatures,
           NEW e, IsEntry(jws.signatures[i], by) => IsEntry(e, by),
           NEW new, new = [jws EXCEPT !.signatures = [jws.signatures EXCEPT ![i] = e]]
    PROVE  IsJwsMessage(new, by)
<1>1. new = [payload |-> jws.payload, signatures |-> [jws.signatures EXCEPT ![i] = e]]
  BY DEF IsJwsMessage
<1>2. jws.signatures[i] \in Elements(jws.signatures)
  BY DEF Elements
<1>3. IsEntry(e, by)
  BY <1>2 DEF IsJwsMessage
<1>4. /\ IsSeq([jws.signatures EXCEPT ![i] = e])
      /\ Elements([jws.signatures EXCEPT ![i] = e]) \subseteq Elements(jws.signatures) \cup {e}
  BY Replaced DEF IsJwsMessage
<1>5. \A x \in Elements([jws.signatures EXCEPT ![i] = e]) : IsEntry(x, by)
  BY <1>3, <1>4 DEF IsJwsMessage
<1>6. new.payload = jws.payload /\ new.signatures = [jws.signatures EXCEPT ![i] = e]
  BY <1>1
<1> QED
  BY <1>1, <1>4, <1>5, <1>6 DEF IsJwsMessage

\* The entries replaced, dropped or put in another order.
LEMMA EntriesChanged ==
    ASSUME NEW jws, NEW by, IsJwsMessage(jws, by), NEW s, IsSeq(s),
           \A e \in Elements(s) : e \in Elements(jws.signatures) \/ IsEntry(e, by),
           NEW new, new = [jws EXCEPT !.signatures = s]
    PROVE  IsJwsMessage(new, by)
<1>1. new = [payload |-> jws.payload, signatures |-> s]
  BY DEF IsJwsMessage
<1>2. new.payload = jws.payload /\ new.signatures = s
  BY <1>1
<1> QED
  BY <1>1, <1>2 DEF IsJwsMessage

LEMMA ReplacePayloadStep ==
    ASSUME JoseInv, ReplacePayload
    PROVE  JoseInv'
<1>1. PICK new : AlterJws(new) /\ new = [message.jws EXCEPT !.payload = OtherPayload]
  BY DEF ReplacePayload
<1>2. ASSUME IsJwsMessage(message.jws, offer) PROVE IsJwsMessage(new, offer)
  <2>1. new = [payload |-> OtherPayload, signatures |-> message.jws.signatures]
    BY <1>1, <1>2 DEF IsJwsMessage
  <2>2. new.payload = OtherPayload /\ new.signatures = message.jws.signatures
    BY <2>1
  <2> QED
    BY <1>2, <2>1, <2>2 DEF IsJwsMessage
<1> QED
  BY <1>1, <1>2, JwsAltered

LEMMA EditProtectedStep ==
    ASSUME JoseInv, NEW edit, EditProtected(edit)
    PROVE  JoseInv'
<1>1. PICK i \in DOMAIN Signatures :
         AlterJws(WithSignatures([Signatures EXCEPT ![i].protected = Over(edit, @)]))
  BY DEF EditProtected
<1>2. PICK new : /\ AlterJws(new)
                 /\ new = WithSignatures([Signatures EXCEPT ![i].protected = Over(edit, @)])
  BY <1>1
<1>3. ASSUME IsJwsMessage(message.jws, offer) PROVE IsJwsMessage(new, offer)
  <2> DEFINE old == message.jws.signatures[i]
  <2> DEFINE e == [old EXCEPT !.protected = Over(edit, @)]
  <2>1. new = [message.jws EXCEPT !.signatures = [message.jws.signatures EXCEPT ![i] = e]]
    BY <1>2 DEF WithSignatures, Signatures
  <2>2. ASSUME IsEntry(old, offer) PROVE IsEntry(e, offer)
    <3>1. e = [protected |-> Over(edit, old.protected), header |-> old.header,
               readable |-> old.readable, signature |-> old.signature]
      BY <2>2 DEF IsEntry
    <3>2. /\ e.protected = Over(edit, old.protected) /\ e.header = old.header
          /\ e.readable = old.readable /\ e.signature = old.signature
      BY <3>1
    <3>3. "alg" \in DOMAIN e.protected
      BY <2>2, <3>2 DEF IsEntry, Over
    <3>4. Genuine(e, offer) \/ Foreign(e)
      BY <2>2, <3>2 DEF IsEntry, Genuine, Foreign
    <3> QED
      BY <3>1, <3>2, <3>3, <3>4 DEF IsEntry
  <2>3. i \in DOMAIN message.jws.signatures
    BY DEF Signatures
  <2> HIDE DEF e, old
  <2> QED
    BY <1>3, <2>1, <2>2, <2>3, EntryChanged DEF old
<1> QED
  BY <1>2, <1>3, JwsAltered

LEMMA EditHeaderStep ==
    ASSUME JoseInv, NEW edit, EditHeader(edit)
    PROVE  JoseInv'
<1>1. PICK i \in DOMAIN Signatures :
         AlterJws(WithSignatures([Signatures EXCEPT ![i].header = Over(edit, @)]))
  BY DEF EditHeader
<1>2. PICK new : /\ AlterJws(new)
                 /\ new = WithSignatures([Signatures EXCEPT ![i].header = Over(edit, @)])
  BY <1>1
<1>3. ASSUME IsJwsMessage(message.jws, offer) PROVE IsJwsMessage(new, offer)
  <2> DEFINE old == message.jws.signatures[i]
  <2> DEFINE e == [old EXCEPT !.header = Over(edit, @)]
  <2>1. new = [message.jws EXCEPT !.signatures = [message.jws.signatures EXCEPT ![i] = e]]
    BY <1>2 DEF WithSignatures, Signatures
  <2>2. ASSUME IsEntry(old, offer) PROVE IsEntry(e, offer)
    <3>1. e = [protected |-> old.protected, header |-> Over(edit, old.header),
               readable |-> old.readable, signature |-> old.signature]
      BY <2>2 DEF IsEntry
    <3>2. /\ e.protected = old.protected /\ e.header = Over(edit, old.header)
          /\ e.readable = old.readable /\ e.signature = old.signature
      BY <3>1
    <3>3. Genuine(e, offer) \/ Foreign(e)
      BY <2>2, <3>2 DEF IsEntry, Genuine, Foreign
    <3> QED
      BY <2>2, <3>1, <3>2, <3>3 DEF IsEntry
  <2>3. i \in DOMAIN message.jws.signatures
    BY DEF Signatures
  <2> HIDE DEF e, old
  <2> QED
    BY <1>3, <2>1, <2>2, <2>3, EntryChanged DEF old
<1> QED
  BY <1>2, <1>3, JwsAltered

LEMMA GarbleSignatureStep ==
    ASSUME JoseInv, GarbleSignature
    PROVE  JoseInv'
<1>1. PICK i \in DOMAIN Signatures :
         AlterJws(WithSignatures([Signatures EXCEPT ![i].readable = FALSE]))
  BY DEF GarbleSignature
<1>2. PICK new : /\ AlterJws(new)
                 /\ new = WithSignatures([Signatures EXCEPT ![i].readable = FALSE])
  BY <1>1
<1>3. ASSUME IsJwsMessage(message.jws, offer) PROVE IsJwsMessage(new, offer)
  <2>0. PICK no : no = FALSE
    OBVIOUS
  <2> DEFINE old == message.jws.signatures[i]
  <2> DEFINE e == [old EXCEPT !.readable = no]
  <2>1. new = [message.jws EXCEPT !.signatures = [message.jws.signatures EXCEPT ![i] = e]]
    BY <1>2, <2>0 DEF WithSignatures, Signatures
  <2>2. ASSUME IsEntry(old, offer) PROVE IsEntry(e, offer)
    <3>1. e = [protected |-> old.protected, header |-> old.header,
               readable |-> no, signature |-> old.signature]
      BY <2>2 DEF IsEntry
    <3>2. /\ e.protected = old.protected /\ e.header = old.header
          /\ e.readable = no /\ e.signature = old.signature
      BY <3>1
    <3>3. Genuine(e, offer) \/ Foreign(e)
      BY <2>2, <3>2 DEF IsEntry, Genuine, Foreign
    <3> QED
      BY <2>2, <3>1, <3>2, <3>3 DEF IsEntry
  <2>3. i \in DOMAIN message.jws.signatures
    BY DEF Signatures
  <2> HIDE DEF e, old
  <2> QED
    BY <1>3, <2>1, <2>2, <2>3, EntryChanged DEF old
<1> QED
  BY <1>2, <1>3, JwsAltered

LEMMA AddSignatureStep ==
    ASSUME JoseInv, NEW signer \in Others, AddSignature(signer)
    PROVE  JoseInv'
<1> DEFINE by == ProtectedHeader(signer, <<>>)
<1>1. PICK e : e = [protected |-> by, header |-> <<>>, readable |-> TRUE,
                    signature |-> SignatureBy(signer.key, signer.algorithm, by,
                                              message.jws.payload)]
  OBVIOUS
<1>2. Sign(message.jws.payload, <<signer>>, <<>>).signatures = <<e>>
  <2>1. DOMAIN <<signer>> = 1..1 /\ <<signer>>[1] = signer
    OBVIOUS
  <2>2. \A i \in 1..1 : <<signer>>[i] = signer
    BY <2>1
  <2>3. Sign(message.jws.payload, <<signer>>, <<>>).signatures = [i \in 1..1 |-> e]
    BY <1>1, <2>1, <2>2 DEF Sign, General
  <2>4. [i \in 1..1 |-> e] = <<e>>
    OBVIOUS
  <2> QED
    BY <2>3, <2>4
<1>3. PICK new : /\ AlterJws(new)
                 /\ \/ new = WithSignatures(<<e>> \o Signatures)
                    \/ new = WithSignatures(Signatures \o <<e>>)
  BY <1>2 DEF AddSignature
<1>4. IsEntry(e, offer)
  <2>1. "alg" \in DOMAIN by
    BY DEF ProtectedHeader, Over
  <2> HIDE DEF by
  <2>2. e.signature.by = signer.key.id
    BY <1>1 DEF SignatureBy
  <2>3. Foreign(e)
    BY <2>2 DEF Foreign
  <2> QED
    BY <1>1, <2>1, <2>3 DEF IsEntry
<1>5. ASSUME IsJwsMessage(message.jws, offer) PROVE IsJwsMessage(new, offer)
  <2>1. IsSeq(<<e>>) /\ Elements(<<e>>) \subseteq {e}
    BY <<e>> \in Seq({e}), SeqIsSeq
  <2>2. IsSeq(message.jws.signatures)
    BY <1>5 DEF IsJwsMessage
  <2>3. PICK s : /\ s = <<e>> \o message.jws.signatures \/ s = message.jws.signatures \o <<e>>
                 /\ new = [message.jws EXCEPT !.signatures = s]
    BY <1>3 DEF WithSignatures, Signatures
  <2>4. IsSeq(s) /\ Elements(s) \subseteq Elements(message.jws.signatures) \cup {e}
    BY <2>1, <2>2, <2>3, Joined
  <2> QED
    BY <1>4, <1>5, <2>3, <2>4, EntriesChanged
<1> QED
  BY <1>3, <1>5, JwsAltered

LEMMA DropSignatureStep ==
    ASSUME JoseInv, DropSignature
    PROVE  JoseInv'
<1>1. PICK i \in DOMAIN Signatures : AlterJws(WithSignatures(RemoveAt(Signatures, i)))
  BY DEF DropSignature
<1>2. PICK new : AlterJws(new) /\ new = WithSignatures(RemoveAt(Signatures, i))
  BY <1>1
<1>3. ASSUME IsJwsMessage(message.jws, offer) PROVE IsJwsMessage(new, offer)
  <2>1. PICK s : s = RemoveAt(message.jws.signatures, i)
    OBVIOUS
  <2>2. IsSeq(s) /\ Elements(s) \subseteq Elements(message.jws.signatures)
    BY <1>3, <2>1, Removed DEF IsJwsMessage, Signatures
  <2>3. new = [message.jws EXCEPT !.signatures = s]
    BY <1>2, <2>1 DEF WithSignatures, Signatures
  <2> QED
    BY <1>3, <2>2, <2>3, EntriesChanged
<1> QED
  BY <1>2, <1>3, JwsAltered

LEMMA ReorderSignaturesStep ==
    ASSUME JoseInv, ReorderSignatures
    PROVE  JoseInv'
<1>1. PICK new : AlterJws(new) /\ new = WithSignatures(Reverse(Signatures))
  BY DEF ReorderSignatures
<1>2. ASSUME IsJwsMessage(message.jws, offer) PROVE IsJwsMessage(new, offer)
  <2>1. PICK s : s = Reverse(message.jws.signatures)
    OBVIOUS
  <2>2. IsSeq(s) /\ Elements(s) \subseteq Elements(message.jws.signatures)
    BY <1>2, <2>1, Reversed DEF IsJwsMessage
  <2>3. new = [message.jws EXCEPT !.signatures = s]
    BY <1>1, <2>1 DEF WithSignatures, Signatures
  <2> QED
    BY <1>2, <2>2, <2>3, EntriesChanged
<1> QED
  BY <1>1, <1>2, JwsAltered

------------------------------------------------------------------------------
\* Transit leaves what is in the body of a JWE alone.
JweKept(jwe, new) ==
    IsJweMessage(jwe) /\ IsJweHeader(jwe.header) =>
        /\ IsJweMessage(new) /\ IsJweHeader(new.header)
        /\ new.body.header = jwe.body.header
        /\ new.body.plaintext = jwe.body.plaintext

LEMMA HeaderChanged ==
    ASSUME NEW jwe, NEW header, IsJweHeader(jwe.header) => IsJweHeader(header),
           NEW new, new = [jwe EXCEPT !.header = header]
    PROVE  JweKept(jwe, new)
<1> SUFFICES ASSUME IsJweMessage(jwe), IsJweHeader(jwe.header)
             PROVE  IsJweMessage(new) /\ new.header = header /\ new.body = jwe.body
  BY DEF JweKept
<1>1. new = [readable |-> jwe.readable, header |-> header,
             keyReadable |-> jwe.keyReadable, encryptedKey |-> jwe.encryptedKey,
             bodyReadable |-> jwe.bodyReadable, body |-> jwe.body]
  BY DEF IsJweMessage
<1> QED
  BY <1>1 DEF IsJweMessage

LEMMA KeyChanged ==
    ASSUME NEW jwe, NEW key, NEW new, new = [jwe EXCEPT !.encryptedKey = key]
    PROVE  JweKept(jwe, new)
<1> SUFFICES ASSUME IsJweMessage(jwe)
             PROVE  IsJweMessage(new) /\ new.header = jwe.header /\ new.body = jwe.body
  BY DEF JweKept
<1>1. new = [readable |-> jwe.readable, header |-> jwe.header,
             keyReadable |-> jwe.keyReadable, encryptedKey |-> key,
             bodyReadable |-> jwe.bodyReadable, body |-> jwe.body]
  BY DEF IsJweMessage
<1> QED
  BY <1>1 DEF IsJweMessage

LEMMA BodyCorrupted ==
    ASSUME NEW jwe, NEW no, NEW new, new = [jwe EXCEPT !.body.intact = no]
    PROVE  JweKept(jwe, new)
<1> SUFFICES ASSUME IsJweMessage(jwe)
             PROVE  /\ IsJweMessage(new) /\ new.header = jwe.header
                    /\ new.body.header = jwe.body.header
                    /\ new.body.plaintext = jwe.body.plaintext
  BY DEF JweKept
<1> DEFINE body == [jwe.body EXCEPT !.intact = no]
<1>1. body = [cek |-> jwe.body.cek, header |-> jwe.body.header, intact |-> no,
              plaintext |-> jwe.body.plaintext]
  BY DEF IsJweMessage
<1>2. /\ body.cek = jwe.body.cek /\ body.header = jwe.body.header /\ body.intact = no
      /\ body.plaintext = jwe.body.plaintext
  BY <1>1
<1>3. new = [readable |-> jwe.readable, header |-> jwe.header,
             keyReadable |-> jwe.keyReadable, encryptedKey |-> jwe.encryptedKey,
             bodyReadable |-> jwe.bodyReadable, body |-> body]
  BY DEF IsJweMessage
<1> HIDE DEF body
<1>4. new.body = body
  BY <1>3
<1> QED
  BY <1>1, <1>2, <1>3, <1>4 DEF IsJweMessage

LEMMA PartGarbled ==
    ASSUME NEW jwe, NEW no \in BOOLEAN, NEW new,
           \/ new = [jwe EXCEPT !.readable = no]
           \/ new = [jwe EXCEPT !.keyReadable = no]
           \/ new = [jwe EXCEPT !.bodyReadable = no]
    PROVE  JweKept(jwe, new)
<1> SUFFICES ASSUME IsJweMessage(jwe)
             PROVE  IsJweMessage(new) /\ new.header = jwe.header /\ new.body = jwe.body
  BY DEF JweKept
<1>1. PICK a \in BOOLEAN, b \in BOOLEAN, c \in BOOLEAN :
        new = [readable |-> a, header |-> jwe.header,
               keyReadable |-> b, encryptedKey |-> jwe.encryptedKey,
               bodyReadable |-> c, body |-> jwe.body]
  BY DEF IsJweMessage
<1> QED
  BY <1>1 DEF IsJweMessage

LEMMA JweStep ==
    ASSUME JoseInv,
           \/ \E edit \in ParameterEdits : EditParameter(edit)
           \/ DropParameter \/ ReplaceKey \/ CorruptBody \/ GarblePart
    PROVE  JoseInv'
<1>1. \E new : AlterJwe(new) /\ JweKept(message.jwe, new)
  <2>1. CASE \E edit \in ParameterEdits : EditParameter(edit)
    <3>1. PICK edit \in ParameterEdits : EditParameter(edit)
      BY <2>1
    <3>2. PICK new : AlterJwe(new) /\ new = [message.jwe EXCEPT !.header = Over(edit, @)]
      BY <3>1 DEF EditParameter
    <3>3. PICK header : header = Over(edit, message.jwe.header)
      OBVIOUS
    <3>4. IsJweHeader(message.jwe.header) => IsJweHeader(header)
      BY <3>3, EditsAssumption DEF IsJweHeader, Over
    <3> QED
      BY <3>2, <3>3, <3>4, HeaderChanged
  <2>2. CASE DropParameter
    <3>1. PICK x, header, new :
             /\ x \in DOMAIN message.jwe.header \ {"alg", "enc"}
             /\ AlterJwe(new) /\ new = [message.jwe EXCEPT !.header = header]
             /\ header = Part(message.jwe.header, DOMAIN message.jwe.header \ {x})
      BY <2>2 DEF DropParameter
    <3>2. IsJweHeader(message.jwe.header) => IsJweHeader(header)
      BY <3>1 DEF IsJweHeader, Part
    <3> QED
      BY <3>1, <3>2, HeaderChanged
  <2>3. CASE ReplaceKey
    <3>1. PICK key, new : AlterJwe(new) /\ new = [message.jwe EXCEPT !.encryptedKey = key]
      BY <2>3 DEF ReplaceKey
    <3> QED
      BY <3>1, KeyChanged
  <2>4. CASE CorruptBody
    <3>1. PICK new : AlterJwe(new) /\ new = [message.jwe EXCEPT !.body.intact = FALSE]
      BY <2>4 DEF CorruptBody
    <3> QED
      BY <3>1, BodyCorrupted
  <2>5. CASE GarblePart
    <3>1. PICK new : /\ AlterJwe(new)
                     /\ \/ new = [message.jwe EXCEPT !.readable = FALSE]
                        \/ new = [message.jwe EXCEPT !.keyReadable = FALSE]
                        \/ new = [message.jwe EXCEPT !.bodyReadable = FALSE]
      BY <2>5 DEF GarblePart
    <3>2. JweKept(message.jwe, new)
      BY <3>1, PartGarbled
    <3> QED
      BY <3>1, <3>2
  <2> QED
    BY <2>1, <2>2, <2>3, <2>4, <2>5
<1>2. PICK new : AlterJwe(new) /\ JweKept(message.jwe, new)
  BY <1>1
<1> QED
  <2>1. IsJweMessage(message.jwe) /\ IsJweHeader(message.jwe.header)
    BY <1>2 DEF AlterJwe, JoseInv, JweInv
  <2> QED
    BY <1>2, <2>1, JweAltered DEF JweKept

LEMMA OpenStep ==
    ASSUME JoseInv, Open
    PROVE  JoseInv'
<1>1. /\ stage = "sent" /\ stage' = "opened" /\ result' = Opened(message, receiver)
      /\ offer' = offer /\ message' = message /\ receiver' = receiver /\ altered' = altered
  BY DEF Open
<1> QED
  BY <1>1 DEF JoseInv, JwsInv, JweInv, ResultInv, IsJws, IsJwe

\* The messages keep their invariant.
THEOREM JoseKept == Spec => []JoseInv
<1>1. ASSUME JoseInv, [Next]_vars PROVE JoseInv'
  <2>1. ASSUME NEW o \in JwsOffers, NEW r \in JwsReceivers, MakeJws(o, r) PROVE JoseInv'
    BY <1>1, <2>1, MakeJwsStep
  <2>2. ASSUME NEW o \in JweOffers, NEW r \in JweReceivers, MakeJwe(o, r) PROVE JoseInv'
    BY <1>1, <2>2, MakeJweStep
  <2>3. CASE ReplacePayload
    BY <1>1, <2>3, ReplacePayloadStep
  <2>4. CASE GarbleSignature
    BY <1>1, <2>4, GarbleSignatureStep
  <2>5. CASE DropSignature
    BY <1>1, <2>5, DropSignatureStep
  <2>6. CASE ReorderSignatures
    BY <1>1, <2>6, ReorderSignaturesStep
  <2>7. ASSUME NEW edit \in ProtectedEdits, EditProtected(edit) PROVE JoseInv'
    BY <1>1, <2>7, EditProtectedStep
  <2>8. ASSUME NEW edit \in HeaderEdits, EditHeader(edit) PROVE JoseInv'
    BY <1>1, <2>8, EditHeaderStep
  <2>9. ASSUME NEW signer \in Others, AddSignature(signer) PROVE JoseInv'
    BY <1>1, <2>9, AddSignatureStep
  <2>10. CASE \/ \E edit \in ParameterEdits : EditParameter(edit)
              \/ DropParameter \/ ReplaceKey \/ CorruptBody \/ GarblePart
    BY <1>1, <2>10, JweStep
  <2>11. CASE Open
    BY <1>1, <2>11, OpenStep
  <2>12. CASE UNCHANGED vars
    BY <1>1, <2>12
       DEF vars, JoseInv, JwsInv, JweInv, ResultInv, IsJws, IsJwe
  <2> QED
    BY <1>1, <2>1, <2>2, <2>3, <2>4, <2>5, <2>6, <2>7, <2>8, <2>9, <2>10, <2>11, <2>12 DEF Next
<1> QED
  BY <1>1, InitEstablishes, PTL DEF Spec

\* What is wrong with the encrypted key of an RSA message cannot be told from
\* the recipient's answer (keyManagementDecrypt and decrypt in Jwe.ts).
THEOREM RsaAnswersAlike == Spec => []RsaFailuresAlike
<1>1. JoseInv => RsaFailuresAlike
  <2> SUFFICES ASSUME JoseInv, IsJwe, message.jwe.header.alg = "RSA-OAEP", NEW k, NEW l
               PROVE  LET verdict(x) == Decrypt([message.jwe EXCEPT !.encryptedKey = x], receiver)
                      IN verdict(k) # "Ok" /\ verdict(l) # "Ok" => verdict(k) = verdict(l)
    BY DEF RsaFailuresAlike
  <2>1. PICK jwe, r : jwe = message.jwe /\ r = receiver
    OBVIOUS
  <2>2. IsJweMessage(jwe) /\ jwe.header.alg = "RSA-OAEP"
    BY <2>1 DEF JoseInv, JweInv
  <2>3. ASSUME NEW x
        PROVE  Decrypt([jwe EXCEPT !.encryptedKey = x], r) \in {"Ok", RsaFailure(jwe, r)}
    <3>1. PICK other : other = [jwe EXCEPT !.encryptedKey = x]
      OBVIOUS
    <3>2. /\ IsJweMessage(other) /\ other.header.alg = "RSA-OAEP"
          /\ RsaFailure(other, r) = RsaFailure(jwe, r)
      BY <2>2, <3>1, RsaKeyDoesNotMatter
    <3> QED
      BY <3>1, <3>2, RsaVerdict
  <2> QED
    BY <2>1, <2>3
<1> QED
  BY <1>1, JoseKept, PTL

\* A verifier's key that does not fit is passed over (verify in Jws.ts).
THEOREM SpareKeysArePassedOver == Spec => []SpareKeysDoNoHarm
<1>1. JoseInv => SpareKeysDoNoHarm
  BY SpareKeyHarmsNot DEF JoseInv, JwsInv, IsJwsMessage, SpareKeysDoNoHarm
<1> QED
  BY <1>1, JoseKept, PTL

------------------------------------------------------------------------------
(* Opening.                                                                 *)

\* A signature that verifies was made by one of the verifier's keys or by a
\* key of a key pair that the token brought and the caller trusts.
LEMMA SignedByWhom ==
    ASSUME NEW jws, NEW entry, NEW r, EntryVerdict(jws, entry, r) = "Ok",
           "alg" \in DOMAIN entry.protected
    PROVE  /\ entry.signature.over = <<entry.protected, jws.payload>>
           /\ \/ \E key \in r.publicKeys : entry.signature.by = key.id
              \/ /\ r.trustEmbeddedJwk \/ r.resolveJku # <<>>
                 /\ Family[entry.protected.alg] # "HMAC"
<1> DEFINE header == Over(entry.protected, entry.header)
<1>1. Signed(jws, entry, KeysFor(header, r))
  BY DEF EntryVerdict
<1>2. header.alg = entry.protected.alg
  BY DEF Over
<1> HIDE DEF header
<1>3. PICK key \in KeysFor(header, r) :
        Verifies(key, entry.protected.alg, entry.signature, entry.protected, jws.payload)
  BY <1>1 DEF Signed
<1>4. /\ entry.signature.by = key.id
      /\ entry.signature.over = <<entry.protected, jws.payload>>
  BY <1>3 DEF Verifies, SignatureBy
<1>5. CASE key \in r.publicKeys
  BY <1>4, <1>5
<1>6. CASE key \notin r.publicKeys
  <2>1. PICK own \in ResolvedKeys(header, r).keys \cup EmbeddedKeys(header, r) :
          Trustable(header.alg, own)
    BY <1>3, <1>6 DEF KeysFor
  <2>2. r.trustEmbeddedJwk \/ r.resolveJku # <<>>
    BY <2>1 DEF ResolvedKeys, EmbeddedKeys
  <2>3. KeyType(header.alg) # "oct"
    BY <2>1 DEF Trustable, IsSymmetric, IsCompatibleWith
  <2>4. Family[header.alg] # "HMAC"
    BY <2>3 DEF KeyType, Family
  <2> QED
    BY <1>2, <1>4, <2>2, <2>4
<1> QED
  BY <1>5, <1>6

LEMMA JwsIsAuthentic ==
    ASSUME NEW o \in JwsOffers, NEW r \in JwsReceivers, NEW jws, IsJwsMessage(jws, o),
           NEW got, got = Verify(jws, r), got.verdict = "Ok"
    PROVE  LET entry == jws.signatures[got.entry]
               own == {k.id : k \in r.publicKeys}
           IN IF entry.signature.by \in own
              THEN /\ jws.payload = o.payload
                   /\ \E i \in DOMAIN o.signers :
                         /\ o.signers[i].key.id = entry.signature.by
                         /\ entry.protected = ProtectedHeader(o.signers[i], o.criticals)
              ELSE /\ r.trustEmbeddedJwk \/ r.resolveJku # <<>>
                   /\ Family[entry.protected.alg] # "HMAC"
<1>1. IsSeq(jws.signatures)
  BY DEF IsJwsMessage
<1>2. PICK k \in DOMAIN jws.signatures : got = [verdict |-> At(jws, k, r), entry |-> k]
  BY <1>1, FirstDecides
<1>3. got.entry = k /\ At(jws, k, r) = "Ok"
  BY <1>2
<1>4. PICK entry : entry = jws.signatures[k]
  OBVIOUS
<1>5. IsEntry(entry, o) /\ EntryVerdict(jws, entry, r) = "Ok"
  BY <1>3, <1>4 DEF IsJwsMessage, Elements, At
<1>6. /\ entry.signature.over = <<entry.protected, jws.payload>>
      /\ \/ \E key \in r.publicKeys : entry.signature.by = key.id
         \/ /\ r.trustEmbeddedJwk \/ r.resolveJku # <<>>
            /\ Family[entry.protected.alg] # "HMAC"
  BY <1>5, SignedByWhom DEF IsEntry
<1>7. CASE \E key \in r.publicKeys : entry.signature.by = key.id
  <2>1. Genuine(entry, o)
    BY <1>5, <1>7, OthersAssumption DEF IsEntry, Foreign
  <2>2. PICK i \in DOMAIN o.signers :
          entry.signature = SignatureBy(o.signers[i].key, o.signers[i].algorithm,
                                        ProtectedHeader(o.signers[i], o.criticals), o.payload)
    BY <2>1 DEF Genuine
  <2>3. /\ entry.signature.by = o.signers[i].key.id
        /\ entry.signature.over = <<ProtectedHeader(o.signers[i], o.criticals), o.payload>>
    BY <2>2 DEF SignatureBy
  <2>4. entry.protected = ProtectedHeader(o.signers[i], o.criticals) /\ jws.payload = o.payload
    BY <1>6, <2>3
  <2> QED
    BY <1>3, <1>4, <1>7, <2>3, <2>4
<1>8. CASE ~ \E key \in r.publicKeys : entry.signature.by = key.id
  BY <1>3, <1>4, <1>6, <1>8
<1> QED
  BY <1>7, <1>8

LEMMA OkContent ==
    ASSUME NEW jwe, IsJweHeader(jwe.header), NEW r, Decrypt(jwe, r) = "Ok"
    PROVE  jwe.body.header = jwe.header
<1>1. PICK got : got = KeyManagementDecrypt(jwe, r.key, r.maxPBES2Count)
  OBVIOUS
<1>2. ASSUME NEW kek, NEW reason \in {"KeyManagementFailed", "DecryptionFailed"}
      PROVE  Unwrapped(jwe, kek, reason).reason # "Ok"
  BY DEF Unwrapped, Yields, Fail
<1>3. got.reason # "Ok"
  BY <1>1, <1>2 DEF KeyManagementDecrypt, Yields, Fail, Agreed, IsJweHeader, JweAlgorithms
<1>4. Recovered(jwe, got).reason # "Ok"
  BY <1>3 DEF Recovered, Yields, Fail
<1>5. ContentDecrypts(jwe, Recovered(jwe, got).cek)
  BY <1>1, <1>4 DEF Decrypt
<1> QED
  BY <1>5 DEF ContentDecrypts

\* What opens is what was made (verify in Jws.ts, decrypt in Jwe.ts).
THEOREM OpenedWasMade == Spec => []OpenedIsAuthentic
<1>1. JoseInv => OpenedIsAuthentic
  <2> SUFFICES ASSUME JoseInv, stage = "opened", result.verdict = "Ok"
               PROVE  OpenedIsAuthentic
    BY DEF OpenedIsAuthentic
  <2>1. result = Opened(message, receiver) /\ message.kind \in {"jws", "jwe"}
    BY DEF JoseInv, ResultInv
  <2>2. CASE message.kind = "jws"
    <3>1. /\ IsJws /\ offer \in JwsOffers /\ receiver \in JwsReceivers
          /\ IsJwsMessage(message.jws, offer)
      BY <2>2 DEF JoseInv, JwsInv, IsJws
    <3>2. result = Verify(message.jws, receiver)
      BY <2>1, <2>2 DEF Opened
    <3> QED
      BY <3>1, <3>2, JwsIsAuthentic DEF OpenedIsAuthentic, Signatures
  <2>3. CASE message.kind = "jwe"
    <3>1. /\ ~IsJws /\ IsJweHeader(message.jwe.header)
          /\ message.jwe.body.header = Header(offer)
          /\ message.jwe.body.plaintext = offer.plaintext
      BY <2>3 DEF JoseInv, JweInv, IsJws, IsJwe
    <3>2. Decrypt(message.jwe, receiver) = "Ok"
      BY <2>1, <2>3 DEF Opened
    <3>3. message.jwe.body.header = message.jwe.header
      BY <3>1, <3>2, OkContent
    <3> QED
      BY <3>1, <3>3 DEF OpenedIsAuthentic
  <2> QED
    BY <2>1, <2>2, <2>3
<1> QED
  BY <1>1, JoseKept, PTL

------------------------------------------------------------------------------
(* What was made opens.                                                     *)

\* The protected header says what the signer is, and of its jku what the
\* signer's own header says.
LEMMA ProtectedHeaderSays ==
    ASSUME NEW o \in JwsOffers, NEW i \in DOMAIN o.signers, NEW r,
           NEW h, h = ProtectedHeader(o.signers[i], o.criticals),
           NEW all, all = Over(h, <<>>)
    PROVE  /\ all.alg = o.signers[i].algorithm /\ h.alg = o.signers[i].algorithm
           /\ HeaderDecodes(h, DOMAIN o.criticals)
           /\ ResolvedKeys(all, r) = ResolvedKeys(o.signers[i].header, r)
<1> DEFINE s == o.signers[i]
<1> DEFINE crit == IF DOMAIN o.criticals = {} THEN <<>> ELSE [crit |-> DOMAIN o.criticals]
<1>1. /\ DOMAIN o.criticals \cap (Registered \cup {"crit"}) = {}
      /\ DOMAIN s.header \cap {"alg", "crit"} = {}
      /\ HeaderDecodes(s.header, {})
      /\ s.algorithm # IllTyped
  BY SignersAssumption, IllTypedAssumption DEF Range
<1>2. DOMAIN crit = IF DOMAIN o.criticals = {} THEN {} ELSE {"crit"}
  OBVIOUS
<1>3. DOMAIN o.criticals # {} => crit["crit"] = DOMAIN o.criticals
  OBVIOUS
<1>4. h = Over(crit, Over(o.criticals, Over(s.header, [alg |-> s.algorithm])))
  BY DEF ProtectedHeader
<1> HIDE DEF crit
<1>5. DOMAIN h = DOMAIN crit \cup DOMAIN o.criticals \cup DOMAIN s.header \cup {"alg"}
  BY <1>4 DEF Over
<1>6. h["alg"] = s.algorithm
  BY <1>1, <1>2, <1>4 DEF Over, Registered
<1>7. "jku" \in DOMAIN s.header => h["jku"] = s.header["jku"]
  BY <1>1, <1>2, <1>4 DEF Over, Registered
<1>8. DOMAIN o.criticals # {} => h["crit"] = DOMAIN o.criticals
  BY <1>2, <1>3, <1>4 DEF Over
<1>9. DOMAIN all = DOMAIN h /\ \A x \in DOMAIN h : all[x] = h[x]
  BY DEF Over
<1>10. HeaderDecodes(h, DOMAIN o.criticals)
  <2>1. ASSUME NEW x \in DOMAIN h \cap Registered
        PROVE  h[x] # IllTyped /\ (x = "jwk" => h[x].decodes)
    <3>1. x \notin DOMAIN crit \cup DOMAIN o.criticals
      BY <1>1, <1>2 DEF Registered
    <3>2. CASE x = "alg"
      BY <1>1, <1>6, <3>2
    <3>3. CASE x # "alg"
      <4>1. x \in DOMAIN s.header /\ h[x] = s.header[x]
        BY <1>4, <1>5, <3>1, <3>3 DEF Over
      <4> QED
        BY <1>1, <3>3, <4>1 DEF HeaderDecodes, WellTyped
    <3> QED
      BY <3>2, <3>3
  <2>2. WellTyped(h, Registered)
    BY <2>1 DEF WellTyped
  <2>3. "jwk" \in DOMAIN h => h.jwk.decodes
    BY <2>1 DEF Registered
  <2> QED
    BY <1>1, <1>2, <1>5, <1>8, <2>2, <2>3 DEF HeaderDecodes
<1>11. ResolvedKeys(all, r) = ResolvedKeys(s.header, r)
  BY <1>1, <1>2, <1>5, <1>7, <1>9 DEF ResolvedKeys, Registered
<1>12. all.alg = s.algorithm
  BY <1>5, <1>6, <1>9
<1> QED
  BY <1>6, <1>10, <1>11, <1>12

LEMMA MadeJwsOpens ==
    ASSUME NEW o \in JwsOffers, NEW r \in JwsReceivers,
           Len(o.signers) <= r.maxSignatures,
           DOMAIN o.criticals = r.criticals,
           r.algorithms = <<>>
              \/ \A i \in DOMAIN o.signers : o.signers[i].algorithm \in r.algorithms[1],
           \E i \in DOMAIN o.signers : o.signers[i].key \in r.publicKeys,
           \A i \in DOMAIN o.signers : ~ResolvedKeys(o.signers[i].header, r).fails
    PROVE  Verify(SignedBy(o), r).verdict = "Ok"
<1> DEFINE jws == SignedBy(o)
<1> DEFINE headerOf(i) == ProtectedHeader(o.signers[i], o.criticals)
<1> DEFINE entryOf(i) ==
      [protected |-> headerOf(i), header |-> <<>>, readable |-> TRUE,
       signature |-> SignatureBy(o.signers[i].key, o.signers[i].algorithm, headerOf(i), o.payload)]
<1>1. jws.payload = o.payload /\ jws.signatures = [i \in DOMAIN o.signers |-> entryOf(i)]
  BY DEF SignedBy, Sign, General
<1>2. IsSeq(jws.signatures)
  BY SignMakes DEF IsJwsMessage
<1>3. o.signers \in Seq(Range(o.signers))
  BY SignersAssumption
<1>4. DOMAIN jws.signatures = DOMAIN o.signers /\ Len(jws.signatures) = Len(o.signers)
  <2>1. DOMAIN jws.signatures = 1..Len(jws.signatures) /\ Len(jws.signatures) \in Nat
    BY <1>2, SeqOfElements DEF IsSeq
  <2>2. DOMAIN o.signers = 1..Len(o.signers) /\ Len(o.signers) \in Nat
    BY <1>3
  <2>3. DOMAIN jws.signatures = DOMAIN o.signers
    BY <1>1
  <2> HIDE DEF jws
  <2> QED
    BY <2>1, <2>2, <2>3
<1>5. ASSUME NEW i \in DOMAIN o.signers
      PROVE  /\ At(jws, i, r) \in {"Ok", "Next"}
             /\ o.signers[i].key \in r.publicKeys => At(jws, i, r) = "Ok"
  <2>1. PICK h : h = headerOf(i)
    OBVIOUS
  <2>2. PICK e : e = entryOf(i)
    OBVIOUS
  <2>3. PICK all : all = Over(h, <<>>)
    OBVIOUS
  <2>4. /\ e.protected = h /\ e.header = <<>>
        /\ e.signature = SignatureBy(o.signers[i].key, o.signers[i].algorithm, h, o.payload)
    BY <2>1, <2>2
  <2>5. e.readable
    BY <2>2
  <2>6. jws.signatures[i] = e
    BY <1>1, <2>2
  <2>7. /\ all.alg = o.signers[i].algorithm /\ h.alg = o.signers[i].algorithm
        /\ HeaderDecodes(h, r.criticals) /\ ~ResolvedKeys(all, r).fails
    <3>1. h = ProtectedHeader(o.signers[i], o.criticals)
      BY <2>1
    <3>2. /\ all.alg = o.signers[i].algorithm /\ h.alg = o.signers[i].algorithm
          /\ HeaderDecodes(h, DOMAIN o.criticals)
          /\ ResolvedKeys(all, r) = ResolvedKeys(o.signers[i].header, r)
      <4>1. all.alg = o.signers[i].algorithm
        BY <2>3, <3>1, ProtectedHeaderSays
      <4>2. h.alg = o.signers[i].algorithm
        BY <2>3, <3>1, ProtectedHeaderSays
      <4>3. HeaderDecodes(h, DOMAIN o.criticals)
        BY <2>3, <3>1, ProtectedHeaderSays
      <4>4. ResolvedKeys(all, r) = ResolvedKeys(o.signers[i].header, r)
        BY <2>3, <3>1, ProtectedHeaderSays
      <4> QED
        BY <4>1, <4>2, <4>3, <4>4
    <3> HIDE DEF jws
    <3> QED
      BY <3>2
  <2>8. Family[o.signers[i].key.alg] = Family[o.signers[i].algorithm]
    BY SignersAssumption DEF Range
  <2> HIDE DEF jws, headerOf, entryOf
  <2>9. o.signers[i].key \in r.publicKeys => Signed(jws, e, KeysFor(all, r))
    BY <1>1, <2>4, <2>7, <2>8 DEF Signed, KeysFor, Verifies
  <2>10. DOMAIN e.protected \cap DOMAIN e.header = {}
    BY <2>4
  <2>11. ~(r.algorithms # <<>> /\ all.alg \notin r.algorithms[1])
    BY <2>7
  <2>12. EntryVerdict(jws, e, r) = IF Signed(jws, e, KeysFor(all, r)) THEN "Ok" ELSE "Next"
    BY <2>3, <2>4, <2>5, <2>7, <2>10, <2>11 DEF EntryVerdict
  <2> QED
    BY <2>6, <2>9, <2>12 DEF At
<1>6. PICK k \in DOMAIN o.signers : o.signers[k].key \in r.publicKeys
  OBVIOUS
<1>7. Len(o.signers) \in Nat /\ r.maxSignatures \in Nat
  BY <1>3, ReceiverAssumption
<1>8. At(jws, k, r) = "Ok"
  BY <1>5, <1>6
<1> HIDE DEF jws
<1>9. ~(Len(jws.signatures) > r.maxSignatures)
  BY <1>4, <1>7
<1>10. PICK i \in DOMAIN jws.signatures :
         /\ At(jws, i, r) # "Next"
         /\ Verify(jws, r) = [verdict |-> At(jws, i, r), entry |-> i]
  BY <1>2, <1>4, <1>8, <1>9, FirstDecides
<1>11. At(jws, i, r) = "Ok"
  BY <1>4, <1>5, <1>10
<1> QED
  BY <1>10, <1>11 DEF jws

------------------------------------------------------------------------------
\* Two headers that agree on some names.
LEMMA SamePart ==
    ASSUME NEW g, NEW h, NEW names,
           DOMAIN g \cap names = DOMAIN h \cap names,
           \A x \in DOMAIN g \cap names : g[x] = h[x]
    PROVE  Part(g, names) = Part(h, names)
  BY DEF Part

\* The header of a message: what encrypt writes, and the caller's own.
LEMMA HeaderSays ==
    ASSUME NEW o \in JweOffers, NEW h, h = Header(o),
           NEW extras, extras = Extras(o), NEW own, own = OwnParameters(o)
    PROVE  /\ DOMAIN extras \cap {"alg", "enc", "crit"} = {}
           /\ DOMAIN own \cap ({"alg", "enc"} \cup DOMAIN extras) = {}
           /\ DOMAIN h = {"alg", "enc"} \cup DOMAIN extras \cup DOMAIN own
           /\ h["alg"] = o.alg /\ h["enc"] = o.enc
           /\ \A x \in DOMAIN extras : h[x] = extras[x]
           /\ \A x \in DOMAIN own : h[x] = own[x]
<1> DEFINE first == [alg |-> o.alg, enc |-> o.enc]
<1>1. o.alg \in JweAlgorithms /\ DOMAIN o.agreement \subseteq {"apu", "apv"}
  BY EncryptersAssumption
<1>2. DOMAIN extras \cap {"alg", "enc", "crit"} = {}
  BY <1>1 DEF Extras, Over, JweAlgorithms, Agreed
<1>3. DOMAIN first = {"alg", "enc"} /\ first["alg"] = o.alg /\ first["enc"] = o.enc
  OBVIOUS
<1>4. h = Over(first, Over(extras, o.header))
  BY DEF Header
<1>5. /\ DOMAIN own = DOMAIN o.header \ (DOMAIN extras \cup {"alg", "enc"})
      /\ \A x \in DOMAIN own : own[x] = o.header[x]
  BY DEF OwnParameters, Part
<1> HIDE DEF first
<1>6. DOMAIN h = {"alg", "enc"} \cup DOMAIN extras \cup DOMAIN own
  BY <1>3, <1>4, <1>5 DEF Over
<1>7. h["alg"] = o.alg /\ h["enc"] = o.enc
  BY <1>3, <1>4 DEF Over
<1>8. \A x \in DOMAIN extras : h[x] = extras[x]
  BY <1>2, <1>3, <1>4 DEF Over
<1>9. \A x \in DOMAIN own : h[x] = own[x]
  BY <1>3, <1>4, <1>5 DEF Over
<1> QED
  BY <1>2, <1>5, <1>6, <1>7, <1>8, <1>9

\* Of a made message only the caller's own parameters may be ill typed, or a
\* party's name that is not base64url.
LEMMA OwnParametersDecide ==
    ASSUME NEW o \in JweOffers, NEW h, h = Header(o), NEW own, own = OwnParameters(o)
    PROVE  /\ WellTyped(h, ProtectedParameters) <=> WellTyped(own, ProtectedParameters)
           /\ GarbledIn(h, {"apu", "apv"}) <=> GarbledIn(own, {"apu", "apv"})
           /\ "crit" \in DOMAIN h <=> "crit" \in DOMAIN own
<1>1. PICK extras : extras = Extras(o)
  OBVIOUS
<1>2. /\ DOMAIN extras \cap {"alg", "enc", "crit"} = {}
      /\ DOMAIN h = {"alg", "enc"} \cup DOMAIN extras \cup DOMAIN own
      /\ h["alg"] = o.alg /\ h["enc"] = o.enc
      /\ \A x \in DOMAIN extras : h[x] = extras[x]
      /\ \A x \in DOMAIN own : h[x] = own[x]
  BY <1>1, HeaderSays
<1>3. /\ o.alg \in JweAlgorithms /\ o.enc \in DOMAIN CekBytes
      /\ DOMAIN o.agreement \subseteq {"apu", "apv"}
      /\ \A x \in DOMAIN o.agreement : o.agreement[x] # Garbled
  BY EncryptersAssumption
<1>4. \A x \in DOMAIN extras : extras[x] # IllTyped
  BY <1>1, EncryptersAssumption DEF WellTyped
<1>5. \A x \in {"apu", "apv"} : x \in DOMAIN extras => extras[x] # Garbled
  BY <1>1, <1>3 DEF Extras, Over, JweAlgorithms, Agreed
<1>6. o.alg # IllTyped /\ o.enc # IllTyped
  BY <1>3, IllTypedAssumption
<1>7. WellTyped(h, ProtectedParameters) <=> WellTyped(own, ProtectedParameters)
  BY <1>2, <1>4, <1>6 DEF WellTyped
<1>8. GarbledIn(h, {"apu", "apv"}) <=> GarbledIn(own, {"apu", "apv"})
  BY <1>2, <1>5 DEF GarbledIn
<1> QED
  BY <1>2, <1>7, <1>8

\* What encrypt derives its key from is what decrypt finds in the header, unless
\* the caller named a party that encrypt did not agree on.
LEMMA SameKey ==
    ASSUME NEW o \in JweOffers,
           NEW x, NEW last,
           \/ x = "alg" /\ last = [alg |-> o.alg]
           \/ x = "enc" /\ last = [enc |-> o.enc],
           NEW h, h = Header(o), NEW sent, sent = Over(Extras(o), last),
           DerivedFrom(o.alg) \cap {"alg", "enc"} \subseteq {x}
    PROVE  Part(h, DerivedFrom(o.alg)) = Part(sent, DerivedFrom(o.alg))
              <=> ~(o.alg \in Agreed /\ {"apu", "apv"} \cap DOMAIN OwnParameters(o) # {})
<1> DEFINE names == DerivedFrom(o.alg)
<1>1. PICK extras, own : extras = Extras(o) /\ own = OwnParameters(o)
  OBVIOUS
<1>2. o.alg \in JweAlgorithms
  BY EncryptersAssumption
<1>3. /\ DOMAIN extras \cap {"alg", "enc", "crit"} = {}
      /\ DOMAIN own \cap ({"alg", "enc"} \cup DOMAIN extras) = {}
      /\ DOMAIN h = {"alg", "enc"} \cup DOMAIN extras \cup DOMAIN own
      /\ h["alg"] = o.alg /\ h["enc"] = o.enc
      /\ \A y \in DOMAIN extras : h[y] = extras[y]
  BY <1>1, HeaderSays
<1>4. /\ names \subseteq {"alg", "enc", "apu", "apv"} \cup DOMAIN extras
      /\ o.alg \in Agreed => {"apu", "apv"} \subseteq names
      /\ o.alg \notin Agreed => names \cap {"apu", "apv"} = {}
  BY <1>1, <1>2 DEF DerivedFrom, Extras, Over, JweAlgorithms, Agreed
<1>5. DOMAIN last = {x} /\ x \in {"alg", "enc"} /\ last[x] = h[x]
  BY <1>3
<1>6. /\ DOMAIN sent = DOMAIN extras \cup {x} /\ sent[x] = h[x]
      /\ \A y \in DOMAIN extras : sent[y] = extras[y]
  BY <1>1, <1>3, <1>5 DEF Over
<1>7. CASE o.alg \in Agreed /\ {"apu", "apv"} \cap DOMAIN own # {}
  <2>1. PICK y \in {"apu", "apv"} : y \in DOMAIN own
    BY <1>7
  <2>2. y \in DOMAIN Part(h, names) /\ y \notin DOMAIN Part(sent, names)
    BY <1>3, <1>4, <1>5, <1>6, <1>7, <2>1 DEF Part
  <2> QED
    BY <1>1, <1>7, <2>2
<1>8. CASE ~(o.alg \in Agreed /\ {"apu", "apv"} \cap DOMAIN own # {})
  <2>1. DOMAIN own \cap names = {}
    BY <1>3, <1>4, <1>8
  <2>2. DOMAIN h \cap names = DOMAIN sent \cap names
    BY <1>3, <1>4, <1>5, <1>6, <2>1
  <2>3. \A y \in DOMAIN h \cap names : h[y] = sent[y]
    BY <1>3, <1>5, <1>6, <2>1
  <2>4. Part(h, names) = Part(sent, names)
    BY <2>2, <2>3, SamePart
  <2> QED
    BY <1>1, <1>8, <2>4
<1> QED
  BY <1>7, <1>8

\* Key management finds the content key that was used.
LEMMA KeyIsFound ==
    ASSUME NEW o \in JweOffers, Encrypts(o), NEW max,
           o.alg = "PBES2-HS256+A128KW" => 1000 <= o.p2c /\ o.p2c <= max,
           ~InTheWay(o),
           NEW jwe, jwe = Encrypt(o)
    PROVE  KeyManagementDecrypt(jwe, o.key, max) = Yields(ContentKey(o))
<1> DEFINE h == Header(o)
<1> DEFINE extras == Extras(o)
<1> DEFINE kek == Derived(o.key, h, o.alg)
<1>1. o.alg \in JweAlgorithms /\ DOMAIN o.agreement \subseteq {"apu", "apv"}
  BY EncryptersAssumption
<1>2. jwe.header = h /\ jwe.encryptedKey = EncryptedKey(o)
  BY DEF Encrypt, Compact, ContentEncrypt
<1>3. Fits(o.key, o.alg, o.enc)
  BY DEF Encrypts
<1>4. PICK own : own = OwnParameters(o)
  OBVIOUS
<1>5. ~(o.alg \in Agreed /\ {"apu", "apv"} \cap DOMAIN OwnParameters(o) # {})
  BY DEF InTheWay
<1> HIDE DEF extras, h
<1>8. h.alg = o.alg /\ h.enc = o.enc
  BY <1>4, HeaderSays DEF h, extras
<1>9. ~GarbledIn(h, {"apu", "apv"})
  BY <1>4, OwnParametersDecide DEF h, InTheWay
<1>10. ASSUME NEW x \in DOMAIN extras PROVE x \in DOMAIN h /\ h[x] = extras[x]
  <2>1. /\ DOMAIN h = {"alg", "enc"} \cup DOMAIN extras \cup DOMAIN own
        /\ \A y \in DOMAIN extras : h[y] = extras[y]
    BY <1>4, HeaderSays DEF h, extras
  <2> QED
    BY <2>1
<1>11. ASSUME o.alg \notin {"dir", "ECDH-ES"}, NEW reason
       PROVE  Unwrapped(jwe, kek, reason) = Yields(ContentKey(o))
  <2>1. DerivedFrom(o.alg) \cap {"alg", "enc"} \subseteq {"alg"}
    BY <1>1, <1>11 DEF DerivedFrom, JweAlgorithms, Agreed
  <2>2. PICK last, sent : last = [alg |-> o.alg] /\ sent = Over(Extras(o), last)
    OBVIOUS
  <2>3. kek = Derived(o.key, sent, o.alg)
    BY <1>5, <2>1, <2>2, SameKey DEF h, Derived
  <2>4. jwe.encryptedKey = Wrap(kek, ContentKey(o))
    BY <1>2, <1>11, <2>2, <2>3 DEF EncryptedKey
  <2> HIDE DEF kek
  <2> QED
    BY <2>4 DEF Unwrapped, Wrap
<1>13. CASE o.alg = "dir"
  <2>1. o.key.bytes = CekBytes[o.enc]
    BY <1>3, <1>13 DEF Fits
  <2>2. ContentKey(o) = Cek(Random(o.key.id), o.key.bytes)
    BY <1>13 DEF ContentKey
  <2> QED
    BY <1>2, <1>3, <1>8, <1>9, <1>13, <2>2 DEF KeyManagementDecrypt, Agreed
<1>14. CASE o.alg = "RSA-OAEP"
  BY <1>2, <1>3, <1>8, <1>9, <1>11, <1>14 DEF KeyManagementDecrypt, Agreed
<1>15. CASE o.alg = "A128KW"
  BY <1>2, <1>3, <1>8, <1>9, <1>11, <1>15 DEF KeyManagementDecrypt, Agreed
<1>16. CASE o.alg = "A128GCMKW"
  <2>1. extras = [iv |-> "iv", tag |-> "tag"]
    BY <1>16 DEF extras, Extras, Agreed
  <2>2. DOMAIN extras = {"iv", "tag"} /\ extras["iv"] = "iv" /\ extras["tag"] = "tag"
    BY <2>1
  <2>3. ~Lacks(h, {"iv", "tag"}) /\ ~GarbledIn(h, {"iv", "tag"})
    BY <1>10, <2>2 DEF Lacks, GarbledIn, Garbled
  <2> QED
    BY <1>2, <1>3, <1>8, <1>9, <1>11, <1>16, <2>3 DEF KeyManagementDecrypt, Agreed
<1>17. CASE o.alg \in Agreed
  <2>1. extras = Over(o.agreement, [epk |-> [crv |-> o.key.crv, point |-> "ephemeral"]])
    BY <1>17 DEF extras, Extras, Agreed
  <2>2. "epk" \in DOMAIN extras /\ extras["epk"] = [crv |-> o.key.crv, point |-> "ephemeral"]
    BY <1>1, <2>1 DEF Over
  <2>3. ~Lacks(h, {"epk"}) /\ h.epk.crv = o.key.crv
    BY <1>10, <2>2 DEF Lacks
  <2>4. CASE o.alg = "ECDH-ES"
    <3>1. PICK last, sent : last = [enc |-> o.enc] /\ sent = Over(Extras(o), last)
      OBVIOUS
    <3>2. DerivedFrom(o.alg) \cap {"alg", "enc"} \subseteq {"enc"}
      BY <2>4 DEF DerivedFrom
    <3>3. kek = Derived(o.key, sent, o.alg)
      BY <1>5, <3>1, <3>2, SameKey DEF h, Derived
    <3>4. ContentKey(o) = Cek(kek, CekBytes[o.enc])
      BY <2>4, <3>1, <3>3 DEF ContentKey
    <3> QED
      BY <1>2, <1>3, <1>8, <1>9, <2>3, <2>4, <3>4 DEF KeyManagementDecrypt, Agreed
  <2>5. CASE o.alg = "ECDH-ES+A128KW"
    BY <1>2, <1>3, <1>8, <1>9, <1>11, <2>3, <2>5 DEF KeyManagementDecrypt, Agreed
  <2> QED
    BY <1>17, <2>4, <2>5 DEF Agreed
<1>18. CASE o.alg = "PBES2-HS256+A128KW"
  <2>1. extras = [p2s |-> "salt", p2c |-> o.p2c]
    BY <1>18 DEF extras, Extras, Agreed
  <2>2. DOMAIN extras = {"p2s", "p2c"} /\ extras["p2s"] = "salt" /\ extras["p2c"] = o.p2c
    BY <2>1
  <2>3. ~Lacks(h, {"p2s", "p2c"}) /\ h.p2s = "salt" /\ h.p2c = o.p2c
    BY <1>10, <2>2 DEF Lacks
  <2>4. CountAccepted(h.p2c, max)
    BY <1>18, <2>3 DEF CountAccepted
  <2>5. h.p2s \notin {Garbled, Short}
    BY <2>3 DEF Garbled, Short
  <2> QED
    BY <1>2, <1>3, <1>8, <1>9, <1>11, <1>18, <2>3, <2>4, <2>5 DEF KeyManagementDecrypt, Agreed
<1> QED
  BY <1>1, <1>13, <1>14, <1>15, <1>16, <1>17, <1>18 DEF JweAlgorithms

LEMMA MadeJweOpens ==
    ASSUME NEW o \in JweOffers, Encrypts(o), NEW r,
           o.key = r.key,
           r.algs = <<>> \/ o.alg \in r.algs[1],
           r.encs = <<>> \/ o.enc \in r.encs[1],
           o.alg = "PBES2-HS256+A128KW" => 1000 <= o.p2c /\ o.p2c <= r.maxPBES2Count,
           ~InTheWay(o)
    PROVE  Decrypt(Encrypt(o), r) = "Ok"
<1>1. PICK jwe : jwe = Encrypt(o)
  OBVIOUS
<1>2. /\ jwe.header = Header(o) /\ jwe.body.cek = ContentKey(o) /\ jwe.body.header = Header(o)
  BY <1>1 DEF Encrypt, Compact, ContentEncrypt
<1>3. jwe.readable /\ jwe.keyReadable /\ jwe.bodyReadable /\ jwe.body.intact
  BY <1>1 DEF Encrypt, Compact, ContentEncrypt
<1>4. jwe.header.alg = o.alg /\ jwe.header.enc = o.enc
  BY <1>2 DEF Header, Over
<1>5. KeyManagementDecrypt(jwe, r.key, r.maxPBES2Count) = Yields(ContentKey(o))
  BY <1>1, KeyIsFound
<1>6. ContentKey(o).bytes = CekBytes[o.enc]
  BY DEF ContentKey, Cek, Encrypts, Fits
<1>7. /\ Recovered(jwe, Yields(ContentKey(o))).reason = "none"
      /\ Recovered(jwe, Yields(ContentKey(o))).cek = ContentKey(o)
  BY <1>4, <1>6 DEF Recovered, Yields
<1>8. HeaderReads(jwe) /\ "crit" \notin DOMAIN jwe.header
  <2>1. PICK h, own : h = Header(o) /\ own = OwnParameters(o)
    OBVIOUS
  <2>2. WellTyped(own, ProtectedParameters) /\ "crit" \notin DOMAIN own
    BY <2>1 DEF InTheWay
  <2> QED
    BY <1>2, <1>3, <2>1, <2>2, OwnParametersDecide DEF HeaderReads
<1>9. ContentDecrypts(jwe, ContentKey(o))
  BY <1>2, <1>3 DEF ContentDecrypts
<1> QED
  BY <1>1, <1>3, <1>4, <1>5, <1>7, <1>8, <1>9 DEF Decrypt

\* A message that opens yields the content key that was used, and not by chance.
LEMMA OpenedByItsKey ==
    ASSUME NEW o \in JweOffers, NEW r, NEW jwe, jwe = Encrypt(o), Decrypt(jwe, r) = "Ok",
           NEW got, got = KeyManagementDecrypt(jwe, r.key, r.maxPBES2Count)
    PROVE  got.reason = "none" /\ got.cek = ContentKey(o)
<1>1. jwe.header = Header(o) /\ jwe.body.cek = ContentKey(o)
  BY DEF Encrypt, Compact, ContentEncrypt
<1>2. jwe.header.alg = o.alg /\ o.alg \in JweAlgorithms
  BY <1>1, EncryptersAssumption DEF Header, Over
<1>3. ASSUME NEW kek, NEW reason \in {"KeyManagementFailed", "DecryptionFailed"}
      PROVE  Unwrapped(jwe, kek, reason).reason # "Ok"
  BY DEF Unwrapped, Yields, Fail
<1>4. got.reason # "Ok"
  BY <1>2, <1>3 DEF KeyManagementDecrypt, Yields, Fail, Agreed, JweAlgorithms
<1>5. PICK recovered : recovered = Recovered(jwe, got)
  OBVIOUS
<1>6. recovered.reason # "Ok"
  BY <1>4, <1>5 DEF Recovered, Yields, Fail
<1>7. recovered.reason = "none" /\ ContentDecrypts(jwe, recovered.cek)
  BY <1>5, <1>6 DEF Decrypt
<1>8. recovered.cek = ContentKey(o)
  BY <1>1, <1>7 DEF ContentDecrypts
<1>9. ASSUME o.alg = "RSA-OAEP", NEW bytes
      PROVE  ContentKey(o) # Yields(Cek(Random("substitute"), bytes)).cek
  BY <1>9 DEF ContentKey, Yields, Cek, Random
<1>10. recovered = got
  <2>1. \/ recovered = got
        \/ recovered = Fail("DecryptionFailed")
        \/ /\ jwe.header.alg = "RSA-OAEP"
           /\ recovered = Yields(Cek(Random("substitute"), CekBytes[jwe.header.enc]))
    BY <1>5 DEF Recovered
  <2>2. Fail("DecryptionFailed").reason # "none"
    BY DEF Fail
  <2> QED
    BY <1>2, <1>7, <1>8, <1>9, <2>1, <2>2
<1> QED
  BY <1>7, <1>8, <1>10

\* Only a recipient that keeps to the sender's key and limits opens it, and only
\* when nothing of the caller's is in the way.
LEMMA OnlyMadeJweOpens ==
    ASSUME NEW o \in JweOffers, NEW r \in JweReceivers, Decrypt(Encrypt(o), r) = "Ok"
    PROVE  /\ o.key = r.key
           /\ r.algs = <<>> \/ o.alg \in r.algs[1]
           /\ r.encs = <<>> \/ o.enc \in r.encs[1]
           /\ o.alg = "PBES2-HS256+A128KW" => 1000 <= o.p2c /\ o.p2c <= r.maxPBES2Count
           /\ ~InTheWay(o)
<1>1. PICK jwe, h, own : jwe = Encrypt(o) /\ h = Header(o) /\ own = OwnParameters(o)
  OBVIOUS
<1>2. PICK got : got = KeyManagementDecrypt(jwe, r.key, r.maxPBES2Count)
  OBVIOUS
<1>3. jwe.header = h /\ jwe.encryptedKey = EncryptedKey(o)
  BY <1>1 DEF Encrypt, Compact, ContentEncrypt
<1>4. h.alg = o.alg /\ h.enc = o.enc /\ o.alg \in JweAlgorithms
  BY <1>1, HeaderSays, EncryptersAssumption
<1>5. got.reason = "none" /\ got.cek = ContentKey(o)
  BY <1>1, <1>2, OpenedByItsKey
<1>6. /\ HeaderReads(jwe) /\ "crit" \notin DOMAIN h
      /\ r.algs = <<>> \/ o.alg \in r.algs[1]
      /\ r.encs = <<>> \/ o.enc \in r.encs[1]
  BY <1>1, <1>3, <1>4 DEF Decrypt
<1>7. ~GarbledIn(h, {"apu", "apv"})
  BY <1>2, <1>3, <1>5 DEF KeyManagementDecrypt, Fail
<1>8. /\ WellTyped(own, ProtectedParameters) /\ "crit" \notin DOMAIN own
      /\ ~GarbledIn(own, {"apu", "apv"})
  BY <1>1, <1>3, <1>6, <1>7, OwnParametersDecide DEF HeaderReads
<1>9. PICK kek : kek = Derived(r.key, h, o.alg)
  OBVIOUS
<1>10. CASE o.alg = "dir"
  <2>1. got \in {Yields(Cek(Random(r.key.id), r.key.bytes)), Fail("KeyManagementFailed")}
    BY <1>2, <1>3, <1>4, <1>7, <1>10 DEF KeyManagementDecrypt, Agreed
  <2>2. ContentKey(o) = Cek(Random(r.key.id), r.key.bytes)
    BY <1>5, <2>1 DEF Yields, Fail
  <2>3. o.key.id = r.key.id
    BY <1>10, <2>2 DEF ContentKey, Cek, Random
  <2> QED
    BY <1>1, <1>6, <1>8, <1>10, <2>3, KeysAssumption DEF InTheWay, Agreed
<1>11. CASE o.alg = "ECDH-ES"
  <2>1. PICK last, sent : last = [enc |-> o.enc] /\ sent = Over(Extras(o), last)
    OBVIOUS
  <2>2. \/ got.reason # "none"
        \/ got = Yields(Cek(kek, CekBytes[h.enc]))
    BY <1>2, <1>3, <1>4, <1>7, <1>9, <1>11 DEF KeyManagementDecrypt, Fail, Agreed
  <2>3. ContentKey(o) = Cek(kek, CekBytes[h.enc])
    BY <1>5, <2>2 DEF Yields
  <2>4. ContentKey(o) = Cek(Derived(o.key, sent, o.alg), CekBytes[o.enc])
    BY <1>11, <2>1 DEF ContentKey
  <2>5. kek = Derived(o.key, sent, o.alg)
    BY <2>3, <2>4 DEF Cek
  <2>6. /\ o.key.id = r.key.id
        /\ Part(h, DerivedFrom(o.alg)) = Part(sent, DerivedFrom(o.alg))
    BY <1>9, <2>5 DEF Derived
  <2>7. DerivedFrom(o.alg) \cap {"alg", "enc"} \subseteq {"enc"}
    BY <1>11 DEF DerivedFrom
  <2>8. ~(o.alg \in Agreed /\ {"apu", "apv"} \cap DOMAIN OwnParameters(o) # {})
    BY <1>1, <2>1, <2>6, <2>7, SameKey
  <2> QED
    BY <1>1, <1>6, <1>8, <1>11, <2>6, <2>8, KeysAssumption DEF InTheWay
<1>12. CASE o.alg \notin {"dir", "ECDH-ES"}
  <2>1. PICK last, sent : last = [alg |-> o.alg] /\ sent = Over(Extras(o), last)
    OBVIOUS
  <2>2. jwe.encryptedKey.under = Derived(o.key, sent, o.alg)
    BY <1>3, <1>12, <2>1 DEF EncryptedKey, Wrap
  <2>3. \/ got.reason # "none"
        \/ \E reason \in {"DecryptionFailed", "KeyManagementFailed"} :
              got = Unwrapped(jwe, kek, reason)
    BY <1>2, <1>3, <1>4, <1>7, <1>9, <1>12
       DEF KeyManagementDecrypt, Fail, Agreed, JweAlgorithms
  <2>4. jwe.encryptedKey.under = kek
    BY <1>5, <2>3 DEF Unwrapped, Fail
  <2>5. /\ o.key.id = r.key.id
        /\ Part(h, DerivedFrom(o.alg)) = Part(sent, DerivedFrom(o.alg))
    BY <1>9, <2>2, <2>4 DEF Derived
  <2>6. DerivedFrom(o.alg) \cap {"alg", "enc"} \subseteq {"alg"}
    BY <1>4, <1>12 DEF DerivedFrom, JweAlgorithms, Agreed
  <2>7. ~(o.alg \in Agreed /\ {"apu", "apv"} \cap DOMAIN OwnParameters(o) # {})
    BY <1>1, <2>1, <2>5, <2>6, SameKey
  <2>8. ASSUME o.alg = "PBES2-HS256+A128KW"
        PROVE  1000 <= o.p2c /\ o.p2c <= r.maxPBES2Count
    <3>1. CountAccepted(h.p2c, r.maxPBES2Count)
      BY <1>2, <1>3, <1>4, <1>5, <1>7, <2>8 DEF KeyManagementDecrypt, Fail, Agreed
    <3>2. PICK extras : extras = Extras(o)
      OBVIOUS
    <3>3. extras = [p2s |-> "salt", p2c |-> o.p2c]
      BY <2>8, <3>2 DEF Extras, Agreed
    <3>4. /\ DOMAIN h = {"alg", "enc"} \cup DOMAIN extras \cup DOMAIN own
          /\ \A x \in DOMAIN extras : h[x] = extras[x]
      BY <1>1, <3>2, HeaderSays
    <3>5. h.p2c = o.p2c
      BY <3>3, <3>4
    <3> QED
      BY <3>1, <3>5 DEF CountAccepted
  <2> QED
    BY <1>1, <1>6, <1>8, <2>5, <2>7, <2>8, KeysAssumption DEF InTheWay
<1> QED
  BY <1>10, <1>11, <1>12

\* What sign makes verify accepts when the options of both sides agree, and what
\* encrypt makes decrypt opens when they agree and only then, whatever header
\* parameters the caller gave (Jws.ts and Jwe.ts).
THEOREM MadeMessagesOpen == Spec => []MadeOpens
<1>1. JoseInv => MadeOpens
  <2> SUFFICES ASSUME JoseInv, stage = "opened", altered = 0
               PROVE  IF IsJws THEN WithinVerify => result.verdict = "Ok"
                      ELSE result.verdict = "Ok" <=> WithinDecrypt
    BY DEF MadeOpens
  <2>1. result = Opened(message, receiver) /\ message.kind \in {"jws", "jwe"}
    BY DEF JoseInv, ResultInv
  <2>2. PICK o, r : o = offer /\ r = receiver
    OBVIOUS
  <2>3. CASE message.kind = "jws"
    <3>1. IsJws /\ o \in JwsOffers /\ r \in JwsReceivers /\ message.jws = SignedBy(o)
      BY <2>2, <2>3 DEF JoseInv, JwsInv, IsJws
    <3>2. result = Verify(SignedBy(o), r)
      BY <2>1, <2>2, <2>3, <3>1 DEF Opened
    <3>3. ASSUME WithinVerify PROVE result.verdict = "Ok"
      <4>1. /\ Len(o.signers) <= r.maxSignatures /\ DOMAIN o.criticals = r.criticals
            /\ r.algorithms = <<>>
                  \/ \A i \in DOMAIN o.signers : o.signers[i].algorithm \in r.algorithms[1]
            /\ \E i \in DOMAIN o.signers : o.signers[i].key \in r.publicKeys
            /\ \A i \in DOMAIN o.signers : ~ResolvedKeys(o.signers[i].header, r).fails
        BY <2>2, <3>3 DEF WithinVerify
      <4> QED
        BY <3>1, <3>2, <4>1, MadeJwsOpens
    <3> QED
      BY <3>1, <3>3
  <2>4. CASE message.kind = "jwe"
    <3>1. /\ ~IsJws /\ o \in JweOffers /\ r \in JweReceivers
          /\ message.jwe = Encrypt(o) /\ Encrypts(o)
      BY <2>2, <2>4 DEF JoseInv, JweInv, IsJws, IsJwe
    <3>2. result.verdict = Decrypt(Encrypt(o), r)
      BY <2>1, <2>2, <2>4, <3>1 DEF Opened
    <3>3. ASSUME WithinDecrypt PROVE result.verdict = "Ok"
      BY <2>2, <3>1, <3>2, <3>3, MadeJweOpens DEF WithinDecrypt
    <3>4. ASSUME result.verdict = "Ok" PROVE WithinDecrypt
      BY <2>2, <3>1, <3>2, <3>4, OnlyMadeJweOpens DEF WithinDecrypt
    <3> QED
      BY <3>1, <3>3, <3>4
  <2> QED
    BY <2>1, <2>3, <2>4
<1> QED
  BY <1>1, JoseKept, PTL
==============================================================================
