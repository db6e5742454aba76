----------------------------- MODULE ClientAuth ------------------------------
(***************************************************************************)
(* How a token request says which client sends it: exchangeClient-         *)
(* Credentials and clientAuthentication of src/src/Oidc.ts, the two ends   *)
(* of the Authorization: Basic header.                                     *)
(*                                                                         *)
(* A string is a sequence of pieces: reserved characters one by one, the   *)
(* two hexadecimal digits of a reserved character as one piece - so that   *)
(* the plain text "%3A" can be told from an escaped colon -, and whatever  *)
(* needs no escape.  Base64 loses nothing; a header it does not decode is  *)
(* one that is garbled.                                                    *)
(***************************************************************************)
EXTENDS Integers, SequencesExt

\* The hexadecimal digits of the reserved characters.
Reserved == {":", "%", " "}
Hex(c) == CASE c = ":" -> "3A" [] c = "%" -> "25" [] c = " " -> "20"
Digits == {Hex(c) : c \in Reserved}
CharOf(digits) == CHOOSE c \in Reserved : Hex(c) = digits

Escaped(c) == IF c \in Reserved THEN <<"%", Hex(c)>> ELSE <<c>>

\* What encodeURIComponent has written after n pieces of the text.
Encoding(text) ==
    LET done[n \in 0..Len(text)] == IF n = 0 THEN <<>> ELSE done[n - 1] \o Escaped(text[n])
    IN done

\* Mutation of EncodeURIComponent: nothing is escaped.
EncodeNothing(text) == text

EncodeURIComponent(text) == Encoding(text)[Len(text)]

\* One piece read by decodeURIComponent: what has been read so far, whether an
\* escape has begun, whether every escape was followed by digits.
NothingRead == [text |-> <<>>, escape |-> FALSE, ok |-> TRUE]
Read(done, c) ==
    IF done.escape
    THEN [text |-> IF c \in Digits THEN Append(done.text, CharOf(c)) ELSE done.text,
          escape |-> FALSE, ok |-> done.ok /\ c \in Digits]
    ELSE IF c = "%" THEN [done EXCEPT !.escape = TRUE]
    ELSE [done EXCEPT !.text = Append(@, c)]

Decoding(text) ==
    LET done[n \in 0..Len(text)] == IF n = 0 THEN NothingRead ELSE Read(done[n - 1], text[n])
    IN done

\* The text, and whether there is one: a URIError otherwise.
DecodeURIComponent(text) ==
    LET end == Decoding(text)[Len(text)] IN [text |-> end.text, ok |-> end.ok /\ ~end.escape]

\* A request: its Authorization header and the client of its body.  What it
\* does not have is the empty sequence, what it has a sequence of one.
Request(header, id, secret, scope) ==
    [header |-> header, id |-> id, secret |-> secret, scope |-> scope]

Basic(text) == <<[scheme |-> "Basic", garbled |-> FALSE, text |-> text]>>

\* The client credentials grant, sent by the library's own client.
ExchangeClientCredentials(id, secret, scope) ==
    Request(Basic(EncodeURIComponent(id) \o <<":">> \o EncodeURIComponent(secret)),
            <<>>, <<>>, scope)

\* Who a request says it is from: a sequence of one [id, secret], the secret
\* again a sequence of at most one, or nobody.
ClientAuthentication(request) ==
    IF request.header # <<>> /\ request.header[1].scheme = "Basic"
    THEN LET text == request.header[1].text
             at == {i \in DOMAIN text : text[i] = ":"}
             separator == Min(at)
             id == DecodeURIComponent(SubSeq(text, 1, separator - 1))
             secret == DecodeURIComponent(SubSeq(text, separator + 1, Len(text)))
         IN IF request.secret = <<>> /\ ~request.header[1].garbled /\ at # {} /\ id.ok /\ secret.ok
            THEN <<[id |-> id.text, secret |-> <<secret.text>>]>>
            ELSE <<>>
    ELSE IF request.id # <<>> THEN <<[id |-> request.id[1], secret |-> request.secret]>>
    ELSE <<>>
==============================================================================
