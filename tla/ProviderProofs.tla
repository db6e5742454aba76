--------------------------- MODULE ProviderProofs ----------------------------
(***************************************************************************)
(* Proofs about Provider: its type invariant, that a sign-in has one live  *)
(* credential at a time and none after its last, that only the holder of   *)
(* the verifier is paid, that tokens say what was authorized, and who      *)
(* takes them, for any requests, clients, codes and bounds.                *)
(***************************************************************************)
EXTENDS Provider, TokenVerifyProofs, FiniteSetTheorems

\* What stands for an empty place in a store is nothing a store can hold, and
\* a grant is not what a refresh token keeps of it.
LEMMA AbsentApart ==
    /\ Absent \notin Grant
    /\ Absent \notin Chain
    /\ Grant \cap Chain = {}
<1>1. DOMAIN Absent = {"absent"}
  BY DEF Absent
<1>2. \A g \in Grant : DOMAIN g = {"code", "client", "redirect", "challenge", "scope", "nonce", "expires"}
  BY DEF Grant
<1>3. \A g \in Chain : DOMAIN g = {"code", "client", "scope", "nonce"}
  BY DEF Chain
<1>4. "code" \notin DOMAIN Absent /\ \A g \in Chain : "redirect" \notin DOMAIN g
  BY <1>1, <1>3
<1>5. (\A g \in Grant : "code" \in DOMAIN g /\ "redirect" \in DOMAIN g)
  BY <1>2
<1>6. (\A g \in Chain : "code" \in DOMAIN g)
  BY <1>3
<1> QED
  BY <1>4, <1>5, <1>6

\* The steps of one request.
RequestStep(r) ==
    \/ \E code \in Codes, client \in Clients, redirect \in Redirects, v \in Verifiers :
          CodeGrant(r, code, client, redirect, v)
    \/ \E handle \in Handles, client \in Clients : RefreshGrant(r, handle, client)
    \/ Digest(r) \/ Issue(r) \/ Abort(r) \/ Close(r)
    \/ \E message \in Messages : ServiceGrant(r, message)
    \/ Malformed(r) \/ ApiKey(r)

------------------------------------------------------------------------------
(* The inductive invariant.                                                 *)

\* A request holds a grant between its awaits, of the kind its place says, and
\* has presented nothing before it starts.
HeldInv ==
    \A r \in Requests :
        /\ at[r] = "digest" => held[r] \in Grant
        /\ at[r] = "issue" => held[r] \in Chain
        /\ at[r] \in {"idle", "done"} => held[r] = Absent
        /\ at[r] = "idle" => proof[r] = NoProof

\* A code is stored under its own name, and only codes and refresh tokens that
\* were minted are anywhere.
MintedInv ==
    /\ \A c \in Codes : codes[c] # Absent => codes[c].code = c /\ c <= minted
    /\ \A r \in Requests : held[r] # Absent => held[r].code <= minted
    /\ \A h \in Handles :
          refreshTokens[h] # Absent => h <= issued /\ refreshTokens[h].code <= minted

\* The client the grant was authorized for presented what r took of it, and a
\* code in time and to the redirect uri it went to.
Came(r, grant) ==
    /\ asked[r].client = grant.client
    /\ proof[r] # NoProof => asked[r].redirect = grant.redirect /\ asked[r].when <= grant.expires

\* What r is about to issue is for the grant's client and of its scope, with its
\* nonce for a code, whose verifier was presented.
Owed(r, grant) ==
    /\ held[r].client = grant.client
    /\ held[r].scope = grant.scope
    /\ held[r].nonce = IF proof[r] = NoProof THEN NoNonce ELSE grant.nonce
    /\ proof[r] # NoProof => proof[r] = grant.challenge

\* What is stored or held is what was authorized, or descends from it.
AuthorizedInv ==
    /\ \A c \in Codes : codes[c] # Absent => codes[c] = authorized[c]
    /\ \A r \in Requests : at[r] = "digest" => held[r] = authorized[held[r].code]
    /\ \A h \in Handles :
          refreshTokens[h] # Absent
              => /\ refreshTokens[h].client = authorized[refreshTokens[h].code].client
                 /\ refreshTokens[h].scope = authorized[refreshTokens[h].code].scope
                 /\ refreshTokens[h].nonce = NoNonce
    /\ \A r \in Requests : at[r] \in {"digest", "issue"} => Came(r, authorized[held[r].code])
    /\ \A r \in Requests : at[r] = "issue" => Owed(r, authorized[held[r].code])

\* What was answered is still so: the request is over, its code is an old one.
AnsweredInv ==
    /\ \A r \in Requests : answer[r].refresh # 0 =>
          at[r] = "done" /\ answer[r].code \in Codes /\ answer[r].code <= minted
    /\ TokensTellTheGrant
    /\ OnlyTheProverIsPaid

\* OneLiveCredential, said of pairs of places.
Apart ==
    /\ \A r \in Requests : held[r] # Absent => codes[held[r].code] = Absent
    /\ \A h \in Handles : refreshTokens[h] # Absent => codes[refreshTokens[h].code] = Absent
    /\ \A r \in Requests, h \in Handles :
          held[r] # Absent /\ refreshTokens[h] # Absent => held[r].code # refreshTokens[h].code
    /\ \A r, s \in Requests :
          held[r] # Absent /\ held[s] # Absent /\ held[r].code = held[s].code => r = s
    /\ \A h, i \in Handles :
          refreshTokens[h] # Absent /\ refreshTokens[i] # Absent
             /\ refreshTokens[h].code = refreshTokens[i].code => h = i

Inv == ProviderTypeOK /\ HeldInv /\ MintedInv /\ AuthorizedInv /\ AnsweredInv /\ Apart

\* Sign-in c has no credential left.
Spent(c) ==
    /\ codes[c] = Absent
    /\ \A r \in Requests : held[r] # Absent => held[r].code # c
    /\ \A h \in Handles : refreshTokens[h] # Absent => refreshTokens[h].code # c

------------------------------------------------------------------------------
(* Type correctness.                                                        *)

\* Minting a code stays within the bound.
LEMMA NextCode == ASSUME ProviderTypeOK, minted < MaxCodes PROVE minted + 1 \in Codes
  BY BoundAssumption DEF ProviderTypeOK, Codes

LEMMA NextHandle == ASSUME ProviderTypeOK, issued < MaxHandles PROVE issued + 1 \in Handles
  BY BoundAssumption DEF ProviderTypeOK, Handles

\* The grant handleAuthorize stores.
LEMMA NewGrant ==
    ASSUME ProviderTypeOK, NEW ask \in Asks, NEW c \in Codes
    PROVE  Pend(c, ask) \in Grant
<1>1. clock + CodeTtl \in Nat
  BY TtlAssumption DEF ProviderTypeOK
<1>2. /\ ask.client \in Clients /\ ask.redirect \in Redirects /\ ask.challenge \in Verifiers
      /\ ask.scope \in SUBSET Scopes /\ ask.nonce \in Nonces \cup {NoNonce}
  BY AskAssumption
<1> QED
  BY <1>1, <1>2 DEF Grant, Pend

\* What is stored under a code is a grant, unless nothing is.
LEMMA StoredGrant ==
    ASSUME ProviderTypeOK, NEW c \in Codes, codes[c] # Absent
    PROVE  codes[c] \in Grant
  BY DEF ProviderTypeOK

LEMMA ChainOfGrant == ASSUME NEW g \in Grant PROVE ChainOf(g) \in Chain
  BY DEF Grant, Chain, ChainOf

LEMMA RenewalOfChain ==
    ASSUME NEW g \in Chain
    PROVE  /\ Renewal(g) \in Chain
           /\ Renewal(g).code = g.code /\ Renewal(g).client = g.client
           /\ Renewal(g).scope = g.scope /\ Renewal(g).nonce = NoNonce
  BY DEF Chain, Renewal

\* The answers that are given, and what an answer that ends a request does.
LEMMA RefusedIs ==
    \A error \in Errors \cup {"nobody"} : IsAnswer(Refused(error)) /\ Refused(error).refresh = 0
  BY DEF IsAnswer, Refused, NoAnswer, Errors

LEMMA NobodyIs == IsAnswer(Nobody) /\ Nobody.refresh = 0 /\ IsAnswer(NoAnswer) /\ NoAnswer.refresh = 0
  BY DEF IsAnswer, Nobody, NoAnswer

LEMMA GrantedIs ==
    ASSUME NEW tokens, tokens # {}
    PROVE  IsAnswer(Granted(tokens)) /\ Granted(tokens).refresh = 0
  BY DEF IsAnswer, Granted, NoAnswer

LEMMA OwnTokensAre ==
    \A client, scope, ttl : IsAnswer(Granted(OwnTokens(client, scope, ttl)))
                             /\ Granted(OwnTokens(client, scope, ttl)).refresh = 0
<1>1. \A client, scope, ttl : OwnTokens(client, scope, ttl) # {}
  BY DEF OwnTokens
<1> QED
  BY <1>1, GrantedIs

LEMMA ServiceAnswerIs ==
    \A message : IsAnswer(ServiceAnswer(message)) /\ ServiceAnswer(message).refresh = 0
  BY RefusedIs, OwnTokensAre DEF ServiceAnswer, Errors

LEMMA Ends ==
    ASSUME ProviderTypeOK, NEW r \in Requests, NEW result, End(r, result), IsAnswer(result)
    PROVE  /\ at' \in [Requests -> {"idle", "digest", "issue", "done"}]
           /\ held' \in [Requests -> Grant \cup Chain \cup {Absent}]
           /\ DOMAIN answer' = Requests
           /\ \A s \in Requests : IsAnswer(answer'[s])
           /\ at'[r] = "done" /\ held'[r] = Absent /\ answer'[r] = result
           /\ \A s \in Requests \ {r} :
                 at'[s] = at[s] /\ held'[s] = held[s] /\ answer'[s] = answer[s]
<1>1. answer' = [answer EXCEPT ![r] = result] /\ DOMAIN answer = Requests
  BY DEF End, ProviderTypeOK
<1>2. /\ DOMAIN answer' = Requests /\ answer'[r] = result
      /\ \A s \in Requests \ {r} : answer'[s] = answer[s]
  BY <1>1
<1>3. \A s \in Requests : IsAnswer(answer'[s])
  BY <1>2 DEF ProviderTypeOK
<1> QED
  BY <1>2, <1>3 DEF End, ProviderTypeOK

\* What issueTokens signs for a chain: one access token that says whose it is
\* and for what, and for an OpenID request id tokens with the chain's nonce.
LEMMA UserTokensSay ==
    ASSUME NEW chain \in Chain
    PROVE  Tell(UserTokens(chain), chain.client, chain.scope, chain.nonce)
<1> DEFINE exp == clock + TokenTtl
           access == IssueAccessToken(ProviderKey, Issuer, User, Api, chain.client, chain.scope, exp)
           idToken == IssueIdToken(ProviderKey, Issuer, User, chain.client, chain.nonce, exp)
           idTokens == {token \in UserTokens(chain) : token.aud = {chain.client}}
<1>1. /\ access.aud = {Api} /\ access.client = chain.client
      /\ access.scope = chain.scope /\ access.sub = User
  BY DEF IssueAccessToken, Sign
<1>2. idToken.aud = {chain.client} /\ idToken.nonce = chain.nonce /\ idToken.sub = User
  BY DEF IssueIdToken, Sign
<1>3. chain.client # Api
  BY NameAssumption DEF Chain
<1>4. access.aud # {chain.client}
  BY <1>1, <1>3
<1>5. UserTokens(chain) = {access} \cup IF "openid" \in chain.scope THEN {idToken} ELSE {}
  BY DEF UserTokens
<1> HIDE DEF access, idToken
<1>6. idTokens = IF "openid" \in chain.scope THEN {idToken} ELSE {}
  BY <1>2, <1>4, <1>5
<1>7. UserTokens(chain) \ idTokens = {access}
  BY <1>2, <1>4, <1>5
<1>8. Cardinality({access}) = 1
  BY FS_Singleton
<1> QED
  BY <1>1, <1>2, <1>6, <1>7, <1>8 DEF Tell

LEMMA IssuedAnswer ==
    ASSUME ProviderTypeOK, NEW chain \in Chain, NEW handle \in Handles
    PROVE  IsAnswer([Granted(UserTokens(chain)) EXCEPT !.refresh = handle, !.code = chain.code])
<1>1. UserTokens(chain) # {}
  BY DEF UserTokens
<1>2. chain.code \in Codes
  BY DEF Chain
<1> QED
  BY <1>1, <1>2 DEF IsAnswer, Granted, NoAnswer

\* The initial state.
LEMMA InvInit == ASSUME ProviderInit PROVE Inv
<1>1. ProviderTypeOK
  BY BoundAssumption, NobodyIs DEF ProviderInit, ProviderTypeOK
<1>2. HeldInv
  BY DEF ProviderInit, HeldInv
<1>3. MintedInv /\ AuthorizedInv /\ Apart
  BY DEF ProviderInit, MintedInv, AuthorizedInv, Apart
<1>4. AnsweredInv
  BY NobodyIs DEF ProviderInit, AnsweredInv, TokensTellTheGrant, OnlyTheProverIsPaid
<1> QED
  BY <1>1, <1>2, <1>3, <1>4 DEF Inv

\* Every step keeps the types.
LEMMA TypeStep == ASSUME Inv, [ProviderNext]_providerVars PROVE ProviderTypeOK'
<1> USE DEF Inv
<1>1. CASE Pass
  BY <1>1 DEF Pass, ProviderTypeOK, storeVars, tokenVars
<1>2. ASSUME NEW ask \in Asks, Authorize(ask) PROVE ProviderTypeOK'
  <2> DEFINE g == Pend(minted', ask)
  <2>1. minted' = minted + 1 /\ minted' \in Codes /\ minted' \in 0..MaxCodes
    BY <1>2, NextCode, BoundAssumption DEF Authorize, Codes
  <2>2. g \in Grant
    BY <2>1, NewGrant
  <2>3. codes' = [codes EXCEPT ![minted'] = g] /\ authorized' = [authorized EXCEPT ![minted'] = g]
    BY <1>2 DEF Authorize
  <2> HIDE DEF g
  <2>4. /\ codes' \in [Codes -> Grant \cup {Absent}]
        /\ authorized' \in [Codes -> Grant \cup {Absent}]
    BY <2>2, <2>3 DEF ProviderTypeOK
  <2> QED
    BY <1>2, <2>1, <2>4 DEF Authorize, ProviderTypeOK, tokenVars
<1>3. ASSUME NEW r \in Requests, NEW code \in Codes, NEW client \in Clients,
             NEW redirect \in Redirects, NEW v \in Verifiers,
             CodeGrant(r, code, client, redirect, v)
      PROVE  ProviderTypeOK'
  <2>1. Redeemable(codes[code], client, redirect) => codes[code] \in Grant
    BY StoredGrant DEF Redeemable
  <2>2. CASE Redeemable(codes[code], client, redirect)
    <3>1. CodePresented(client, redirect) \in Presented
      BY DEF CodePresented, Presented, ProviderTypeOK
    <3>2. asked' \in [Requests -> Messages \cup Presented \cup {Absent}]
      BY <1>3, <2>2, <3>1 DEF CodeGrant, ProviderTypeOK
    <3> QED
      BY <1>3, <2>1, <2>2, <3>2 DEF CodeGrant, Hold, ProviderTypeOK
  <2>3. CASE ~Redeemable(codes[code], client, redirect)
    <3>1. End(r, Refused("invalid_grant"))
      BY <1>3, <2>3 DEF CodeGrant
    <3> QED
      BY <1>3, <2>3, <3>1, Ends, RefusedIs DEF CodeGrant, ProviderTypeOK, Errors
  <2> QED
    BY <2>2, <2>3
<1>4. ASSUME NEW r \in Requests, NEW handle \in Handles, NEW client \in Clients,
             RefreshGrant(r, handle, client)
      PROVE  ProviderTypeOK'
  <2>1. CASE refreshTokens[handle] # Absent /\ refreshTokens[handle].client = client
    <3>1. refreshTokens[handle] \in Chain
      BY <2>1 DEF ProviderTypeOK
    <3>2. TokenPresented(client) \in Presented
      BY DEF TokenPresented, Presented
    <3>3. asked' \in [Requests -> Messages \cup Presented \cup {Absent}]
      BY <1>4, <2>1, <3>2 DEF RefreshGrant, ProviderTypeOK
    <3> QED
      BY <1>4, <2>1, <3>1, <3>3 DEF RefreshGrant, Hold, ProviderTypeOK
  <2>2. CASE ~(refreshTokens[handle] # Absent /\ refreshTokens[handle].client = client)
    <3>1. End(r, Refused("invalid_grant"))
      BY <1>4, <2>2 DEF RefreshGrant
    <3> QED
      BY <1>4, <2>2, <3>1, Ends, RefusedIs DEF RefreshGrant, ProviderTypeOK, Errors
  <2> QED
    BY <2>1, <2>2
<1>5. ASSUME NEW r \in Requests, Digest(r) PROVE ProviderTypeOK'
  <2>1. ChainOf(held[r]) \in Chain
    BY <1>5, ChainOfGrant DEF Digest, HeldInv
  <2>2. CASE proof[r] = held[r].challenge
    BY <1>5, <2>1, <2>2 DEF Digest, Hold, ProviderTypeOK, storeVars
  <2>3. CASE proof[r] # held[r].challenge
    <3>1. End(r, Refused("invalid_grant"))
      BY <1>5, <2>3 DEF Digest
    <3> QED
      BY <1>5, <3>1, Ends, RefusedIs DEF Digest, ProviderTypeOK, Errors, storeVars
  <2> QED
    BY <2>2, <2>3
<1>6. ASSUME NEW r \in Requests, Issue(r) PROVE ProviderTypeOK'
  <2> DEFINE a == [Granted(UserTokens(held[r])) EXCEPT !.refresh = issued', !.code = held[r].code]
  <2>1. issued' = issued + 1 /\ issued' \in Handles /\ issued' \in 0..MaxHandles
    BY <1>6, NextHandle, BoundAssumption DEF Issue, Handles
  <2>2. held[r] \in Chain /\ Renewal(held[r]) \in Chain
    BY <1>6, RenewalOfChain DEF Issue, HeldInv
  <2>3. IsAnswer(a)
    BY <2>1, <2>2, IssuedAnswer
  <2>4. End(r, a)
    BY <1>6 DEF Issue
  <2> HIDE DEF a
  <2>5. refreshTokens' \in [Handles -> Chain \cup {Absent}]
    BY <1>6, <2>1, <2>2 DEF Issue, ProviderTypeOK
  <2> QED
    BY <1>6, <2>1, <2>3, <2>4, <2>5, Ends DEF Issue, ProviderTypeOK
<1>7. ASSUME NEW r \in Requests, Abort(r) PROVE ProviderTypeOK'
  BY <1>7, Ends, NobodyIs DEF Abort, ProviderTypeOK, storeVars
<1>8. ASSUME NEW r \in Requests, Close(r) PROVE ProviderTypeOK'
  <2>1. DOMAIN answer' = Requests /\ \A s \in Requests : IsAnswer(answer'[s])
    BY <1>8, NobodyIs DEF Close, ProviderTypeOK
  <2> QED
    BY <1>8, <2>1 DEF Close, ProviderTypeOK, storeVars
<1>9. ASSUME NEW r \in Requests, NEW message \in Messages, ServiceGrant(r, message)
      PROVE  ProviderTypeOK'
  BY <1>9, Ends, ServiceAnswerIs DEF ServiceGrant, ProviderTypeOK, storeVars
<1>10. ASSUME NEW r \in Requests, Malformed(r) PROVE ProviderTypeOK'
  BY <1>10, Ends, RefusedIs DEF Malformed, ProviderTypeOK, storeVars, Errors
<1>11. ASSUME NEW r \in Requests, ApiKey(r) PROVE ProviderTypeOK'
  BY <1>11, Ends, OwnTokensAre DEF ApiKey, ProviderTypeOK, storeVars
<1>12. CASE UNCHANGED providerVars
  BY <1>12 DEF ProviderTypeOK, providerVars, storeVars, tokenVars
<1> QED
  BY <1>1, <1>2, <1>3, <1>4, <1>5, <1>6, <1>7, <1>8, <1>9, <1>10, <1>11, <1>12 DEF ProviderNext

------------------------------------------------------------------------------
(* The rest of the invariant, action by action.                             *)

Kept == HeldInv' /\ MintedInv' /\ AuthorizedInv' /\ AnsweredInv' /\ Apart'

\* What is held or stored as a refresh token names a code.
LEMMA HeldCode ==
    ASSUME ProviderTypeOK, NEW r \in Requests, held[r] # Absent
    PROVE  held[r].code \in Codes
  BY DEF ProviderTypeOK, Grant, Chain

LEMMA LiveCode ==
    ASSUME ProviderTypeOK, NEW h \in Handles, refreshTokens[h] # Absent
    PROVE  refreshTokens[h].code \in Codes
  BY DEF ProviderTypeOK, Chain

\* Numbers of codes and refresh tokens are integers.
LEMMA Numbers ==
    ASSUME ProviderTypeOK
    PROVE  minted \in Int /\ issued \in Int /\ Codes \subseteq Int /\ Handles \subseteq Int
  BY BoundAssumption DEF ProviderTypeOK, Codes, Handles

\* Answers that stay, and answers without a refresh token, keep AnsweredInv.
LEMMA AnsweredStays ==
    ASSUME Inv, minted' \in Int, minted <= minted',
           \A r \in Requests :
              \/ answer'[r].refresh = 0
              \/ /\ at'[r] = at[r] /\ answer'[r] = answer[r]
                 /\ proof'[r] = proof[r] /\ asked'[r] = asked[r],
           \A c \in Codes : c <= minted => authorized'[c] = authorized[c]
    PROVE  AnsweredInv'
<1>1. ASSUME NEW r \in Requests, answer'[r].refresh # 0
      PROVE  /\ at'[r] = "done" /\ answer'[r].code \in Codes /\ answer'[r].code <= minted'
             /\ authorized'[answer'[r].code] = authorized[answer[r].code]
             /\ answer'[r] = answer[r] /\ answer[r].refresh # 0
             /\ proof'[r] = proof[r] /\ asked'[r] = asked[r]
  BY <1>1, Numbers DEF Inv, AnsweredInv
<1>2. TokensTellTheGrant'
  BY <1>1 DEF Inv, AnsweredInv, TokensTellTheGrant
<1>3. OnlyTheProverIsPaid'
  BY <1>1 DEF Inv, AnsweredInv, OnlyTheProverIsPaid
<1> QED
  BY <1>1, <1>2, <1>3 DEF AnsweredInv

\* A fresh code: nothing old is under its number.
LEMMA AuthorizeStep ==
    ASSUME Inv, NEW ask \in Asks, Authorize(ask)
    PROVE  Kept
<1> USE DEF Inv
<1> DEFINE n == minted + 1
           g == Pend(n, ask)
<1>1. minted' = n /\ n \in Codes
  BY NextCode DEF Authorize
<1>2. g \in Grant
  BY <1>1, NewGrant
<1>3. g # Absent /\ g.code = n
  BY <1>2, AbsentApart DEF Pend
<1>4. codes' = [codes EXCEPT ![n] = g] /\ authorized' = [authorized EXCEPT ![n] = g]
  BY <1>1 DEF Authorize
<1>5. UNCHANGED <<refreshTokens, issued, tokenVars>>
  BY DEF Authorize
<1> USE DEF tokenVars
<1> HIDE DEF n, g
<1>6. /\ codes'[n] = g /\ authorized'[n] = g
      /\ \A c \in Codes \ {n} : codes'[c] = codes[c] /\ authorized'[c] = authorized[c]
  BY <1>1, <1>4 DEF ProviderTypeOK
<1>7. n \in Int /\ n > minted /\ minted \in Int
  BY Numbers DEF n
<1>8. \A r \in Requests : held[r] # Absent => held[r].code \in Codes /\ held[r].code # n
  BY <1>7, HeldCode, Numbers DEF MintedInv
<1>9. \A h \in Handles : refreshTokens[h] # Absent
         => refreshTokens[h].code \in Codes /\ refreshTokens[h].code # n
  BY <1>7, LiveCode, Numbers DEF MintedInv
<1>10. HeldInv'
  BY <1>5 DEF HeldInv
<1>11. MintedInv'
  <2>1. ASSUME NEW c \in Codes, codes'[c] # Absent PROVE codes'[c].code = c /\ c <= minted'
    BY <1>1, <1>3, <1>6, <1>7, <2>1, Numbers DEF MintedInv
  <2>2. \A r \in Requests : held[r] # Absent => held[r].code <= minted'
    BY <1>1, <1>7, <1>8, Numbers DEF MintedInv, n
  <2>3. \A h \in Handles : refreshTokens[h] # Absent => refreshTokens[h].code <= minted'
    BY <1>1, <1>7, <1>9, Numbers DEF MintedInv, n
  <2> QED
    BY <1>5, <2>1, <2>2, <2>3 DEF MintedInv
<1>12. AuthorizedInv'
  BY <1>5, <1>6, <1>8, <1>9, AbsentApart DEF AuthorizedInv, Came, Owed, HeldInv
<1>13. Apart'
  BY <1>5, <1>6, <1>8, <1>9 DEF Apart
<1>14. AnsweredInv'
  BY <1>1, <1>5, <1>6, <1>7, Numbers, AnsweredStays DEF n
<1> QED
  BY <1>10, <1>11, <1>12, <1>13, <1>14 DEF Kept

\* A request that ends without tokens: what it held, if anything, is lost.
LEMMA EndStep ==
    ASSUME Inv, NEW r \in Requests, NEW result, End(r, result),
           IsAnswer(result), result.refresh = 0,
           UNCHANGED <<refreshTokens, minted, issued, authorized>>,
           codes' \in [Codes -> Grant \cup {Absent}],
           \A c \in Codes : codes'[c] \in {codes[c], Absent},
           \A s \in Requests \ {r} : proof'[s] = proof[s] /\ asked'[s] = asked[s]
    PROVE  Kept
<1> USE DEF Inv
<1>1. /\ at'[r] = "done" /\ held'[r] = Absent /\ answer'[r] = result
      /\ \A s \in Requests \ {r} :
            at'[s] = at[s] /\ held'[s] = held[s] /\ answer'[s] = answer[s]
  BY Ends
<1>2. HeldInv'
  BY <1>1 DEF HeldInv
<1>3. MintedInv'
  BY <1>1 DEF MintedInv
<1>4. AuthorizedInv'
  BY <1>1 DEF AuthorizedInv, Owed, Came
<1>5. Apart'
  BY <1>1, HeldCode, LiveCode DEF Apart
<1>6. AnsweredInv'
  BY <1>1, Numbers, AnsweredStays
<1> QED
  BY <1>2, <1>3, <1>4, <1>5, <1>6 DEF Kept

\* The code leaves the store with the request that presents it.
LEMMA CodeGrantStep ==
    ASSUME Inv, NEW r \in Requests, NEW code \in Codes, NEW client \in Clients,
           NEW redirect \in Redirects, NEW v \in Verifiers,
           CodeGrant(r, code, client, redirect, v)
    PROVE  Kept
<1> USE DEF Inv
<1>1. codes' = [codes EXCEPT ![code] = Absent] /\ proof' = [proof EXCEPT ![r] = v]
  BY DEF CodeGrant
<1>2. UNCHANGED <<refreshTokens, minted, issued, authorized>> /\ at[r] = "idle"
  BY DEF CodeGrant
<1>3. /\ codes'[code] = Absent
      /\ \A c \in Codes \ {code} : codes'[c] = codes[c]
      /\ codes' \in [Codes -> Grant \cup {Absent}]
      /\ proof'[r] = v /\ \A s \in Requests \ {r} : proof'[s] = proof[s]
  BY <1>1 DEF ProviderTypeOK
<1>4. CASE Redeemable(codes[code], client, redirect)
  <2> DEFINE g == codes[code]
  <2>1. /\ g # Absent /\ g \in Grant /\ g.code = code /\ code <= minted
        /\ g = authorized[code]
        /\ g.client = client /\ g.redirect = redirect /\ clock <= g.expires
    BY <1>4, StoredGrant DEF Redeemable, MintedInv, AuthorizedInv
  <2>2. /\ at'[r] = "digest" /\ held'[r] = g /\ answer' = answer
        /\ \A s \in Requests \ {r} : at'[s] = at[s] /\ held'[s] = held[s]
    BY <1>4 DEF CodeGrant, Hold, ProviderTypeOK
  <2>9. /\ asked'[r] = CodePresented(client, redirect)
        /\ \A s \in Requests \ {r} : asked'[s] = asked[s]
    BY <1>4 DEF CodeGrant, ProviderTypeOK
  <2>10. asked'[r].client = client /\ asked'[r].redirect = redirect /\ asked'[r].when = clock
    BY <2>9 DEF CodePresented
  <2> HIDE DEF g
  <2>3. HeldInv'
    BY <1>3, <2>1, <2>2 DEF HeldInv
  <2>4. MintedInv'
    BY <1>2, <1>3, <2>1, <2>2 DEF MintedInv
  <2>5. AuthorizedInv'
    BY <1>2, <1>3, <2>1, <2>2, <2>9, <2>10 DEF AuthorizedInv, Owed, Came
  <2>6. Apart'
    <3>1. \A s \in Requests \ {r} : held[s] # Absent => held[s].code # code
      BY <2>1 DEF Apart, g
    <3>2. \A h \in Handles : refreshTokens[h] # Absent => refreshTokens[h].code # code
      BY <2>1 DEF Apart, g
    <3> QED
      BY <1>2, <1>3, <2>1, <2>2, <3>1, <3>2, HeldCode, LiveCode DEF Apart
  <2>7. answer[r].refresh = 0
    BY <1>2 DEF AnsweredInv
  <2>8. AnsweredInv'
    BY <1>2, <1>3, <2>2, <2>7, <2>9, Numbers, AnsweredStays
  <2> QED
    BY <2>3, <2>4, <2>5, <2>6, <2>8 DEF Kept
<1>5. CASE ~Redeemable(codes[code], client, redirect)
  <2>1. End(r, Refused("invalid_grant")) /\ UNCHANGED asked
    BY <1>5 DEF CodeGrant
  <2> QED
    BY <1>2, <1>3, <2>1, EndStep, RefusedIs DEF Errors
<1> QED
  BY <1>4, <1>5

\* The refresh token leaves the store with the request that presents it.
LEMMA RefreshGrantStep ==
    ASSUME Inv, NEW r \in Requests, NEW handle \in Handles, NEW client \in Clients,
           RefreshGrant(r, handle, client)
    PROVE  Kept
<1> USE DEF Inv
<1>1. UNCHANGED <<codes, minted, issued, authorized, proof>> /\ at[r] = "idle"
  BY DEF RefreshGrant
<1>2. CASE refreshTokens[handle] # Absent /\ refreshTokens[handle].client = client
  <2> DEFINE g == refreshTokens[handle]
  <2>1. /\ g # Absent /\ g \in Chain /\ g.code \in Codes /\ g.code <= minted
        /\ g.client = authorized[g.code].client /\ codes[g.code] = Absent
        /\ g.scope = authorized[g.code].scope /\ g.nonce = NoNonce /\ g.client = client
    BY <1>2, LiveCode DEF ProviderTypeOK, MintedInv, AuthorizedInv, Apart
  <2>2. /\ at'[r] = "issue" /\ held'[r] = g /\ answer' = answer
        /\ \A s \in Requests \ {r} : at'[s] = at[s] /\ held'[s] = held[s]
    BY <1>2 DEF RefreshGrant, Hold, ProviderTypeOK
  <2>3. /\ refreshTokens'[handle] = Absent
        /\ \A h \in Handles \ {handle} : refreshTokens'[h] = refreshTokens[h]
    BY <1>2 DEF RefreshGrant, ProviderTypeOK
  <2>4. proof[r] = NoProof
    BY <1>1 DEF HeldInv
  <2>13. asked'[r].client = client /\ \A s \in Requests \ {r} : asked'[s] = asked[s]
    BY <1>2 DEF RefreshGrant, TokenPresented, ProviderTypeOK
  <2>5. \A s \in Requests \ {r} : held[s] # Absent => held[s].code # g.code
    BY <2>1 DEF Apart
  <2>6. \A h \in Handles \ {handle} :
           refreshTokens[h] # Absent => refreshTokens[h].code # g.code
    BY <2>1 DEF Apart
  <2> HIDE DEF g
  <2>7. HeldInv'
    BY <1>1, <2>1, <2>2 DEF HeldInv
  <2>8. MintedInv'
    BY <1>1, <2>1, <2>2, <2>3 DEF MintedInv
  <2>9. AuthorizedInv'
    <3>1. \A s \in Requests : at'[s] \in {"digest", "issue"} => Came(s, authorized[held[s].code])'
      BY <1>1, <2>1, <2>2, <2>4, <2>13 DEF AuthorizedInv, Came
    <3>2. ASSUME NEW s \in Requests \ {r}, at'[s] = "issue"
          PROVE  Owed(s, authorized[held[s].code])'
      BY <1>1, <2>2, <3>2 DEF AuthorizedInv, Owed
    <3>3. Owed(r, authorized[held[r].code])'
      BY <1>1, <2>1, <2>2, <2>4 DEF Owed
    <3> QED
      BY <1>1, <2>1, <2>2, <2>3, <3>1, <3>2, <3>3 DEF AuthorizedInv
  <2>10. Apart'
    BY <1>1, <2>1, <2>2, <2>3, <2>5, <2>6 DEF Apart
  <2>11. answer[r].refresh = 0
    BY <1>1 DEF AnsweredInv
  <2>12. AnsweredInv'
    BY <1>1, <2>2, <2>11, <2>13, Numbers, AnsweredStays
  <2> QED
    BY <2>7, <2>8, <2>9, <2>10, <2>12 DEF Kept
<1>3. CASE ~(refreshTokens[handle] # Absent /\ refreshTokens[handle].client = client)
  <2>1. End(r, Refused("invalid_grant")) /\ UNCHANGED <<refreshTokens, asked>>
    BY <1>3 DEF RefreshGrant
  <2> QED
    BY <1>1, <2>1, EndStep, RefusedIs DEF ProviderTypeOK, Errors
<1> QED
  BY <1>2, <1>3

\* The verifier was the one of the challenge, so the grant may pay.
LEMMA DigestStep ==
    ASSUME Inv, NEW r \in Requests, Digest(r)
    PROVE  Kept
<1> USE DEF Inv
<1>1. UNCHANGED <<codes, refreshTokens, minted, issued, authorized, proof, asked>> /\ at[r] = "digest"
  BY DEF Digest, storeVars
<1>2. CASE proof[r] = held[r].challenge
  <2> DEFINE g == ChainOf(held[r])
  <2>1. /\ held[r] \in Grant /\ held[r] # Absent /\ held[r] = authorized[held[r].code]
        /\ g \in Chain /\ g # Absent /\ held[r].challenge \in Verifiers
    BY <1>1, AbsentApart, ChainOfGrant DEF HeldInv, AuthorizedInv, Grant
  <2>2. /\ at'[r] = "issue" /\ held'[r] = g /\ answer' = answer
        /\ \A s \in Requests \ {r} : at'[s] = at[s] /\ held'[s] = held[s]
    BY <1>2 DEF Digest, Hold, ProviderTypeOK
  <2>3. /\ g.code = held[r].code /\ g.client = held[r].client
        /\ g.scope = held[r].scope /\ g.nonce = held[r].nonce
    BY DEF ChainOf
  <2> HIDE DEF g
  <2>4. HeldInv'
    BY <1>1, <2>1, <2>2 DEF HeldInv
  <2>5. MintedInv'
    BY <1>1, <2>1, <2>2, <2>3 DEF MintedInv
  <2>6. AuthorizedInv'
    BY <1>1, <1>2, <2>1, <2>2, <2>3, NameAssumption DEF AuthorizedInv, Owed, Came
  <2>7. Apart'
    BY <1>1, <2>1, <2>2, <2>3 DEF Apart
  <2>8. answer[r].refresh = 0
    BY <1>1 DEF AnsweredInv
  <2>9. AnsweredInv'
    BY <1>1, <2>2, <2>8, Numbers, AnsweredStays
  <2> QED
    BY <2>4, <2>5, <2>6, <2>7, <2>9 DEF Kept
<1>3. CASE proof[r] # held[r].challenge
  <2>1. End(r, Refused("invalid_grant"))
    BY <1>3 DEF Digest
  <2> QED
    BY <1>1, <2>1, EndStep, RefusedIs DEF ProviderTypeOK, Errors
<1> QED
  BY <1>2, <1>3

\* The credential passes from the request to the refresh token it issues.
LEMMA IssueStep ==
    ASSUME Inv, NEW r \in Requests, Issue(r)
    PROVE  Kept
<1> USE DEF Inv
<1> DEFINE g == held[r]
           n == issued + 1
           k == Renewal(g)
           a == [Granted(UserTokens(g)) EXCEPT !.refresh = n, !.code = g.code]
<1>1. /\ UNCHANGED <<codes, minted, authorized, proof, asked>> /\ at[r] = "issue" /\ issued' = n
      /\ End(r, a)
  BY DEF Issue
<1>2. n \in Handles /\ n \in Int /\ issued \in Int /\ n > issued
  BY NextHandle, Numbers DEF Issue
<1>3. /\ g \in Chain /\ g # Absent /\ g.code \in Codes /\ g.code <= minted
      /\ g.client = authorized[g.code].client /\ codes[g.code] = Absent
      /\ Owed(r, authorized[g.code]) /\ Came(r, authorized[g.code])
  BY <1>1, AbsentApart, HeldCode
     DEF HeldInv, MintedInv, AuthorizedInv, Owed, Apart
<1>4. IsAnswer(a)
  BY <1>2, <1>3, IssuedAnswer
<1>5. /\ at'[r] = "done" /\ held'[r] = Absent /\ answer'[r] = a
      /\ \A s \in Requests \ {r} :
            at'[s] = at[s] /\ held'[s] = held[s] /\ answer'[s] = answer[s]
  BY <1>1, <1>4, Ends
<1>6. /\ refreshTokens'[n] = k
      /\ \A h \in Handles \ {n} : refreshTokens'[h] = refreshTokens[h]
  BY <1>1, <1>2 DEF Issue, ProviderTypeOK
<1>7. /\ k # Absent /\ k.code = g.code /\ k.client = g.client
      /\ k.scope = g.scope /\ k.nonce = NoNonce
  BY <1>3, RenewalOfChain, AbsentApart
<1>8. \A s \in Requests \ {r} : held[s] # Absent => held[s].code # g.code
  BY <1>3 DEF Apart
<1>9. \A h \in Handles : refreshTokens[h] # Absent => refreshTokens[h].code # g.code
  BY <1>3 DEF Apart
<1>10. /\ a.tokens = UserTokens(g) /\ a.code = g.code
  BY DEF Granted, NoAnswer
<1> HIDE DEF k, a
<1>11. AnsweredInv'
  <2> DEFINE grant == authorized[g.code]
  <2>1. Tell(UserTokens(g), grant.client, grant.scope, g.nonce)
    BY <1>3, UserTokensSay DEF Owed
  <2>2. g.nonce = IF proof[r] = NoProof THEN NoNonce ELSE grant.nonce
    BY <1>3 DEF Owed
  <2>3. ASSUME NEW s \in Requests \ {r}, answer'[s].refresh # 0
        PROVE  answer[s].refresh # 0 /\ answer'[s] = answer[s] /\ at'[s] = at[s]
               /\ proof'[s] = proof[s] /\ asked'[s] = asked[s] /\ authorized' = authorized
    BY <1>1, <1>5, <2>3
  <2>4. TokensTellTheGrant'
    BY <1>1, <1>5, <1>10, <2>1, <2>2, <2>3 DEF AnsweredInv, TokensTellTheGrant
  <2>6. OnlyTheProverIsPaid'
    BY <1>1, <1>3, <1>5, <1>10, <2>3 DEF AnsweredInv, OnlyTheProverIsPaid, Owed, Came
  <2>5. at'[r] = "done" /\ answer'[r].code \in Codes /\ answer'[r].code <= minted'
    BY <1>1, <1>3, <1>5, <1>10
  <2> QED
    BY <1>1, <1>5, <2>4, <2>5, <2>6 DEF AnsweredInv
<1> HIDE DEF g, n
<1>12. HeldInv'
  BY <1>1, <1>5 DEF HeldInv
<1>13. MintedInv'
  <2>1. ASSUME NEW h \in Handles, refreshTokens'[h] # Absent
        PROVE  h <= issued' /\ refreshTokens'[h].code <= minted'
    BY <1>1, <1>2, <1>3, <1>6, <1>7, <2>1, Numbers DEF MintedInv
  <2> QED
    BY <1>1, <1>5, <2>1 DEF MintedInv
<1>14. AuthorizedInv'
  <2>1. k.client = authorized[k.code].client /\ k.scope = authorized[k.code].scope
    BY <1>3, <1>7 DEF Owed, g
  <2> QED
    BY <1>1, <1>5, <1>6, <1>7, <2>1 DEF AuthorizedInv, Owed, Came
<1>15. Apart'
  BY <1>1, <1>3, <1>5, <1>6, <1>7, <1>8, <1>9 DEF Apart
<1> QED
  BY <1>11, <1>12, <1>13, <1>14, <1>15 DEF Kept

\* What an aborted request held is lost.
LEMMA AbortStep ==
    ASSUME Inv, NEW r \in Requests, Abort(r)
    PROVE  Kept
  BY EndStep, NobodyIs DEF Inv, Abort, storeVars, ProviderTypeOK

\* The grants that hold nothing.
LEMMA ServiceStep ==
    ASSUME Inv, NEW r \in Requests, NEW message \in Messages, ServiceGrant(r, message)
    PROVE  Kept
  BY EndStep, ServiceAnswerIs DEF Inv, ServiceGrant, storeVars, ProviderTypeOK

LEMMA MalformedStep == ASSUME Inv, NEW r \in Requests, Malformed(r) PROVE Kept
  BY EndStep, RefusedIs DEF Inv, Malformed, storeVars, ProviderTypeOK, Errors

LEMMA ApiKeyStep == ASSUME Inv, NEW r \in Requests, ApiKey(r) PROVE Kept
  BY EndStep, OwnTokensAre DEF Inv, ApiKey, storeVars, ProviderTypeOK

\* A fiber that is done holds nothing, and starts afresh with no proof.
LEMMA CloseStep ==
    ASSUME Inv, NEW r \in Requests, Close(r)
    PROVE  Kept
<1> USE DEF Inv
<1>1. UNCHANGED <<codes, refreshTokens, minted, issued, authorized, held>> /\ at[r] = "done"
  BY DEF Close, storeVars
<1>2. /\ at'[r] = "idle" /\ proof'[r] = NoProof /\ answer'[r] = NoAnswer
      /\ \A s \in Requests \ {r} :
            /\ at'[s] = at[s] /\ proof'[s] = proof[s]
            /\ asked'[s] = asked[s] /\ answer'[s] = answer[s]
  BY DEF Close, ProviderTypeOK
<1>3. HeldInv' /\ AuthorizedInv'
  BY <1>1, <1>2 DEF HeldInv, AuthorizedInv, Owed, Came
<1>4. MintedInv' /\ Apart'
  BY <1>1 DEF MintedInv, Apart
<1>5. AnsweredInv'
  BY <1>1, <1>2, NobodyIs, Numbers, AnsweredStays
<1> QED
  BY <1>3, <1>4, <1>5 DEF Kept

------------------------------------------------------------------------------
(* Invariance and the theorems.                                             *)

\* Every step keeps the invariant.
LEMMA InvStep == ASSUME Inv, [ProviderNext]_providerVars PROVE Inv'
<1>1. ASSUME Pass \/ UNCHANGED providerVars PROVE Kept
  <2>1. UNCHANGED <<storeVars, tokenVars>>
    BY <1>1 DEF Pass, providerVars
  <2>2. HeldInv' /\ MintedInv'
    BY <2>1 DEF Inv, storeVars, tokenVars, HeldInv, MintedInv
  <2>3. AuthorizedInv'
    BY <2>1 DEF Inv, storeVars, tokenVars, AuthorizedInv, Owed, Came
  <2>4. Apart'
    BY <2>1 DEF Inv, storeVars, tokenVars, Apart
  <2>5. AnsweredInv'
    BY <2>1, Numbers, AnsweredStays DEF Inv, storeVars, tokenVars
  <2> QED
    BY <2>2, <2>3, <2>4, <2>5 DEF Kept
<1>2. ASSUME NEW ask \in Asks, Authorize(ask) PROVE Kept
  BY <1>2, AuthorizeStep
<1>3. ASSUME NEW r \in Requests, RequestStep(r) PROVE Kept
  BY <1>3, CodeGrantStep, RefreshGrantStep, DigestStep, IssueStep, AbortStep, CloseStep,
     ServiceStep, MalformedStep, ApiKeyStep
     DEF RequestStep
<1>4. Kept
  BY <1>1, <1>2, <1>3 DEF ProviderNext, RequestStep
<1> QED
  BY <1>4, TypeStep DEF Inv, Kept

\* What the pairs of places say is OneLiveCredential.
LEMMA InvImplies == ASSUME Inv PROVE OneLiveCredential
  BY DEF Inv, Apart, OneLiveCredential, Waiting, Taken, Live

LEMMA Invariance == ProviderSpec => []Inv
  BY InvInit, InvStep, PTL DEF ProviderSpec

\* Every variable of the provider keeps its type: a code or a refresh token
\* that is stored or held is a whole one.
THEOREM ProviderTypeCorrect == ProviderSpec => []ProviderTypeOK
<1>1. Inv => ProviderTypeOK
  BY DEF Inv
<1> QED
  BY <1>1, Invariance, PTL

\* Authorization codes are single-use and refresh tokens rotate: whatever
\* requests to the token endpoint overlap, a sign-in never has two credentials.
THEOREM OneCredentialPerSignIn == ProviderSpec => []OneLiveCredential
  BY InvImplies, Invariance, PTL

\* Whoever presents a code or a refresh token and is paid is the client the
\* sign-in's code was authorized for; with a code it came in time, to the code's
\* redirect uri and with the verifier of its challenge.
THEOREM OnlyProversArePaid == ProviderSpec => []OnlyTheProverIsPaid
<1>1. Inv => OnlyTheProverIsPaid
  BY DEF Inv, AnsweredInv
<1> QED
  BY <1>1, Invariance, PTL

\* Every answer with a refresh token carries what was authorized, no less and
\* no more, and the sign-in's nonce in the tokens of its code alone.
THEOREM TokensSayWhatWasGranted == ProviderSpec => []TokensTellTheGrant
<1>1. Inv => TokensTellTheGrant
  BY DEF Inv, AnsweredInv
<1> QED
  BY <1>1, Invariance, PTL

------------------------------------------------------------------------------
(* Induction over the positions of a sequence.                              *)

\* A set of positions that has the first, and with every position the next,
\* has them all.
LEMMA AllPositions ==
    ASSUME NEW N \in Nat, NEW S, 0 \in S, \A n \in 0..(N - 1) : n \in S => n + 1 \in S
    PROVE  0..N \subseteq S
<1> DEFINE Out == {n \in 0..N : n \notin S}
<1> SUFFICES ASSUME Out # {} PROVE FALSE
  OBVIOUS
<1>1. Out \in SUBSET Nat
  OBVIOUS
<1>2. PICK n \in Out : \A m \in Out : n <= m
  <2> HIDE DEF Out
  <2> QED
    BY <1>1, FirstOf
<1>3. n # 0 /\ n - 1 \in 0..(N - 1) /\ n - 1 \notin Out
  BY <1>2
<1> QED
  BY <1>2, <1>3

\* A function may be defined by recursion on the positions of a sequence.
IsStep(step, T, N) == \A t \in T, n \in 1..N : step[t][n] \in T
IsFold(f, T, N, base, step) ==
    /\ f \in [0..N -> T]
    /\ f[0] = base
    /\ \A n \in 1..N : f[n] = step[f[n - 1]][n]

LEMMA Recursion ==
    ASSUME NEW N \in Nat, NEW T, NEW base \in T, NEW step, IsStep(step, T, N)
    PROVE  \E f : IsFold(f, T, N, base, step)
<1> USE DEF IsStep
<1> DEFINE Upto(m) == {f \in [0..m -> T] :
                          \A n \in 0..m : f[n] = IF n = 0 THEN base ELSE step[f[n - 1]][n]}
           S == {m \in 0..N : Upto(m) # {}}
<1>1. 0 \in S
  <2>1. [n \in 0..0 |-> base] \in Upto(0)
    OBVIOUS
  <2> QED
    BY <2>1
<1>2. ASSUME NEW m \in 0..(N - 1), m \in S PROVE m + 1 \in S
  <2>1. PICK f : f \in Upto(m)
    BY <1>2
  <2> DEFINE g == [n \in 0..(m + 1) |-> IF n = m + 1 THEN step[f[m]][n] ELSE f[n]]
  <2>2. f \in [0..m -> T] /\ m + 1 \in 1..N
    BY <2>1
  <2>3. step[f[m]][m + 1] \in T
    BY <2>2
  <2>4. g \in [0..(m + 1) -> T]
    BY <2>2, <2>3
  <2>5. \A n \in 0..m : g[n] = f[n]
    OBVIOUS
  <2>6. ASSUME NEW n \in 0..(m + 1)
        PROVE  g[n] = IF n = 0 THEN base ELSE step[g[n - 1]][n]
    <3>1. CASE n = m + 1
      <4>1. g[n - 1] = f[m] /\ n # 0
        BY <3>1, <2>5
      <4> QED
        BY <3>1, <4>1
    <3>2. CASE n \in 0..m
      <4>1. g[n] = f[n] /\ (n # 0 => g[n - 1] = f[n - 1])
        BY <3>2, <2>5
      <4> HIDE DEF g
      <4> QED
        BY <3>2, <4>1, <2>1
    <3> QED
      BY <3>1, <3>2
  <2>7. g \in Upto(m + 1)
    <3> HIDE DEF g
    <3> QED
      BY <2>4, <2>6
  <2> HIDE DEF Upto
  <2> QED
    BY <2>7
<1>3. N \in S
  <2> HIDE DEF S
  <2>1. 0..N \subseteq S
    BY <1>1, <1>2, AllPositions
  <2> QED
    BY <2>1
<1>4. PICK f : f \in Upto(N)
  BY <1>3
<1>5. f \in [0..N -> T]
  BY <1>4
<1>6. \A n \in 0..N : f[n] = IF n = 0 THEN base ELSE step[f[n - 1]][n]
  BY <1>4
<1>7. f[0] = base
  <2>1. 0 \in 0..N
    OBVIOUS
  <2> QED
    BY <1>6, <2>1
<1>8. \A n \in 1..N : f[n] = step[f[n - 1]][n]
  BY <1>6
<1> HIDE DEF Upto, S
<1> QED
  BY <1>5, <1>7, <1>8 DEF IsFold

\* What satisfies the equation of a recursion takes its values in T.
LEMMA FoldIs ==
    ASSUME NEW N \in Nat, NEW T, NEW base \in T, NEW step, IsStep(step, T, N), NEW f,
           f = [n \in 0..N |-> f[n]], f[0] = base,
           \A n \in 1..N : f[n - 1] \in T => f[n] = step[f[n - 1]][n]
    PROVE  IsFold(f, T, N, base, step)
<1> DEFINE Ok == {n \in 0..N : f[n] \in T}
<1>1. 0 \in Ok
  OBVIOUS
<1>2. ASSUME NEW n \in 0..(N - 1), n \in Ok PROVE n + 1 \in Ok
  <2>1. n + 1 \in 1..N /\ n + 1 \in 0..N /\ (n + 1) - 1 = n /\ f[n] \in T
    BY <1>2
  <2>2. f[n + 1] = step[f[n]][n + 1]
    BY <2>1
  <2> QED
    BY <2>1, <2>2 DEF IsStep
<1>3. 0..N \subseteq Ok
  <2> HIDE DEF Ok
  <2> QED
    BY <1>1, <1>2, AllPositions
<1>4. \A n \in 0..N : f[n] \in T
  BY <1>3
<1>5. \A n \in 1..N : n - 1 \in 0..N
  OBVIOUS
<1> QED
  BY <1>4, <1>5 DEF IsFold

------------------------------------------------------------------------------
LEMMA HexIs == /\ Hex(":") = "3A" /\ Hex("%") = "25" /\ Hex(" ") = "20"
               /\ Digits = {"3A", "25", "20"}
               /\ \A c \in Reserved : Hex(c) \in Digits /\ CharOf(Hex(c)) = c
<1>1. Hex(":") = "3A" /\ Hex("%") = "25" /\ Hex(" ") = "20"
  BY DEF Hex
<1>2. Digits = {"3A", "25", "20"}
  BY <1>1 DEF Digits, Reserved
<1>3. \A c, d \in Reserved : Hex(c) = Hex(d) => c = d
  BY <1>1 DEF Reserved
<1> QED
  BY <1>1, <1>2, <1>3 DEF CharOf, Reserved

\* The pieces of texts.

LEMMA EscapedIs ==
    ASSUME NEW S, NEW c \in S, Digits \subseteq S, Reserved \subseteq S
    PROVE  /\ Escaped(c) \in Seq(S)
           /\ \A i \in 1..Len(Escaped(c)) : Escaped(c)[i] # ":"
<1>1. CASE c \in Reserved
  <2>1. Hex(c) \in S /\ "%" \in S /\ Hex(c) # ":"
    BY <1>1, HexIs DEF Reserved
  <2>2. Escaped(c) = <<"%", Hex(c)>>
    BY <1>1 DEF Escaped
  <2> QED
    BY <2>1, <2>2
<1>2. CASE c \notin Reserved
  <2>1. Escaped(c) = <<c>> /\ c # ":"
    BY <1>2 DEF Escaped, Reserved
  <2> QED
    BY <2>1
<1> QED
  BY <1>1, <1>2

\* Facts about sequences.
Joins(u, s, t) ==
    /\ Len(s) \in Nat /\ Len(t) \in Nat /\ Len(u) = Len(s) + Len(t)
    /\ \A i \in 1..Len(s) : u[i] = s[i]
    /\ \A i \in 1..Len(t) : u[Len(s) + i] = t[i]

LEMMA JoinedIs ==
    ASSUME NEW S, NEW s \in Seq(S), NEW t \in Seq(S)
    PROVE  s \o t \in Seq(S) /\ Joins(s \o t, s, t)
  BY DEF Joins

LEMMA Longer ==
    ASSUME NEW S, NEW s \in Seq(S), NEW n \in 0..(Len(s) - 1)
    PROVE  Append(SubSeq(s, 1, n), s[n + 1]) = SubSeq(s, 1, n + 1)
  OBVIOUS

LEMMA WholeIs == ASSUME NEW S, NEW s \in Seq(S) PROVE SubSeq(s, 1, Len(s)) = s /\ SubSeq(s, 1, 0) = <<>>
  OBVIOUS

\* encodeURIComponent, piece by piece.
LEMMA EncodingIs ==
    ASSUME NEW S, Digits \subseteq S, Reserved \subseteq S, NEW text \in Seq(S)
    PROVE  /\ Encoding(text)[0] = <<>>
           /\ \A n \in 0..Len(text) : Encoding(text)[n] \in Seq(S)
           /\ \A n \in 1..Len(text) :
                 Encoding(text)[n] = Encoding(text)[n - 1] \o Escaped(text[n])
<1> DEFINE N == Len(text)
           T == Seq(S)
           step == [s \in T |-> [n \in 1..N |-> s \o Escaped(text[n])]]
           e == Encoding(text)
<1>1. N \in Nat /\ <<>> \in T /\ 0 \in 0..N
  OBVIOUS
<1>2. \A s \in T, n \in 1..N : s \o Escaped(text[n]) \in T
  <2> TAKE s \in T, n \in 1..N
  <2>1. s \in Seq(S) /\ Escaped(text[n]) \in Seq(S)
    BY EscapedIs
  <2> QED
    BY <2>1, JoinedIs
<1> HIDE DEF N, T
<1>3. \A s \in T, n \in 1..N : step[s][n] = s \o Escaped(text[n])
  OBVIOUS
<1> HIDE DEF step, e
<1>4. IsStep(step, T, N)
  BY <1>2, <1>3 DEF IsStep
<1>5. PICK f : IsFold(f, T, N, <<>>, step)
  BY <1>1, <1>4, Recursion
<1>6. f = [n \in 0..N |-> IF n = 0 THEN <<>> ELSE f[n - 1] \o Escaped(text[n])]
  <2>1. ASSUME NEW n \in 0..N, n # 0 PROVE f[n] = f[n - 1] \o Escaped(text[n])
    <3>1. n \in 1..N /\ n - 1 \in 0..N
      BY <1>1, <2>1
    <3> QED
      BY <1>3, <1>5, <3>1 DEF IsFold
  <2> QED
    BY <1>5, <2>1 DEF IsFold
<1>7. e = [n \in 0..N |-> IF n = 0 THEN <<>> ELSE e[n - 1] \o Escaped(text[n])]
  BY <1>6 DEF e, Encoding, N
<1>8. e[0] = <<>> /\ e = [n \in 0..N |-> e[n]]
  BY <1>1, <1>7
<1>9. \A n \in 1..N : e[n] = e[n - 1] \o Escaped(text[n])
  BY <1>1, <1>7
<1>10. IsFold(e, T, N, <<>>, step)
  BY <1>1, <1>3, <1>4, <1>8, <1>9, FoldIs
<1> QED
  BY <1>9, <1>10 DEF IsFold, e, N, T

------------------------------------------------------------------------------
Done(S) == [text : Seq(S), escape : BOOLEAN, ok : BOOLEAN]

LEMMA ReadIs ==
    ASSUME NEW S, Reserved \subseteq S, NEW c \in S, NEW done \in Done(S)
    PROVE  Read(done, c) \in Done(S)
<1>1. Append(done.text, c) \in Seq(S) /\ done.text \in Seq(S)
  BY DEF Done
<1>2. c \in Digits => Append(done.text, CharOf(c)) \in Seq(S)
  <2>1. \A d \in Reserved : CharOf(Hex(d)) \in S
    BY HexIs
  <2>2. c \in Digits => CharOf(c) \in S
    BY <2>1 DEF Digits
  <2> QED
    BY <1>1, <2>2
<1>3. CASE done.escape
  BY <1>1, <1>2, <1>3 DEF Read, Done
<1>4. CASE ~done.escape
  BY <1>1, <1>4 DEF Read, Done
<1> QED
  BY <1>3, <1>4

\* decodeURIComponent, piece by piece.
LEMMA DecodingIs ==
    ASSUME NEW S, Reserved \subseteq S, NEW text \in Seq(S)
    PROVE  /\ Decoding(text)[0] = NothingRead
           /\ \A n \in 0..Len(text) : Decoding(text)[n] \in Done(S)
           /\ \A n \in 1..Len(text) : Decoding(text)[n] = Read(Decoding(text)[n - 1], text[n])
<1> DEFINE N == Len(text)
           T == Done(S)
           step == [s \in T |-> [n \in 1..N |-> Read(s, text[n])]]
           e == Decoding(text)
<1>1. N \in Nat /\ NothingRead \in T /\ 0 \in 0..N
  BY DEF NothingRead, Done
<1>2. \A s \in T, n \in 1..N : Read(s, text[n]) \in T
  BY ReadIs
<1> HIDE DEF N, T
<1>3. \A s \in T, n \in 1..N : step[s][n] = Read(s, text[n])
  OBVIOUS
<1> HIDE DEF step, e
<1>4. IsStep(step, T, N)
  BY <1>2, <1>3 DEF IsStep
<1>5. PICK f : IsFold(f, T, N, NothingRead, step)
  BY <1>1, <1>4, Recursion
<1>6. f = [n \in 0..N |-> IF n = 0 THEN NothingRead ELSE Read(f[n - 1], text[n])]
  <2>1. ASSUME NEW n \in 0..N, n # 0 PROVE f[n] = Read(f[n - 1], text[n])
    <3>1. n \in 1..N /\ n - 1 \in 0..N
      BY <1>1, <2>1
    <3> QED
      BY <1>3, <1>5, <3>1 DEF IsFold
  <2> QED
    BY <1>5, <2>1 DEF IsFold
<1>7. e = [n \in 0..N |-> IF n = 0 THEN NothingRead ELSE Read(e[n - 1], text[n])]
  BY <1>6 DEF e, Decoding, N
<1>8. e[0] = NothingRead /\ e = [n \in 0..N |-> e[n]]
  BY <1>1, <1>7
<1>9. \A n \in 1..N : e[n] = Read(e[n - 1], text[n])
  BY <1>1, <1>7
<1>10. IsFold(e, T, N, NothingRead, step)
  BY <1>1, <1>3, <1>4, <1>8, <1>9, FoldIs
<1> QED
  BY <1>9, <1>10 DEF IsFold, e, N, T

------------------------------------------------------------------------------
\* What has been written stays written.
Begins(s, u) == Len(s) <= Len(u) /\ \A i \in 1..Len(s) : u[i] = s[i]

LEMMA EncodingGrows ==
    ASSUME NEW S, Digits \subseteq S, Reserved \subseteq S, NEW text \in Seq(S)
    PROVE  \A n \in 0..Len(text) : Begins(Encoding(text)[n], EncodeURIComponent(text))
<1> DEFINE N == Len(text)
           e == Encoding(text)
           Ok == {m \in 0..N : \A n \in 0..m : Begins(e[n], e[m])}
<1>1. N \in Nat
  OBVIOUS
<1>2. /\ \A n \in 0..N : e[n] \in Seq(S)
      /\ \A n \in 1..N : e[n] = e[n - 1] \o Escaped(text[n]) /\ Escaped(text[n]) \in Seq(S)
  <2>1. \A n \in 1..N : Escaped(text[n]) \in Seq(S)
    BY EscapedIs
  <2> QED
    BY <2>1, EncodingIs
<1>3. \A s, t, u \in Seq(S) : Joins(u, s, t) => Begins(s, u)
  BY DEF Joins, Begins
<1>4. \A s, t, u \in Seq(S) : Begins(s, t) /\ Begins(t, u) => Begins(s, u)
  BY DEF Begins
<1>5. \A s \in Seq(S) : Begins(s, s)
  BY DEF Begins
<1> HIDE DEF N, e
<1>6. 0 \in Ok
  BY <1>1, <1>2, <1>5
<1>7. ASSUME NEW m \in 0..(N - 1), m \in Ok PROVE m + 1 \in Ok
  <2>1. m + 1 \in 1..N /\ m + 1 \in 0..N /\ m \in 0..N /\ (m + 1) - 1 = m
    BY <1>1
  <2>2. e[m + 1] = e[m] \o Escaped(text[m + 1]) /\ Escaped(text[m + 1]) \in Seq(S)
    BY <1>2, <2>1
  <2>3. e[m] \in Seq(S) /\ e[m + 1] \in Seq(S)
    BY <1>2, <2>1
  <2>4. Joins(e[m + 1], e[m], Escaped(text[m + 1]))
    BY <2>2, <2>3, JoinedIs
  <2>5. Begins(e[m], e[m + 1])
    BY <1>3, <2>2, <2>3, <2>4
  <2>6. ASSUME NEW n \in 0..m PROVE Begins(e[n], e[m + 1])
    <3>1. Begins(e[n], e[m])
      BY <1>7
    <3>2. n \in 0..N
      BY <1>1, <2>1
    <3>3. e[n] \in Seq(S)
      BY <1>2, <3>2
    <3> QED
      BY <1>4, <2>3, <2>5, <3>1, <3>3
  <2>7. \A n \in 0..(m + 1) : n \in 0..m \/ n = m + 1
    BY <2>1
  <2> QED
    BY <1>5, <2>1, <2>3, <2>6, <2>7
<1>8. 0..N \subseteq Ok
  <2> HIDE DEF Ok
  <2> QED
    BY <1>1, <1>6, <1>7, AllPositions
<1>9. \A n \in 0..N : Begins(e[n], e[N])
  BY <1>1, <1>8
<1> QED
  BY <1>9 DEF N, e, EncodeURIComponent

\* What decodeURIComponent has read of the first n pieces of a text.
So(text, n) == [text |-> SubSeq(text, 1, n), escape |-> FALSE, ok |-> TRUE]

Reads(d, code) == \A i \in 1..Len(code) : d[i] = Read(d[i - 1], code[i])
HasRead(d, part, text, n) == d[Len(part)] = So(text, n)

\* It reads the escape of a piece as that piece.
LEMMA ReadEscaped ==
    ASSUME NEW S, NEW text \in Seq(S), NEW n \in Nat, n + 1 \in 1..Len(text),
           NEW before, NEW part, NEW code, NEW d,
           Joins(part, before, Escaped(text[n + 1])),
           Len(code) \in Nat, Begins(part, code), Reads(d, code), HasRead(d, before, text, n)
    PROVE  HasRead(d, part, text, n + 1)
<1> USE DEF HasRead
<1> PICK c : c = text[n + 1]
  OBVIOUS
<1> PICK p : p = Len(before)
  OBVIOUS
<1> PICK x : x = Escaped(c)
  OBVIOUS
<1>1. /\ p \in Nat /\ Len(x) \in Nat /\ Len(part) = p + Len(x)
      /\ \A i \in 1..Len(x) : part[p + i] = x[i]
  BY DEF Joins
<1>2. So(text, n + 1) = [text |-> Append(SubSeq(text, 1, n), c), escape |-> FALSE, ok |-> TRUE]
  <2>1. n \in 0..(Len(text) - 1)
    OBVIOUS
  <2> QED
    BY <2>1, Longer DEF So
<1>3. CASE c \in Reserved
  <2>1. Len(x) = 2 /\ x[1] = "%" /\ x[2] = Hex(c)
    BY <1>3 DEF Escaped
  <2>2. Len(part) = p + 2 /\ part[p + 1] = "%" /\ part[p + 2] = Hex(c)
    BY <1>1, <2>1
  <2>3. p + 1 \in 1..Len(part) /\ p + 2 \in 1..Len(part) /\ (p + 1) - 1 = p /\ (p + 2) - 1 = p + 1
    BY <1>1, <2>2
  <2>4. p + 1 \in 1..Len(code) /\ p + 2 \in 1..Len(code)
    BY <1>1, <2>2 DEF Begins
  <2>5. code[p + 1] = "%" /\ code[p + 2] = Hex(c)
    BY <2>2, <2>3 DEF Begins
  <2>6. d[p + 1] = Read(So(text, n), "%") /\ d[p + 2] = Read(d[p + 1], Hex(c))
    BY <2>3, <2>4, <2>5 DEF Reads
  <2>7. Read(So(text, n), "%") = [text |-> SubSeq(text, 1, n), escape |-> TRUE, ok |-> TRUE]
    BY DEF Read, So
  <2>8. Hex(c) \in Digits /\ CharOf(Hex(c)) = c
    BY <1>3, HexIs
  <2>9. Read(Read(So(text, n), "%"), Hex(c)) = So(text, n + 1)
    BY <1>2, <2>7, <2>8 DEF Read
  <2> QED
    BY <2>2, <2>6, <2>9
<1>4. CASE c \notin Reserved
  <2>1. Len(x) = 1 /\ x[1] = c /\ c # "%"
    BY <1>4 DEF Escaped, Reserved
  <2>2. Len(part) = p + 1 /\ part[p + 1] = c
    BY <1>1, <2>1
  <2>3. p + 1 \in 1..Len(part) /\ p + 1 \in 1..Len(code) /\ (p + 1) - 1 = p
    BY <1>1, <2>2 DEF Begins
  <2>4. d[p + 1] = Read(So(text, n), c)
    BY <2>2, <2>3 DEF Begins, Reads
  <2>5. Read(So(text, n), c) = So(text, n + 1)
    BY <1>2, <2>1 DEF Read, So
  <2> QED
    BY <2>2, <2>4, <2>5
<1> QED
  BY <1>3, <1>4

\* What is read back of it is what was there to be written.
THEOREM RoundTrip ==
    ASSUME NEW S, Digits \subseteq S, Reserved \subseteq S, NEW text \in Seq(S)
    PROVE  DecodeURIComponent(EncodeURIComponent(text)) = [text |-> text, ok |-> TRUE]
<1> DEFINE N == Len(text)
           e == Encoding(text)
           code == EncodeURIComponent(text)
           d == Decoding(code)
           Ok == {n \in 0..N : d[Len(e[n])] = So(text, n)}
<1>1. N \in Nat /\ 0 \in 0..N /\ N \in 0..N
  OBVIOUS
<1>2. /\ e[0] = <<>>
      /\ \A n \in 0..N : e[n] \in Seq(S)
      /\ \A n \in 1..N : e[n] = e[n - 1] \o Escaped(text[n])
  BY EncodingIs
<1>3. code = e[N] /\ code \in Seq(S)
  BY <1>1, <1>2 DEF EncodeURIComponent
<1>4. d[0] = NothingRead /\ Reads(d, code)
  BY <1>3, DecodingIs DEF Reads
<1>5. \A n \in 0..N : Begins(e[n], code)
  BY EncodingGrows
<1>6. So(text, 0) = NothingRead
  BY WholeIs DEF NothingRead, So
<1>7. Len(code) \in Nat
  <2> HIDE DEF code
  <2> QED
    BY <1>3
<1> HIDE DEF e, code, d
<1>8. 0 \in Ok
  BY <1>1, <1>2, <1>4, <1>6
<1>9. ASSUME NEW n \in 0..(N - 1), n \in Ok PROVE n + 1 \in Ok
  <2>1. n + 1 \in 1..N /\ n + 1 \in 0..N /\ n \in 0..N /\ (n + 1) - 1 = n
    BY <1>1
  <2>2. text[n + 1] \in S
    BY <2>1
  <2>3. Escaped(text[n + 1]) \in Seq(S)
    BY <2>2, EscapedIs
  <2>4. e[n + 1] = e[n] \o Escaped(text[n + 1]) /\ e[n] \in Seq(S)
    BY <1>2, <2>1
  <2>5. Joins(e[n + 1], e[n], Escaped(text[n + 1]))
    BY <2>3, <2>4, JoinedIs
  <2>6. Begins(e[n + 1], code)
    BY <1>5, <2>1
  <2>7. d[Len(e[n])] = So(text, n)
    BY <1>9
  <2>8. d[Len(e[n + 1])] = So(text, n + 1)
    <3>1. n \in Nat /\ n + 1 \in 1..Len(text)
      BY <2>1
    <3> HIDE DEF N, Ok
    <3>2. HasRead(d, e[n], text, n)
      BY <2>7 DEF HasRead
    <3>3. HasRead(d, e[n + 1], text, n + 1)
      BY <1>4, <1>7, <2>5, <2>6, <3>1, <3>2, ReadEscaped
    <3> QED
      BY <3>3 DEF HasRead
  <2> QED
    BY <2>1, <2>8
<1>10. 0..N \subseteq Ok
  <2> HIDE DEF Ok
  <2> QED
    BY <1>1, <1>8, <1>9, AllPositions
<1>11. d[Len(code)] = [text |-> text, escape |-> FALSE, ok |-> TRUE]
  <2>1. So(text, N) = [text |-> text, escape |-> FALSE, ok |-> TRUE]
    BY WholeIs DEF So
  <2> QED
    BY <1>1, <1>3, <1>10, <2>1
<1>12. DecodeURIComponent(code) = [text |-> text, ok |-> TRUE]
  <2> DEFINE end == d[Len(code)]
  <2>1. DecodeURIComponent(code) = [text |-> end.text, ok |-> end.ok /\ ~end.escape]
    BY DEF DecodeURIComponent, d
  <2>2. end.text = text /\ end.ok = TRUE /\ end.escape = FALSE
    BY <1>11
  <2> HIDE DEF end
  <2> QED
    BY <2>1, <2>2
<1> QED
  BY <1>12 DEF code

\* No colon is written.
Clean(s) == \A i \in 1..Len(s) : s[i] # ":"

LEMMA CleanJoins ==
    ASSUME NEW s, NEW t, NEW u, Joins(u, s, t), Clean(s), Clean(t)
    PROVE  Clean(u)
<1> SUFFICES ASSUME NEW i \in 1..Len(u) PROVE u[i] # ":"
  BY DEF Clean
<1>1. i \in 1..Len(s) \/ i - Len(s) \in 1..Len(t)
  BY DEF Joins
<1>2. CASE i \in 1..Len(s)
  BY <1>2 DEF Joins, Clean
<1>3. CASE i - Len(s) \in 1..Len(t)
  <2>1. u[Len(s) + (i - Len(s))] = t[i - Len(s)]
    BY <1>3 DEF Joins
  <2>2. Len(s) + (i - Len(s)) = i
    BY DEF Joins
  <2> QED
    BY <1>3, <2>1, <2>2 DEF Clean
<1> QED
  BY <1>1, <1>2, <1>3

LEMMA NoColon ==
    ASSUME NEW S, Digits \subseteq S, Reserved \subseteq S, NEW text \in Seq(S)
    PROVE  LET code == EncodeURIComponent(text)
           IN code \in Seq(S) /\ Clean(code)
<1> DEFINE N == Len(text)
           e == Encoding(text)
           Ok == {n \in 0..N : Clean(e[n])}
<1>1. N \in Nat /\ 0 \in 0..N
  OBVIOUS
<1>2. /\ e[0] = <<>>
      /\ \A n \in 0..N : e[n] \in Seq(S)
      /\ \A n \in 1..N : e[n] = e[n - 1] \o Escaped(text[n])
  BY EncodingIs
<1>3. \A n \in 1..N : Escaped(text[n]) \in Seq(S) /\ Clean(Escaped(text[n]))
  BY EscapedIs DEF Clean
<1>5. Clean(<<>>)
  BY DEF Clean
<1> HIDE DEF N, e
<1>6. 0 \in Ok
  BY <1>1, <1>2, <1>5
<1>7. ASSUME NEW n \in 0..(N - 1), n \in Ok PROVE n + 1 \in Ok
  <2>1. n + 1 \in 1..N /\ n + 1 \in 0..N /\ n \in 0..N /\ (n + 1) - 1 = n
    BY <1>1
  <2>2. e[n + 1] = e[n] \o Escaped(text[n + 1]) /\ e[n] \in Seq(S) /\ e[n + 1] \in Seq(S)
    BY <1>2, <2>1
  <2>3. Escaped(text[n + 1]) \in Seq(S) /\ Clean(Escaped(text[n + 1]))
    BY <1>3, <2>1
  <2>4. Joins(e[n + 1], e[n], Escaped(text[n + 1]))
    BY <2>2, <2>3, JoinedIs
  <2>5. Clean(e[n])
    BY <1>7
  <2>6. Clean(e[n + 1])
    BY <2>3, <2>4, <2>5, CleanJoins
  <2> QED
    BY <2>1, <2>6
<1>8. 0..N \subseteq Ok
  <2> HIDE DEF Ok
  <2> QED
    BY <1>1, <1>6, <1>7, AllPositions
<1>9. Clean(e[N]) /\ e[N] \in Seq(S)
  BY <1>1, <1>2, <1>8
<1> QED
  BY <1>9 DEF N, e, EncodeURIComponent

LEMMA MinIs == ASSUME NEW T \in SUBSET Nat, NEW n \in T, \A i \in T : n <= i PROVE Min(T) = n
<1>1. Min(T) \in T /\ \A i \in T : Min(T) <= i
  BY DEF Min
<1>2. Min(T) <= n /\ n <= Min(T) /\ n \in Nat /\ Min(T) \in Nat
  BY <1>1
<1> QED
  BY <1>2

LEMMA AroundColon ==
    ASSUME NEW S, ":" \in S, NEW a \in Seq(S), NEW b \in Seq(S), Clean(a)
    PROVE  LET text == a \o <<":">> \o b
               colons == {i \in DOMAIN text : text[i] = ":"}
           IN /\ colons # {}
              /\ SubSeq(text, 1, Min(colons) - 1) = a
              /\ SubSeq(text, Min(colons) + 1, Len(text)) = b
<1> DEFINE text == a \o <<":">> \o b
           colons == {i \in DOMAIN text : text[i] = ":"}
           n == Len(a) + 1
<1>1. /\ text \in Seq(S) /\ Len(text) = n + Len(b) /\ text[n] = ":"
      /\ \A i \in 1..Len(a) : text[i] = a[i]
      /\ \A i \in 1..Len(b) : text[n + i] = b[i]
      /\ n \in Nat /\ Len(b) \in Nat
  OBVIOUS
<1>2. n \in colons /\ colons \subseteq Nat
  BY <1>1
<1>3. \A i \in colons : n <= i
  BY <1>1 DEF Clean
<1>4. Min(colons) = n
  <2> HIDE DEF colons, n
  <2> QED
    BY <1>2, <1>3, MinIs
<1>5. SubSeq(text, 1, n - 1) = a
  OBVIOUS
<1>6. SubSeq(text, n + 1, Len(text)) = b
  OBVIOUS
<1> QED
  BY <1>2, <1>4, <1>5, <1>6

LEMMA HeaderIsUnderstood ==
    ASSUME NEW S, Digits \subseteq S, Reserved \subseteq S,
           NEW id \in Seq(S), NEW secret \in Seq(S), NEW scope
    PROVE  ClientAuthentication(ExchangeClientCredentials(id, secret, scope))
              = <<[id |-> id, secret |-> <<secret>>]>>
<1> DEFINE a == EncodeURIComponent(id)
           b == EncodeURIComponent(secret)
           text == a \o <<":">> \o b
           colons == {i \in DOMAIN text : text[i] = ":"}
           request == ExchangeClientCredentials(id, secret, scope)
<1>1. /\ a \in Seq(S) /\ b \in Seq(S) /\ Clean(a)
  BY NoColon
<1>2. /\ DecodeURIComponent(a) = [text |-> id, ok |-> TRUE]
      /\ DecodeURIComponent(b) = [text |-> secret, ok |-> TRUE]
  BY RoundTrip
<1>3. ":" \in S
  BY DEF Reserved
<1> HIDE DEF a, b
<1>4. /\ colons # {}
      /\ SubSeq(text, 1, Min(colons) - 1) = a
      /\ SubSeq(text, Min(colons) + 1, Len(text)) = b
  BY <1>1, <1>3, AroundColon
<1>5. /\ request.header = <<[scheme |-> "Basic", garbled |-> FALSE, text |-> text]>>
      /\ request.secret = <<>>
  BY DEF ExchangeClientCredentials, Request, Basic, a, b
<1> HIDE DEF text, request
<1>6. /\ request.header # <<>> /\ request.header[1].scheme = "Basic"
      /\ request.header[1].text = text /\ request.header[1].garbled = FALSE
  BY <1>5
<1>7. ClientAuthentication(request) = <<[id |-> id, secret |-> <<secret>>]>>
  <2> HIDE DEF colons
  <2>1. DecodeURIComponent(a).ok = TRUE /\ DecodeURIComponent(b).ok = TRUE
    BY <1>2
  <2>2. DecodeURIComponent(a).text = id /\ DecodeURIComponent(b).text = secret
    BY <1>2
  <2> QED
    BY <1>4, <1>5, <1>6, <2>1, <2>2 DEF ClientAuthentication, colons
<1> QED
  BY <1>7 DEF request

------------------------------------------------------------------------------
(* Who a request is answered as.                                            *)

\* Whether a request is from the registered service.
Known(message) ==
    ClientAuthentication(message) = <<[id |-> Service.id, secret |-> <<Service.secret>>]>>

\* A request of the client credentials grant is refused as nobody's, or known.
AskedInv ==
    \A r \in Requests : asked[r] \in Messages =>
        at[r] = "done" /\ (answer[r].status = "invalid_client" <=> ~Known(asked[r]))

LEMMA RefusedUnlessKnown ==
    ASSUME NEW message
    PROVE  ServiceAnswer(message).status = "invalid_client" <=> ~Known(message)
<1>1. \A error : Refused(error).status = error
  BY DEF Refused, NoAnswer
<1>2. \A tokens : Granted(tokens).status = "ok"
  BY DEF Granted, NoAnswer
<1>3. CASE Known(message)
  <2>1. ServiceAnswer(message).status \in {"invalid_scope", "ok"}
    BY <1>1, <1>2, <1>3 DEF ServiceAnswer, Known
  <2> QED
    BY <1>3, <2>1
<1>4. CASE ~Known(message)
  BY <1>1, <1>4 DEF ServiceAnswer, Known
<1> QED
  BY <1>3, <1>4

\* What presents a code or a refresh token is no request of this grant.
LEMMA PresentedApart ==
    /\ \A client, redirect : CodePresented(client, redirect) \notin Messages
    /\ \A client : TokenPresented(client) \notin Messages
    /\ Absent \notin Messages
<1>1. \A message \in Messages : "secret" \in DOMAIN message
  BY MessageAssumption
<1>2. \A client, redirect : "secret" \notin DOMAIN CodePresented(client, redirect)
  BY DEF CodePresented
<1>3. \A client : "secret" \notin DOMAIN TokenPresented(client)
  BY DEF TokenPresented
<1>4. "secret" \notin DOMAIN Absent
  BY DEF Absent
<1> QED
  BY <1>1, <1>2, <1>3, <1>4

LEMMA AskedStep ==
    ASSUME ProviderTypeOK, AskedInv, [ProviderNext]_providerVars PROVE AskedInv'
<1>0. DOMAIN at = Requests /\ DOMAIN asked = Requests /\ DOMAIN answer = Requests
  BY DEF ProviderTypeOK
<1>1. ASSUME NEW r \in Requests, RequestStep(r), NEW s \in Requests, asked'[s] \in Messages
      PROVE  at'[s] = "done" /\ (answer'[s].status = "invalid_client" <=> ~Known(asked'[s]))
  <2>1. CASE s # r
    <3>1. asked'[s] = asked[s] /\ at'[s] = at[s] /\ answer'[s] = answer[s]
      BY <1>0, <1>1, <2>1
         DEF RequestStep, CodeGrant, RefreshGrant, Digest, Issue, Abort, Close, ServiceGrant,
             Malformed, ApiKey, Hold, End
    <3> QED
      BY <1>1, <3>1 DEF AskedInv
  <2>2. CASE s = r /\ \E message \in Messages : ServiceGrant(r, message)
    <3>1. PICK message \in Messages : ServiceGrant(r, message)
      BY <2>2
    <3>2. at'[r] = "done" /\ asked'[r] = message /\ answer'[r] = ServiceAnswer(message)
      BY <1>0, <3>1 DEF ServiceGrant, End
    <3>3. ServiceAnswer(message).status = "invalid_client" <=> ~Known(message)
      BY RefusedUnlessKnown
    <3> QED
      BY <2>2, <3>2, <3>3 DEF Known
  <2>3. CASE s = r /\ Close(r)
    BY <1>0, <1>1, <2>3, PresentedApart DEF Close
  <2>5. ASSUME s = r,
               \/ \E client, redirect : asked' = [asked EXCEPT ![r] = CodePresented(client, redirect)]
               \/ \E client : asked' = [asked EXCEPT ![r] = TokenPresented(client)]
        PROVE  FALSE
    BY <1>0, <1>1, <2>5, PresentedApart
  <2>6. CASE s = r /\ \E code \in Codes, client \in Clients, redirect \in Redirects, v \in Verifiers :
                         CodeGrant(r, code, client, redirect, v)
    BY <1>1, <2>5, <2>6 DEF CodeGrant, AskedInv
  <2>7. CASE s = r /\ \E handle \in Handles, client \in Clients : RefreshGrant(r, handle, client)
    BY <1>1, <2>5, <2>7 DEF RefreshGrant, AskedInv
  <2>4. CASE s = r /\ at[r] # "done" /\ asked' = asked
    BY <1>1, <2>4 DEF AskedInv
  <2> QED
    BY <1>1, <2>1, <2>2, <2>3, <2>4, <2>6, <2>7
       DEF RequestStep, Digest, Issue, Abort, Malformed, ApiKey
<1>2. CASE UNCHANGED tokenVars
  BY <1>2 DEF tokenVars, AskedInv
<1>3. CASE \E r \in Requests : RequestStep(r)
  BY <1>1, <1>3 DEF AskedInv
<1> QED
  BY <1>2, <1>3 DEF ProviderNext, RequestStep, Pass, Authorize, providerVars

\* Two ways at once are none.
LEMMA BothAreNone ==
    ASSUME NEW message \in Messages, message.secret # <<>>,
           \E method \in Range(message.header) : method.scheme = "Basic"
    PROVE  ~Known(message)
<1>1. message.header # <<>> /\ message.header[1].scheme = "Basic"
  BY MessageAssumption DEF Range
<1>2. ClientAuthentication(message) = <<>>
  BY <1>1 DEF ClientAuthentication
<1> QED
  BY <1>2 DEF Known

\* Whatever characters an id and a secret are made of, a service is known by
\* its own and by no other.
THEOREM ServicesAreKnown == ProviderSpec => []ServiceIsKnown
<1>1. ProviderInit => AskedInv
  BY PresentedApart DEF ProviderInit, AskedInv
<1>2. ProviderTypeOK /\ AskedInv /\ [ProviderNext]_providerVars => AskedInv'
  BY AskedStep
<1>3. ProviderTypeOK /\ AskedInv => ServiceIsKnown
  <2> SUFFICES ASSUME ProviderTypeOK, AskedInv, NEW r \in Requests, asked[r] \in Messages
               PROVE  /\ \A id, secret \in Texts :
                            asked[r] = ExchangeClientCredentials(id, secret, asked[r].scope)
                               => (answer[r].status # "invalid_client"
                                      <=> id = Service.id /\ secret = Service.secret)
                      /\ asked[r].secret # <<>>
                            /\ (\E method \in Range(asked[r].header) : method.scheme = "Basic")
                            => answer[r].status = "invalid_client"
    BY DEF ServiceIsKnown
  <2>1. asked[r] \in Messages /\ (answer[r].status = "invalid_client" <=> ~Known(asked[r]))
    BY DEF ProviderTypeOK, AskedInv
  <2>2. ASSUME NEW id \in Texts, NEW secret \in Texts,
               asked[r] = ExchangeClientCredentials(id, secret, asked[r].scope)
        PROVE  Known(asked[r]) <=> id = Service.id /\ secret = Service.secret
    <3> DEFINE S == Range(id) \cup Range(secret) \cup Digits \cup Reserved
    <3>1. id \in Seq(S) /\ secret \in Seq(S)
      BY TextAssumption
    <3> HIDE DEF S
    <3>2. Digits \subseteq S /\ Reserved \subseteq S
      BY DEF S
    <3>3. ClientAuthentication(asked[r]) = <<[id |-> id, secret |-> <<secret>>]>>
      BY <2>2, <3>1, <3>2, HeaderIsUnderstood
    <3> QED
      BY <3>3 DEF Known
  <2> QED
    BY <2>1, <2>2, BothAreNone
<1> QED
  BY <1>1, <1>2, <1>3, ProviderTypeCorrect, PTL DEF ProviderSpec

------------------------------------------------------------------------------
(* Who takes which token.                                                   *)

\* What every token the provider signs has in common.
IsSigned(token) ==
    /\ token.readable /\ token.strict /\ token.claims
    /\ token.alg = "ES256" /\ token.kid = ProviderKey.kid /\ token.signer = ProviderKey.id
    /\ token.iss = Issuer /\ token.exp \in Nat /\ token.nbf = 0 /\ token.azp = None

\* The two kinds of tokens there are.
IsAccessToken(token) ==
    /\ IsSigned(token) /\ token.typ = "at+jwt"
    /\ token.aud = {Api} /\ token.client # None /\ token.nonce = NoNonce
IsIdToken(token) ==
    /\ IsSigned(token) /\ token.typ = "JWT" /\ token.client = None
    /\ \E client \in Clients : token.aud = {client}

SignedInv ==
    \A r \in Requests : \A token \in answer[r].tokens : IsAccessToken(token) \/ IsIdToken(token)

\* The tokens of a sign-in are of the two kinds.
LEMMA UserTokensAre ==
    ASSUME NEW chain \in Chain, clock \in Nat, NEW token \in UserTokens(chain)
    PROVE  IsAccessToken(token) \/ IsIdToken(token)
<1> DEFINE access == IssueAccessToken(ProviderKey, Issuer, User, Api, chain.client, chain.scope,
                                      clock + TokenTtl)
           idToken == IssueIdToken(ProviderKey, Issuer, User, chain.client, chain.nonce,
                                   clock + TokenTtl)
<1>1. clock + TokenTtl \in Nat
  BY TtlAssumption
<1>2. chain.client \in Clients /\ chain.client # None
  BY AbsenceAssumption DEF Chain
<1>3. IsAccessToken(access)
  BY <1>1, <1>2 DEF IssueAccessToken, Sign, IsAccessToken, IsSigned, ProviderKey, SigningKey, Key
<1>4. IsIdToken(idToken)
  BY <1>1, <1>2 DEF IssueIdToken, Sign, IsIdToken, IsSigned, ProviderKey, SigningKey, Key
<1>5. token = access \/ token = idToken
  BY DEF UserTokens
<1> QED
  BY <1>3, <1>4, <1>5

\* Those of a client that stands for itself are access tokens.
LEMMA OwnTokensAreAccess ==
    ASSUME NEW client, client # None, NEW scope, NEW ttl \in Nat, clock \in Nat,
           NEW token \in OwnTokens(client, scope, ttl)
    PROVE  IsAccessToken(token)
<1>1. token = IssueAccessToken(ProviderKey, Issuer, client, Api, client, scope, clock + ttl)
  BY DEF OwnTokens
<1>2. clock + ttl \in Nat
  OBVIOUS
<1> QED
  BY <1>1, <1>2 DEF IssueAccessToken, Sign, IsAccessToken, IsSigned, ProviderKey, SigningKey, Key

\* Answers without tokens.
LEMMA NoTokens ==
    /\ \A error : Refused(error).tokens = {}
    /\ Nobody.tokens = {} /\ NoAnswer.tokens = {}
  BY DEF Refused, Nobody, NoAnswer

\* An answer to the client credentials grant has access tokens or none.
LEMMA ServiceTokensAre ==
    ASSUME clock \in Nat, NEW message, NEW token \in ServiceAnswer(message).tokens
    PROVE  IsAccessToken(token)
<1>1. PICK scope : token \in OwnTokens(Service.name, scope, TokenTtl)
  BY NoTokens DEF ServiceAnswer, Granted, NoAnswer
<1>2. Service.name # None /\ TokenTtl \in Nat
  BY AbsenceAssumption, TtlAssumption
<1> QED
  BY <1>1, <1>2, OwnTokensAreAccess

\* Every step hands out such tokens only.
LEMMA SignedStep == ASSUME Inv, SignedInv, [ProviderNext]_providerVars PROVE SignedInv'
<1>0. clock \in Nat /\ DOMAIN answer = Requests
  BY DEF Inv, ProviderTypeOK
<1>1. ASSUME NEW r \in Requests, NEW result, answer' = [answer EXCEPT ![r] = result],
             \A token \in result.tokens : IsAccessToken(token) \/ IsIdToken(token)
      PROVE  SignedInv'
  <2>1. \A s \in Requests : answer'[s] = answer[s] \/ answer'[s] = result
    BY <1>0, <1>1
  <2> QED
    BY <1>1, <2>1 DEF SignedInv
<1>2. CASE UNCHANGED answer
  BY <1>2 DEF SignedInv
<1>3. ASSUME NEW r \in Requests, RequestStep(r) PROVE SignedInv'
  <2>1. ASSUME NEW error, End(r, Refused(error)) PROVE SignedInv'
    BY <1>1, <2>1, NoTokens DEF End
  <2>2. CASE \E code \in Codes, client \in Clients, redirect \in Redirects, v \in Verifiers :
               CodeGrant(r, code, client, redirect, v)
    BY <1>2, <2>1, <2>2 DEF CodeGrant, Hold
  <2>3. CASE \E handle \in Handles, client \in Clients : RefreshGrant(r, handle, client)
    BY <1>2, <2>1, <2>3 DEF RefreshGrant, Hold
  <2>4. CASE Digest(r)
    BY <1>2, <2>1, <2>4 DEF Digest, Hold
  <2>5. CASE Issue(r)
    <3> DEFINE result == [Granted(UserTokens(held[r])) EXCEPT !.refresh = issued',
                                                              !.code = held[r].code]
    <3>1. held[r] \in Chain /\ End(r, result)
      BY <2>5 DEF Issue, Inv, HeldInv
    <3>2. result.tokens = UserTokens(held[r])
      BY DEF Granted, NoAnswer
    <3> HIDE DEF result
    <3> QED
      BY <1>0, <1>1, <3>1, <3>2, UserTokensAre DEF End
  <2>6. CASE Abort(r) \/ Close(r)
    BY <1>1, <2>6, NoTokens DEF Abort, Close, End
  <2>7. CASE \E message \in Messages : ServiceGrant(r, message)
    <3>1. PICK message \in Messages : ServiceGrant(r, message)
      BY <2>7
    <3>2. answer' = [answer EXCEPT ![r] = ServiceAnswer(message)]
      BY <3>1 DEF ServiceGrant, End
    <3> QED
      BY <1>0, <1>1, <3>2, ServiceTokensAre
  <2>8. CASE Malformed(r)
    BY <2>1, <2>8 DEF Malformed
  <2>9. CASE ApiKey(r)
    <3> DEFINE result == Granted(OwnTokens("robot-1", {"notes"}, KeyTtl))
    <3>1. answer' = [answer EXCEPT ![r] = result]
      BY <2>9 DEF ApiKey, End
    <3>2. result.tokens = OwnTokens("robot-1", {"notes"}, KeyTtl)
      BY DEF Granted, NoAnswer
    <3>3. "robot-1" # None /\ KeyTtl \in Nat
      BY TtlAssumption DEF None
    <3>4. \A token \in OwnTokens("robot-1", {"notes"}, KeyTtl) : IsAccessToken(token)
      BY <1>0, <3>3, OwnTokensAreAccess
    <3> HIDE DEF result
    <3> QED
      BY <1>1, <3>1, <3>2, <3>4
  <2> QED
    BY <1>3, <2>2, <2>3, <2>4, <2>5, <2>6, <2>7, <2>8, <2>9 DEF RequestStep
<1> QED
  BY <1>2, <1>3 DEF ProviderNext, RequestStep, Pass, Authorize, tokenVars, providerVars

\* Under the provider's one key a token of its own is judged by its type, its
\* audience and its age alone.
LEMMA SignedVerdict ==
    ASSUME NEW token, IsSigned(token), NEW t \in Nat, NEW options,
           options.issuer = Issuer,
           options.algorithms = {} \/ "ES256" \in options.algorithms
    PROVE  Verdict(token, {ProviderKey}, options, t) = "Ok" <=>
             /\ options.types = {} \/ token.typ \in options.types
             /\ t <= token.exp + Skew
             /\ options.audience = None \/ options.audience \in token.aud
<1>1. ProviderKey \in Candidates(token, {ProviderKey}) /\ ProviderKey.imports
  <2>1. /\ ProviderKey.use = "sig" /\ ProviderKey.alg = "ES256" /\ ProviderKey.verifies
        /\ ProviderKey.type = "P-256" /\ ProviderKey.decodes /\ ProviderKey.imports
    BY DEF ProviderKey, SigningKey, Key
  <2>2. KeyType("ES256") = "P-256"
    BY DEF KeyType, Family
  <2> QED
    BY <2>1, <2>2 DEF IsSigned, Candidates, IsCompatibleWith
<1>2. \E key \in {k \in Candidates(token, {ProviderKey}) : k.imports} : key.id = token.signer
  BY <1>1 DEF IsSigned
<1>3. token.nbf - Skew <= t
  BY SkewAssumption DEF IsSigned
<1> QED
  BY <1>2, <1>3, VerdictIsOk DEF IsSigned

\* So an access token is taken by the api and the revocation endpoint, an id
\* token by its client in its sign-in, and nothing by anybody else.
LEMMA ReadersAre ==
    ASSUME NEW token, IsAccessToken(token) \/ IsIdToken(token), NEW t \in Nat
    PROVE  LET live == t <= token.exp + Skew
               jwks == {ProviderKey}
               forApi == token.client # None
           IN /\ AccessTokenVerdict(token, jwks, Issuer, Api, t) = "Ok" <=> live /\ forApi
              /\ RevocationVerdict(token, jwks, Issuer, Api, t) = "Ok" <=> live /\ forApi
              /\ \A client \in Clients, nonce \in Nonces :
                    IdTokenVerdict(token, jwks, Issuer, client, nonce, t) = "Ok"
                       <=> live /\ token.aud = {client} /\ token.nonce = nonce
<1> DEFINE live == t <= token.exp + Skew
           forApi == token.client # None
           read(options) == Verdict(token, {ProviderKey}, options, t)
<1>1. IsSigned(token) /\ Api # None
  BY DEF IsAccessToken, IsIdToken, Api, None
<1>2. forApi <=> IsAccessToken(token)
  BY DEF IsAccessToken, IsIdToken
<1>3. Api \in token.aud <=> IsAccessToken(token)
  BY NameAssumption DEF IsAccessToken, IsIdToken
<1>4. AccessTokenVerdict(token, {ProviderKey}, Issuer, Api, t) = "Ok" <=> live /\ forApi
  <2> DEFINE options == [issuer |-> Issuer, audience |-> Api, algorithms |-> {"ES256"},
                         types |-> {"at+jwt"}]
  <2>1. /\ options.issuer = Issuer /\ "ES256" \in options.algorithms
        /\ options.types = {"at+jwt"} /\ options.audience = Api
    OBVIOUS
  <2>2. AccessTokenVerdict(token, {ProviderKey}, Issuer, Api, t) =
          IF read(options) = "Ok" /\ token.client = None THEN "BadClaims" ELSE read(options)
    BY DEF AccessTokenVerdict
  <2> HIDE DEF options
  <2>3. read(options) = "Ok" <=> token.typ = "at+jwt" /\ live /\ Api \in token.aud
    BY <1>1, <2>1, SignedVerdict
  <2>4. forApi => token.typ = "at+jwt"
    BY <1>2 DEF IsAccessToken
  <2> QED
    BY <1>2, <1>3, <2>2, <2>3, <2>4
<1>5. RevocationVerdict(token, {ProviderKey}, Issuer, Api, t) = "Ok" <=> live /\ forApi
  <2> DEFINE options == [issuer |-> Issuer, audience |-> Api, algorithms |-> {}, types |-> {}]
  <2>1. /\ options.issuer = Issuer /\ options.algorithms = {}
        /\ options.types = {} /\ options.audience = Api
    OBVIOUS
  <2>2. RevocationVerdict(token, {ProviderKey}, Issuer, Api, t) = read(options)
    BY DEF RevocationVerdict
  <2> HIDE DEF options
  <2>3. read(options) = "Ok" <=> live /\ Api \in token.aud
    BY <1>1, <2>1, SignedVerdict
  <2> QED
    BY <1>2, <1>3, <2>2, <2>3
<1>6. ASSUME NEW client \in Clients, NEW nonce \in Nonces
      PROVE  IdTokenVerdict(token, {ProviderKey}, Issuer, client, nonce, t) = "Ok"
                <=> live /\ token.aud = {client} /\ token.nonce = nonce
  <2> DEFINE options == [issuer |-> Issuer, audience |-> client,
                         algorithms |-> {"ES256", "RS256"}, types |-> {}]
  <2>1. /\ options.issuer = Issuer /\ "ES256" \in options.algorithms
        /\ options.types = {} /\ options.audience = client
    OBVIOUS
  <2>2. client # None /\ nonce # NoNonce
    BY AbsenceAssumption
  <2>3. PICK reader : token.aud = {reader}
    BY DEF IsAccessToken, IsIdToken
  <2>4. Cardinality(token.aud) = 1 /\ token.azp = None
    BY <1>1, <2>3, FS_Singleton DEF IsSigned
  <2>5. IdTokenVerdict(token, {ProviderKey}, Issuer, client, nonce, t) =
          IF read(options) # "Ok" THEN read(options)
          ELSE IF nonce \notin {NoNonce, token.nonce} THEN "BadSignature" ELSE "Ok"
    BY <2>4 DEF IdTokenVerdict
  <2> HIDE DEF options
  <2>6. read(options) = "Ok" <=> live /\ client \in token.aud
    BY <1>1, <2>1, <2>2, SignedVerdict
  <2>7. client \in token.aud <=> token.aud = {client}
    BY <2>3
  <2> QED
    BY <2>2, <2>5, <2>6, <2>7
<1> QED
  BY <1>4, <1>5, <1>6

\* As long as it lives a token is taken by those it is for and by no others,
\* though one key signs them all.
THEOREM TokensHaveOneKindOfReader == ProviderSpec => []EveryTokenHasItsReader
<1>1. ProviderInit => SignedInv
  BY NoTokens DEF ProviderInit, SignedInv
<1>2. Inv /\ SignedInv /\ [ProviderNext]_providerVars => SignedInv'
  BY SignedStep
<1>3. Inv /\ SignedInv => EveryTokenHasItsReader
  <2> SUFFICES ASSUME Inv, SignedInv PROVE EveryTokenHasItsReader
    OBVIOUS
  <2>1. clock \in Nat
    BY DEF Inv, ProviderTypeOK
  <2> QED
    BY <2>1, ReadersAre DEF SignedInv, EveryTokenHasItsReader
<1> QED
  BY <1>1, <1>2, <1>3, Invariance, PTL DEF ProviderSpec

------------------------------------------------------------------------------
(* Refinement of GrantLife.                                                 *)

\* What GrantLife calls a request that holds a grant.
Stage(r) == IF proof[r] = NoProof THEN "refreshing" ELSE "redeeming"

\* What is left of a sign-in is what is stored or held of it, if anything is.
LEMMA LeftIsCode ==
    \A c \in Codes : Inv /\ codes[c] # Absent => LeftOf(c) = {Left("code", codes[c])}
<1> SUFFICES ASSUME NEW c \in Codes, Inv, codes[c] # Absent
             PROVE  LeftOf(c) = {Left("code", codes[c])}
  OBVIOUS
<1>1. Waiting(c) /\ Taken(c) = {} /\ Live(c) = {}
  BY DEF Inv, Apart, Waiting, Taken, Live
<1> QED
  BY <1>1 DEF LeftOf

LEMMA LeftIsTaken ==
    \A r \in Requests :
        Inv /\ held[r] # Absent => LeftOf(held[r].code) = {Left(Stage(r), held[r])}
<1> SUFFICES ASSUME NEW r \in Requests, Inv, held[r] # Absent
             PROVE  LeftOf(held[r].code) = {Left(Stage(r), held[r])}
  OBVIOUS
<1>1. held[r].code \in Codes
  BY HeldCode DEF Inv
<1>2. ~Waiting(held[r].code) /\ Taken(held[r].code) = {r} /\ Live(held[r].code) = {}
  BY <1>1 DEF Inv, Apart, Waiting, Taken, Live
<1> QED
  BY <1>2 DEF LeftOf, Stage

LEMMA LeftIsLive ==
    \A h \in Handles :
        Inv /\ refreshTokens[h] # Absent
            => LeftOf(refreshTokens[h].code) = {Left("refreshable", refreshTokens[h])}
<1> SUFFICES ASSUME NEW h \in Handles, Inv, refreshTokens[h] # Absent
             PROVE  LeftOf(refreshTokens[h].code) = {Left("refreshable", refreshTokens[h])}
  OBVIOUS
<1>1. refreshTokens[h].code \in Codes
  BY LiveCode DEF Inv
<1>2. /\ ~Waiting(refreshTokens[h].code) /\ Taken(refreshTokens[h].code) = {}
      /\ Live(refreshTokens[h].code) = {h}
  BY <1>1 DEF Inv, Apart, Waiting, Taken, Live
<1> QED
  BY <1>2 DEF LeftOf

LEMMA LeftIsNothing == \A c \in Codes : Spent(c) => LeftOf(c) = {}
<1> SUFFICES ASSUME NEW c \in Codes, Spent(c) PROVE LeftOf(c) = {}
  OBVIOUS
<1>1. ~Waiting(c) /\ Taken(c) = {} /\ Live(c) = {}
  BY DEF Spent, Waiting, Taken, Live
<1> QED
  BY <1>1 DEF LeftOf

\* The same of the next state.
LEMMA LeftNext ==
    /\ \A c \in Codes : Inv' /\ codes'[c] # Absent => LeftOf(c)' = {Left("code", codes'[c])}
    /\ \A r \in Requests :
          Inv' /\ held'[r] # Absent => LeftOf(held[r].code)' = {Left(Stage(r), held[r])}'
    /\ \A h \in Handles :
          Inv' /\ refreshTokens'[h] # Absent
              => LeftOf(refreshTokens[h].code)' = {Left("refreshable", refreshTokens[h])}'
    /\ \A c \in Codes : Spent(c)' => LeftOf(c)' = {}
<1>1. (\A c \in Codes : Inv /\ codes[c] # Absent => LeftOf(c) = {Left("code", codes[c])})'
  BY LeftIsCode, PTL
<1>2. (\A r \in Requests :
          Inv /\ held[r] # Absent => LeftOf(held[r].code) = {Left(Stage(r), held[r])})'
  BY LeftIsTaken, PTL
<1>3. (\A h \in Handles :
          Inv /\ refreshTokens[h] # Absent
              => LeftOf(refreshTokens[h].code) = {Left("refreshable", refreshTokens[h])})'
  BY LeftIsLive, PTL
<1>4. (\A c \in Codes : Spent(c) => LeftOf(c) = {})'
  BY LeftIsNothing, PTL
<1> QED
  BY <1>1, <1>2, <1>3, <1>4

\* What a step leaves of a sign-in it does not touch.
Has(r, c) == held[r] # Absent /\ held[r].code = c
Names(h, c) == refreshTokens[h] # Absent /\ refreshTokens[h].code = c
Untouched(c) ==
    /\ codes'[c] = codes[c]
    /\ \A r \in Requests :
          /\ Has(r, c)' <=> Has(r, c)
          /\ Has(r, c) => Left(Stage(r), held[r])' = Left(Stage(r), held[r])
    /\ \A h \in Handles :
          /\ Names(h, c)' <=> Names(h, c)
          /\ Names(h, c) => refreshTokens'[h] = refreshTokens[h]

LEMMA SameLeft == ASSUME NEW c \in Codes, Untouched(c) PROVE LeftOf(c)' = LeftOf(c)
<1>1. {Left("code", codes[d]) : d \in {d \in {c} : Waiting(d)}}'
         = {Left("code", codes[d]) : d \in {d \in {c} : Waiting(d)}}
  BY DEF Untouched, Waiting
<1>2. Taken(c)' = Taken(c)
  BY DEF Untouched, Taken, Has
<1>3. \A r \in Taken(c) : Left(Stage(r), held[r])' = Left(Stage(r), held[r])
  BY DEF Untouched, Taken, Has
<1>4. {Left(Stage(r), held[r]) : r \in Taken(c)}' = {Left(Stage(r), held[r]) : r \in Taken(c)}
  BY <1>2, <1>3
<1>5. Live(c)' = Live(c)
  BY DEF Untouched, Live, Names
<1>6. \A h \in Live(c) : refreshTokens'[h] = refreshTokens[h]
  BY DEF Untouched, Live, Names
<1>7. {Left("refreshable", refreshTokens[h]) : h \in Live(c)}'
         = {Left("refreshable", refreshTokens[h]) : h \in Live(c)}
  BY <1>5, <1>6
<1> QED
  BY <1>1, <1>4, <1>7 DEF LeftOf, Stage

\* How GrantLife sees a step that takes the credential of one sign-in on, one
\* that loses it, and one that changes none.
LEMMA GoesOn ==
    ASSUME NEW c \in Codes, NEW from, NEW to, NEW g, NEW k, <<from, to>> \in Life!Passes,
           LeftOf(c) = {Left(from, g)}, LeftOf(c)' = {Left(to, k)},
           k.client = g.client, k.scope = g.scope,
           minted' = minted, \A d \in Codes \ {c} : LeftOf(d)' = LeftOf(d)
    PROVE  Life!Next
<1> DEFINE left == [d \in Codes |-> LeftOf(d)]
           credential == Left(from, g)
<1>1. to \in {"redeeming", "refreshing", "refreshable"}
  BY DEF Life!Passes
<1>2. credential.stage = from /\ Left(to, k) = [credential EXCEPT !.stage = to]
  BY DEF Left
<1>3. left[c] = {credential}
  OBVIOUS
<1> HIDE DEF credential
<1>4. left' = [left EXCEPT ![c] = {[credential EXCEPT !.stage = to]}]
  BY <1>2
<1>5. (1..minted)' = 1..minted
  OBVIOUS
<1>6. Life!GoOn(c, credential, to)
  BY <1>2, <1>3, <1>4, <1>5 DEF Life!GoOn
<1> QED
  BY <1>1, <1>3, <1>6 DEF Life!Next

LEMMA IsLost ==
    ASSUME NEW c \in Codes, NEW from \in Life!Losses, NEW g,
           LeftOf(c) = {Left(from, g)}, LeftOf(c)' = {},
           minted' = minted, \A d \in Codes \ {c} : LeftOf(d)' = LeftOf(d)
    PROVE  Life!Next
<1> DEFINE left == [d \in Codes |-> LeftOf(d)]
           credential == Left(from, g)
<1>1. credential.stage = from /\ left[c] = {credential}
  BY DEF Left
<1> HIDE DEF credential
<1>2. left' = [left EXCEPT ![c] = {}]
  OBVIOUS
<1>3. (1..minted)' = 1..minted
  OBVIOUS
<1>4. Life!Lose(c, credential)
  BY <1>1, <1>2, <1>3 DEF Life!Lose
<1> QED
  BY <1>1, <1>4 DEF Life!Next

LEMMA StaysTheSame ==
    ASSUME minted' = minted, \A d \in Codes : LeftOf(d)' = LeftOf(d)
    PROVE  UNCHANGED Life!lifeVars
  BY DEF Life!lifeVars

LifeStep == [Life!Next]_(Life!lifeVars)

\* The first credential of a sign-in is its code.
LEMMA AuthorizeLife == ASSUME Inv, Inv', NEW ask \in Asks, Authorize(ask) PROVE LifeStep
<1>1. PICK n \in Codes : n = minted + 1
  BY NextCode DEF Authorize, Inv
<1> DEFINE g == Pend(n, ask)
           left == [d \in Codes |-> LeftOf(d)]
<1>2. /\ minted' = n /\ codes' = [codes EXCEPT ![n] = g]
      /\ UNCHANGED <<refreshTokens, held, proof>>
  BY <1>1 DEF Authorize, tokenVars
<1>3. g \in Grant /\ g # Absent /\ g.client = ask.client /\ g.scope = ask.scope
  BY <1>2, NewGrant, AbsentApart DEF Inv, Pend
<1> HIDE DEF g
<1>4. codes'[n] = g /\ \A d \in Codes \ {n} : codes'[d] = codes[d]
  BY <1>2 DEF Inv, ProviderTypeOK
<1>5. LeftOf(n)' = {Left("code", g)}
  BY <1>2, <1>3, <1>4, LeftNext
<1>6. \A d \in Codes \ {n} : Untouched(d)
  BY <1>2, <1>4 DEF Untouched, Has, Names, Stage, Left
<1>7. \A d \in Codes \ {n} : LeftOf(d)' = LeftOf(d)
  BY <1>6, SameLeft
<1>8. left' = [left EXCEPT ![n] =
                  {[stage |-> "code", client |-> ask.client, scope |-> ask.scope]}]
  BY <1>2, <1>3, <1>5, <1>7 DEF Left
<1>9. minted \in Nat /\ n \notin 1..minted /\ 1..n = (1..minted) \cup {n}
  BY <1>1, BoundAssumption DEF Inv, ProviderTypeOK
<1>10. ask.client \in Clients /\ ask.scope \in SUBSET Scopes
  BY AskAssumption
<1>11. Life!Authorize(n, ask.client, ask.scope)
  BY <1>2, <1>8, <1>9 DEF Life!Authorize
<1> QED
  BY <1>2, <1>10, <1>11 DEF Life!Next, LifeStep

\* A request that ends without tokens loses what it held, and a code it has
\* taken out of the store.
LEMMA EndLife ==
    ASSUME Inv, Inv', NEW r \in Requests, NEW result, End(r, result), IsAnswer(result),
           UNCHANGED <<codes, refreshTokens, minted, proof>>
    PROVE  LifeStep
<1>1. held'[r] = Absent /\ \A s \in Requests \ {r} : held'[s] = held[s]
  BY Ends DEF Inv
<1>2. ASSUME NEW d \in Codes, ~Has(r, d) PROVE LeftOf(d)' = LeftOf(d)
  BY <1>1, <1>2, SameLeft DEF Untouched, Has, Names, Stage, Left
<1>3. CASE held[r] = Absent
  BY <1>2, <1>3, StaysTheSame DEF Has, LifeStep
<1>4. CASE held[r] # Absent
  <2>1. PICK c \in Codes : c = held[r].code
    BY <1>4, HeldCode DEF Inv
  <2>2. LeftOf(c) = {Left(Stage(r), held[r])}
    BY <1>4, <2>1, LeftIsTaken
  <2>3. /\ codes[c] = Absent
        /\ \A s \in Requests \ {r} : held[s] # Absent => held[s].code # c
        /\ \A h \in Handles : refreshTokens[h] # Absent => refreshTokens[h].code # c
    BY <1>4, <2>1 DEF Inv, Apart
  <2>4. Spent(c)'
    BY <1>1, <2>3 DEF Spent
  <2>5. LeftOf(c)' = {}
    BY <2>4, LeftNext
  <2>6. \A d \in Codes \ {c} : LeftOf(d)' = LeftOf(d)
    BY <1>2, <2>1 DEF Has
  <2>7. Stage(r) \in Life!Losses
    BY DEF Stage, Life!Losses
  <2> QED
    BY <2>2, <2>5, <2>6, <2>7, IsLost DEF LifeStep
<1> QED
  BY <1>3, <1>4

\* A code that fits goes to the request, one that does not is lost.
LEMMA CodeGrantLife ==
    ASSUME Inv, Inv', NEW r \in Requests, NEW code \in Codes, NEW client \in Clients,
           NEW redirect \in Redirects, NEW v \in Verifiers,
           CodeGrant(r, code, client, redirect, v)
    PROVE  LifeStep
<1>1. /\ UNCHANGED <<refreshTokens, minted>> /\ at[r] = "idle" /\ held[r] = Absent
      /\ codes' = [codes EXCEPT ![code] = Absent] /\ proof' = [proof EXCEPT ![r] = v]
  BY DEF CodeGrant, Inv, HeldInv
<1>2. /\ codes'[code] = Absent /\ \A d \in Codes \ {code} : codes'[d] = codes[d]
      /\ proof'[r] = v /\ v # NoProof /\ \A s \in Requests \ {r} : proof'[s] = proof[s]
  BY <1>1, NameAssumption DEF Inv, ProviderTypeOK
<1>3. CASE Redeemable(codes[code], client, redirect)
  <2>1. PICK g \in Grant : g = codes[code] /\ g.code = code
    BY <1>3, StoredGrant DEF Inv, MintedInv, Redeemable
  <2>2. held'[r] = g /\ g # Absent /\ \A s \in Requests \ {r} : held'[s] = held[s]
    BY <1>3, <2>1, AbsentApart DEF CodeGrant, Hold, Inv, ProviderTypeOK
  <2>3. LeftOf(code) = {Left("code", g)}
    BY <2>1, <2>2, LeftIsCode
  <2>4. LeftOf(held[r].code)' = {Left(Stage(r), held[r])}'
    BY <2>2, LeftNext
  <2>5. LeftOf(code)' = {Left("redeeming", g)}
    BY <1>2, <2>1, <2>2, <2>4 DEF Stage
  <2>6. \A d \in Codes \ {code} : Untouched(d)
    BY <1>1, <1>2, <2>1, <2>2 DEF Untouched, Has, Names, Stage, Left
  <2>7. \A d \in Codes \ {code} : LeftOf(d)' = LeftOf(d)
    BY <2>6, SameLeft
  <2>8. <<"code", "redeeming">> \in Life!Passes
    BY DEF Life!Passes
  <2> QED
    BY <1>1, <2>3, <2>5, <2>7, <2>8, GoesOn DEF LifeStep
<1>4. CASE ~Redeemable(codes[code], client, redirect)
  <2>1. End(r, Refused("invalid_grant"))
    BY <1>4 DEF CodeGrant
  <2>2. held'[r] = Absent /\ \A s \in Requests \ {r} : held'[s] = held[s]
    BY <2>1, Ends, RefusedIs DEF Inv, Errors
  <2>3. \A d \in Codes \ {code} : Untouched(d)
    BY <1>1, <1>2, <2>2 DEF Untouched, Has, Names, Stage, Left
  <2>4. \A d \in Codes \ {code} : LeftOf(d)' = LeftOf(d)
    BY <2>3, SameLeft
  <2>5. CASE codes[code] = Absent
    <3>1. Untouched(code)
      BY <1>1, <1>2, <2>2, <2>5 DEF Untouched, Has, Names, Stage, Left
    <3> QED
      BY <1>1, <2>4, <3>1, SameLeft, StaysTheSame DEF LifeStep
  <2>6. CASE codes[code] # Absent
    <3>1. LeftOf(code) = {Left("code", codes[code])}
      BY <2>6, LeftIsCode
    <3>2. Spent(code)'
      BY <1>1, <1>2, <2>2, <2>6 DEF Spent, Inv, Apart
    <3>3. LeftOf(code)' = {}
      BY <3>2, LeftNext
    <3>4. "code" \in Life!Losses
      BY DEF Life!Losses
    <3> QED
      BY <1>1, <2>4, <3>1, <3>3, <3>4, IsLost DEF LifeStep
  <2> QED
    BY <2>5, <2>6
<1> QED
  BY <1>3, <1>4

\* A refresh token goes to the request of its client, and stays otherwise.
LEMMA RefreshGrantLife ==
    ASSUME Inv, Inv', NEW r \in Requests, NEW handle \in Handles, NEW client \in Clients,
           RefreshGrant(r, handle, client)
    PROVE  LifeStep
<1>1. UNCHANGED <<codes, minted, proof>> /\ at[r] = "idle" /\ held[r] = Absent /\ proof[r] = NoProof
  BY DEF RefreshGrant, Inv, HeldInv
<1>2. CASE refreshTokens[handle] # Absent /\ refreshTokens[handle].client = client
  <2>1. PICK g \in Chain : g = refreshTokens[handle]
    BY <1>2 DEF Inv, ProviderTypeOK
  <2>2. PICK c \in Codes : c = g.code
    BY DEF Chain
  <2>3. /\ held'[r] = g /\ g # Absent /\ refreshTokens'[handle] = Absent
        /\ \A s \in Requests \ {r} : held'[s] = held[s]
        /\ \A h \in Handles \ {handle} : refreshTokens'[h] = refreshTokens[h]
    BY <1>2, <2>1, AbsentApart DEF RefreshGrant, Hold, Inv, ProviderTypeOK
  <2>4. LeftOf(c) = {Left("refreshable", g)}
    BY <2>1, <2>2, <2>3, LeftIsLive
  <2>5. LeftOf(held[r].code)' = {Left(Stage(r), held[r])}'
    BY <2>3, LeftNext
  <2>6. LeftOf(c)' = {Left("refreshing", g)}
    BY <1>1, <2>2, <2>3, <2>5 DEF Stage
  <2>7. \A d \in Codes \ {c} : Untouched(d)
    BY <1>1, <2>1, <2>2, <2>3 DEF Untouched, Has, Names, Stage, Left
  <2>8. \A d \in Codes \ {c} : LeftOf(d)' = LeftOf(d)
    BY <2>7, SameLeft
  <2>9. <<"refreshable", "refreshing">> \in Life!Passes
    BY DEF Life!Passes
  <2> QED
    BY <1>1, <2>4, <2>6, <2>8, <2>9, GoesOn DEF LifeStep
<1>3. CASE ~(refreshTokens[handle] # Absent /\ refreshTokens[handle].client = client)
  <2>1. End(r, Refused("invalid_grant")) /\ UNCHANGED refreshTokens
    BY <1>3 DEF RefreshGrant
  <2> QED
    BY <1>1, <2>1, EndLife, RefusedIs DEF Errors
<1> QED
  BY <1>2, <1>3

\* The right verifier changes nothing GrantLife sees.
LEMMA DigestLife == ASSUME Inv, Inv', NEW r \in Requests, Digest(r) PROVE LifeStep
<1>1. UNCHANGED <<codes, refreshTokens, minted, proof>> /\ at[r] = "digest"
  BY DEF Digest, storeVars
<1>2. CASE proof[r] = held[r].challenge
  <2>1. PICK k \in Chain : k = ChainOf(held[r])
    BY <1>1, ChainOfGrant DEF Inv, HeldInv
  <2>2. /\ held[r] # Absent /\ k # Absent
        /\ k.code = held[r].code /\ k.client = held[r].client /\ k.scope = held[r].scope
    BY <1>1, <2>1, AbsentApart DEF Inv, HeldInv, ChainOf
  <2>3. held'[r] = k /\ \A s \in Requests \ {r} : held'[s] = held[s]
    BY <1>2, <2>1 DEF Digest, Hold, Inv, ProviderTypeOK
  <2>4. \A d \in Codes : Untouched(d)
    BY <1>1, <2>2, <2>3 DEF Untouched, Has, Names, Stage, Left
  <2> QED
    BY <1>1, <2>4, SameLeft, StaysTheSame DEF LifeStep
<1>3. CASE proof[r] # held[r].challenge
  <2>1. End(r, Refused("invalid_grant"))
    BY <1>3 DEF Digest
  <2> QED
    BY <1>1, <2>1, EndLife, RefusedIs DEF Errors
<1> QED
  BY <1>2, <1>3

\* Tokens come with a refresh token in place of what the request held.
LEMMA IssueLife == ASSUME Inv, Inv', NEW r \in Requests, Issue(r) PROVE LifeStep
<1>1. PICK g \in Chain : g = held[r]
  BY DEF Issue, Inv, HeldInv
<1>2. PICK c \in Codes : c = g.code
  BY DEF Chain
<1>3. PICK n \in Handles : n = issued + 1
  BY NextHandle DEF Issue, Inv
<1>4. PICK k \in Chain : k = Renewal(g)
  BY RenewalOfChain
<1>5. /\ g # Absent /\ k # Absent
      /\ k.code = c /\ k.client = g.client /\ k.scope = g.scope
  BY <1>2, <1>4, AbsentApart, RenewalOfChain
<1>6. /\ UNCHANGED <<codes, minted, proof>>
      /\ refreshTokens' = [refreshTokens EXCEPT ![n] = k]
      /\ held' = [held EXCEPT ![r] = Absent]
  BY <1>1, <1>3, <1>4 DEF Issue, End
<1>7. /\ refreshTokens'[n] = k /\ held'[r] = Absent
      /\ \A h \in Handles \ {n} : refreshTokens'[h] = refreshTokens[h]
      /\ \A s \in Requests \ {r} : held'[s] = held[s]
  BY <1>6 DEF Inv, ProviderTypeOK
<1>8. refreshTokens[n] = Absent
  BY <1>3, Numbers DEF Inv, MintedInv
<1>9. LeftOf(c) = {Left(Stage(r), g)}
  BY <1>1, <1>2, <1>5, LeftIsTaken
<1>10. LeftOf(refreshTokens[n].code)' = {Left("refreshable", refreshTokens[n])}'
  BY <1>5, <1>7, LeftNext
<1>11. LeftOf(c)' = {Left("refreshable", k)}
  BY <1>5, <1>7, <1>10
<1>12. \A d \in Codes \ {c} : Untouched(d)
  BY <1>1, <1>2, <1>5, <1>6, <1>7, <1>8 DEF Untouched, Has, Names, Stage, Left
<1>13. \A d \in Codes \ {c} : LeftOf(d)' = LeftOf(d)
  BY <1>12, SameLeft
<1>14. <<Stage(r), "refreshable">> \in Life!Passes
  BY DEF Stage, Life!Passes
<1> QED
  BY <1>5, <1>6, <1>9, <1>11, <1>13, <1>14, GoesOn DEF LifeStep

\* Every step of the token endpoint is one of GrantLife or changes nothing there.
LEMMA StepImplements == ASSUME Inv, Inv', [ProviderNext]_providerVars PROVE LifeStep
<1>1. ASSUME UNCHANGED <<codes, refreshTokens, minted, held, proof>> PROVE LifeStep
  <2>1. \A d \in Codes : Untouched(d)
    BY <1>1 DEF Untouched, Has, Names, Stage, Left
  <2> QED
    BY <1>1, <2>1, SameLeft, StaysTheSame DEF LifeStep
<1>2. ASSUME Pass \/ UNCHANGED providerVars PROVE LifeStep
  BY <1>1, <1>2 DEF Pass, providerVars, storeVars, tokenVars
<1>3. ASSUME NEW ask \in Asks, Authorize(ask) PROVE LifeStep
  BY <1>3, AuthorizeLife
<1>4. ASSUME NEW r \in Requests, Abort(r) PROVE LifeStep
  BY <1>4, EndLife, NobodyIs DEF Abort, storeVars
<1>5. ASSUME NEW r \in Requests, NEW message \in Messages, ServiceGrant(r, message)
      PROVE  LifeStep
  BY <1>5, EndLife, ServiceAnswerIs DEF ServiceGrant, storeVars
<1>6. ASSUME NEW r \in Requests, Malformed(r) PROVE LifeStep
  BY <1>6, EndLife, RefusedIs DEF Malformed, storeVars, Errors
<1>7. ASSUME NEW r \in Requests, ApiKey(r) PROVE LifeStep
  BY <1>7, EndLife, OwnTokensAre DEF ApiKey, storeVars
<1>8. ASSUME NEW r \in Requests, Close(r) PROVE LifeStep
  <2>1. /\ UNCHANGED <<codes, refreshTokens, minted, held>> /\ held[r] = Absent
        /\ \A s \in Requests \ {r} : proof'[s] = proof[s]
    BY <1>8 DEF Close, storeVars, Inv, HeldInv, ProviderTypeOK
  <2>2. \A d \in Codes : Untouched(d)
    BY <2>1 DEF Untouched, Has, Names, Stage, Left
  <2> QED
    BY <2>1, <2>2, SameLeft, StaysTheSame DEF LifeStep
<1>9. ASSUME NEW r \in Requests, RequestStep(r) PROVE LifeStep
  BY <1>4, <1>5, <1>6, <1>7, <1>8, <1>9, CodeGrantLife, RefreshGrantLife, DigestLife,
     IssueLife
     DEF RequestStep
<1> QED
  BY <1>2, <1>3, <1>9 DEF ProviderNext, RequestStep

\* The token endpoint implements GrantLife: whatever requests overlap, end
\* early or fail, what is left of a sign-in is one credential of one client for
\* one scope, and once it is lost there is never one again.
THEOREM GrantLifeIsImplemented == ProviderSpec => ImplementsGrantLife
<1>1. ProviderInit => Life!Init
  <2> SUFFICES ASSUME ProviderInit PROVE Life!Init
    OBVIOUS
  <2>1. minted = 0 /\ \A c \in Codes : LeftOf(c) = {}
    BY LeftIsNothing DEF ProviderInit, Spent
  <2> QED
    BY <2>1 DEF Life!Init
<1>2. Inv /\ Inv' /\ [ProviderNext]_providerVars => [Life!Next]_(Life!lifeVars)
  BY StepImplements DEF LifeStep
<1> QED
  BY <1>1, <1>2, Invariance, PTL DEF ProviderSpec, Life!Spec, ImplementsGrantLife
==============================================================================
