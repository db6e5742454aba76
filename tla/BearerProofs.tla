----------------------------- MODULE BearerProofs -----------------------------
(***************************************************************************)
(* Proofs about Bearer: what a rotation, an outage of the issuer and a     *)
(* withdrawn key mean for the requests of a resource server, for any       *)
(* requests, any number of them at a time, any delays and any ttl.  The    *)
(* invariant of JwksCacheProofs carries over: the middleware takes the     *)
(* cache's own steps.                                                      *)
(***************************************************************************)
EXTENDS Bearer, JwksCacheProofs, TokenVerifyProofs

------------------------------------------------------------------------------
(* The verdicts under a version of the issuer's document.                   *)

\* What passes under version v was signed by a key that version lists, is for
\* this api, and in time.
LEMMA PassedIsListed ==
    ASSUME NEW token, NEW v \in Nat, NEW t, Verdict(token, Jwks(v), Options, t) = "Ok"
    PROVE  /\ token.signer \in KeysOf(v)
           /\ token.typ \in Options.types
           /\ token.iss = Options.issuer /\ Options.audience \in token.aud
           /\ token.nbf - Skew <= t /\ t <= token.exp + Skew
<1>1. \E key \in Jwks(v) : key.id = token.signer
  BY VerdictOk
<1>2. /\ Options.types = {} \/ token.typ \in Options.types
      /\ Options.issuer \in {None, token.iss}
      /\ Options.audience = None \/ Options.audience \in token.aud
      /\ token.nbf - Skew <= t /\ t <= token.exp + Skew
  BY VerdictIsOk
<1>3. token.signer \in KeysOf(v)
  BY <1>1 DEF Jwks, Key
<1> QED
  BY <1>2, <1>3, OptionsAssumption

\* A version that lists the key a token names is never without a key for it.
LEMMA ListedIsKnown ==
    ASSUME NEW token, NEW v \in Nat, NEW t,
           token.signer \in KeysOf(v), token.kid = token.signer,
           KeyType(token.alg) = "P-256"
    PROVE  Verdict(token, Jwks(v), Options, t) # "UnknownKey"
<1> DEFINE key == Key(token.signer, token.signer, "P-256")
<1>1. key \in Jwks(v)
  BY DEF Jwks
<1>2. key \in Candidates(token, Jwks(v)) /\ key.imports
  BY <1>1 DEF Candidates, Key, IsCompatibleWith
<1> QED
  BY <1>2, VerdictUnknownKey

\* A token that is called forged under version v, and names its key or none,
\* names none, and its key is not one that version lists.
LEMMA ForgedIsUnlisted ==
    ASSUME NEW token, NEW v \in Nat, NEW t,
           token.signer \in Docs, token.kid \in {token.signer, NoKid},
           Verdict(token, Jwks(v), Options, t) = "BadSignature"
    PROVE  token.kid = NoKid /\ token.signer \notin KeysOf(v)
<1>1. PICK other \in Candidates(token, Jwks(v)) : other.imports
  BY VerdictBadSignature
<1>2. PICK k \in KeysOf(v) : other = Key(k, k, "P-256")
  BY <1>1 DEF Candidates, Jwks
<1>3. /\ KeyType(token.alg) = "P-256"
      /\ token.kid = NoKid \/ k = NoKid \/ k = token.kid
      /\ k # token.signer
  <2>1. other.type = KeyType(token.alg) /\ other.id # token.signer
    BY <1>1, VerdictBadSignature DEF Candidates, IsCompatibleWith
  <2>2. token.kid = NoKid \/ other.kid = NoKid \/ other.kid = token.kid
    BY <1>1 DEF Candidates
  <2> QED
    BY <1>2, <2>1, <2>2 DEF Key
<1>4. k # NoKid
  BY <1>2 DEF KeysOf, NoKid
<1>5. token.kid = NoKid
  BY <1>3, <1>4
<1>6. ASSUME token.signer \in KeysOf(v) PROVE FALSE
  <2> DEFINE key == Key(token.signer, token.signer, "P-256")
  <2>1. key \in Jwks(v)
    BY <1>6 DEF Jwks
  <2>2. key \in Candidates(token, Jwks(v)) /\ key.imports /\ key.id = token.signer
    BY <1>3, <1>5, <2>1 DEF Candidates, Key, IsCompatibleWith
  <2> QED
    BY <2>2, VerdictBadSignature
<1> QED
  BY <1>5, <1>6

------------------------------------------------------------------------------
(* The inductive invariant.                                                 *)

\* A caller past its get, inside a refresh or about to be judged.
Served(c) == leg[c] # "get" \/ pc[c] \in {"answered", "check", "stamp", "drop"}

\* A request inside the cache is not answered yet, and carries a token.
StageInv ==
    \A c \in Callers :
        /\ stage[c] # "keys" => pc[c] = "idle"
        /\ stage[c] # "done" => verdict[c] = Pending
        /\ stage[c] \in {"keys", "revocation"} =>
              request[c] \in Requests /\ ~request[c].empty

\* Once a document was fetched, only a request that was there before can
\* receive an error: get's, and never a refresh's.
OutageInv ==
    \A c \in Callers :
        /\ warm[c] \/ Served(c) => lastGood # NoDoc
        /\ pc[c] \in {"evict", "failed"} => leg[c] = "get" /\ ~warm[c]
        /\ verdict[c] # "NoFreshKeys"
        /\ verdict[c] = "NoKeys" => ~warm[c]

\* What a request's get has seen published was published when it came in.
SeenInv ==
    \A c \in Callers :
        /\ arrived[c] <= published
        /\ Served(c) => arrived[c] <= seen[c]

\* Version w is missing from document v, which is served or judged under until
\* time t: w cannot have been published long before.
Recent(v, t) ==
    \A w \in Docs : v < w /\ w <= published => t <= publishedAt[w] + Ttl + MaxFetch

\* How old a fetch, what is stored and what is held can be.
FetchAge ==
    \A c \in Callers : pc[c] = "fetching" =>
        /\ fetch[c].at <= now /\ now <= fetch[c].at + MaxFetch
        /\ \A w \in Docs :
              fetch[c].since < w /\ w <= published => fetch[c].at <= publishedAt[w]
StoredAge ==
    /\ expiresAt <= now + Ttl
    /\ exit # NoExit /\ ~exit.fell => Recent(exit.doc, expiresAt)
HeldAge ==
    \A c \in Callers : pc[c] = "answered" =>
        /\ answer[c].doc <= published
        /\ ~answer[c].fell => Recent(answer[c].doc, now)

BearerInv ==
    /\ Inv
    /\ BearerTypeOK
    /\ StageInv
    /\ OutageInv
    /\ SeenInv
    /\ FetchAge
    /\ StoredAge
    /\ HeldAge
    /\ OnlyAccessTokensPass

\* It holds initially.
LEMMA BearerInvInit == ASSUME BearerInit PROVE BearerInv
<1>1. Inv
  BY InvInit DEF BearerInit
<1>2. BearerTypeOK
  <2>1. TypeOK
    BY <1>1 DEF Inv
  <2> QED
    BY <2>1, ClockAssumption DEF BearerInit, BearerTypeOK
<1>3. StageInv /\ OnlyAccessTokensPass
  BY DEF BearerInit, Init, StageInv, OnlyAccessTokensPass, AfterVerification, Pending
<1>4. OutageInv /\ SeenInv
  BY DEF BearerInit, Init, OutageInv, SeenInv, Served, Pending, NoDoc
<1>5. FetchAge /\ HeldAge
  BY DEF BearerInit, Init, FetchAge, HeldAge
<1>6. StoredAge
  BY ClockAssumption, TtlAssumption DEF BearerInit, Init, StoredAge
<1> QED
  BY <1>1, <1>2, <1>3, <1>4, <1>5, <1>6 DEF BearerInv

\* What has been verified, and answered after it, goes on being so.
LEMMA PassedKept ==
    ASSUME BearerInv, published' \in {published, published + 1},
           \A d \in Callers :
              \/ stage'[d] # "revocation" /\ verdict'[d] \notin AfterVerification
              \/ /\ stage'[d] = "revocation" => stage[d] = "revocation"
                 /\ verdict'[d] = verdict[d]
                 /\ request'[d] = request[d] /\ verifiedAt'[d] = verifiedAt[d]
    PROVE  OnlyAccessTokensPass'
<1>1. published \in Int
  BY DEF BearerInv, BearerTypeOK, TypeOK, Docs
<1>2. ASSUME NEW d \in Callers, stage'[d] = "revocation" \/ verdict'[d] \in AfterVerification
      PROVE  /\ AccessToken(request[d], verifiedAt[d])'
             /\ verdict'[d] \in AfterVerification => Status(verdict'[d]) = Due(request'[d])
  <2>1. /\ AccessToken(request[d], verifiedAt[d])
        /\ verdict[d] \in AfterVerification => Status(verdict[d]) = Due(request[d])
        /\ request'[d] = request[d] /\ verifiedAt'[d] = verifiedAt[d]
        /\ verdict'[d] = verdict[d]
    BY <1>2 DEF BearerInv, OnlyAccessTokensPass
  <2> QED
    BY <1>1, <2>1 DEF AccessToken
<1> QED
  BY <1>2 DEF OnlyAccessTokensPass

\* The middleware takes the cache's steps, and no others.
LEMMA CacheSteps == ASSUME [BearerNext]_bearerVars PROVE [Next]_vars
<1>1. CASE Elapse
  BY <1>1 DEF Elapse, Next
<1>2. CASE Publish
  BY <1>2 DEF Publish, Next
<1>3. ASSUME NEW c \in Callers, Handle(c) PROVE [Next]_vars
  <2>1. CASE CacheStep(c)
    BY <2>1 DEF CacheStep, Next
  <2>2. CASE KeysUnavailable(c)
    BY <2>2 DEF KeysUnavailable, Next
  <2>3. CASE SeekFreshKeys(c)
    BY <2>3 DEF SeekFreshKeys, Next
  <2>4. CASE Refuse(c)
    BY <2>4 DEF Refuse, Next
  <2>5. CASE Verified(c)
    BY <2>5 DEF Verified, Next
  <2>6. CASE Decide(c)
    BY <2>6 DEF Decide
  <2> QED
    BY <1>3, <2>1, <2>2, <2>3, <2>4, <2>5, <2>6 DEF Handle
<1>4. ASSUME NEW c \in Callers, NEW r \in Requests, Receive(c, r) PROVE [Next]_vars
  BY <1>4 DEF Receive, Next
<1>5. ASSUME NEW c \in Callers, Leave(c) PROVE [Next]_vars
  BY <1>5 DEF Leave
<1>6. CASE UNCHANGED bearerVars
  BY <1>6 DEF bearerVars
<1> QED
  BY <1>1, <1>2, <1>3, <1>4, <1>5, <1>6 DEF BearerNext

\* Every step keeps the types.
LEMMA BearerTypeStep ==
    ASSUME BearerTypeOK, [BearerNext]_bearerVars PROVE BearerTypeOK'
<1>1. TypeOK'
  BY CacheSteps, TypeStep DEF BearerTypeOK
<1>2. CASE Elapse
  BY <1>1, <1>2 DEF Elapse, requestVars, BearerTypeOK
<1>3. CASE Publish
  <2>1. published' \in Docs /\ now \in Nat
    BY <1>1 DEF BearerTypeOK, TypeOK
  <2> QED
    BY <1>1, <1>3, <2>1 DEF Publish, requestVars, BearerTypeOK
<1>4. ASSUME NEW c \in Callers, NEW why \in Refusals, Answer(c, why) PROVE BearerTypeOK'
  BY <1>1, <1>4 DEF Answer, BearerTypeOK
<1>5. ASSUME NEW c \in Callers, Handle(c) PROVE BearerTypeOK'
  <2>1. CASE CacheStep(c)
    BY <1>1, <2>1 DEF CacheStep, requestVars, BearerTypeOK
  <2>2. CASE KeysUnavailable(c)
    <3>1. "NoKeys" \in Refusals /\ "NoFreshKeys" \in Refusals
      BY DEF Refusals
    <3> QED
      BY <1>4, <2>2, <3>1 DEF KeysUnavailable
  <2>3. CASE SeekFreshKeys(c)
    BY <1>1, <2>3 DEF SeekFreshKeys, requestVars, BearerTypeOK
  <2>4. CASE Refuse(c)
    <3>1. Judged(c) \in Refusals
      BY VerdictType DEF Judged, Refusals
    <3> QED
      BY <1>4, <2>4, <3>1 DEF Refuse
  <2>5. CASE Verified(c)
    <3>1. "BadClaims" \in Refusals
      BY DEF Refusals
    <3>2. CASE Answer(c, "BadClaims")
      BY <1>4, <3>1, <3>2
    <3>3. verifiedAt' = [verifiedAt EXCEPT ![c] = now] => verifiedAt' \in [Callers -> Nat]
      BY DEF BearerTypeOK, TypeOK
    <3> QED
      BY <1>1, <2>5, <3>2, <3>3 DEF Verified, BearerTypeOK
  <2>6. CASE Decide(c)
    <3>1. {"NoRevocations", "Revoked", "BadScope", "ScopeRequired", "Ok"} \subseteq Refusals
      BY DEF Refusals, Verdicts
    <3> QED
      BY <1>4, <2>6, <3>1 DEF Decide
  <2> QED
    BY <1>5, <2>1, <2>2, <2>3, <2>4, <2>5, <2>6 DEF Handle
<1>6. ASSUME NEW c \in Callers, NEW r \in Requests, Receive(c, r) PROVE BearerTypeOK'
  <2>1. published \in Docs /\ "Empty" \in Refusals
    BY DEF BearerTypeOK, TypeOK, Refusals
  <2> QED
    BY <1>1, <1>6, <2>1 DEF Receive, BearerTypeOK
<1>7. ASSUME NEW c \in Callers, Leave(c) PROVE BearerTypeOK'
  BY <1>1, <1>7 DEF Leave, BearerTypeOK
<1>8. CASE UNCHANGED bearerVars
  BY <1>1, <1>8 DEF bearerVars, requestVars, BearerTypeOK
<1> QED
  BY <1>2, <1>3, <1>5, <1>6, <1>7, <1>8 DEF BearerNext

------------------------------------------------------------------------------
(* The steps of the cache.                                                  *)

\* A step that neither starts nor ends a fetch nor answers anybody.
Quiet(c) ==
    \/ Join(c) \/ RateLimited(c) \/ PassWindow(c) \/ Stamp(c) \/ Evict(c) \/ Invalidate(c)

\* What such a step leaves alone, and where it takes its caller.
LEMMA QuietStep ==
    ASSUME TypeOK, NEW c \in Callers, Quiet(c)
    PROVE  /\ UNCHANGED <<now, published, lastGood, fetch, answer, seen>>
           /\ \/ exit' = exit /\ expiresAt' = expiresAt
              \/ exit' = NoExit /\ expiresAt' = 0
           /\ \A d \in Callers : d # c => pc'[d] = pc[d] /\ leg'[d] = leg[d]
           /\ pc[c] # "idle" /\ pc'[c] \notin {"idle", "fetching", "answered", "evict"}
           /\ Served(c)' => Served(c)
           /\ pc'[c] = "failed" => pc[c] = "evict" /\ leg'[c] = leg[c]
<1> USE DEF TypeOK, Served, cacheVars
<1>1. CASE Join(c)
  BY <1>1 DEF Join
<1>2. CASE RateLimited(c)
  BY <1>2 DEF RateLimited
<1>3. CASE PassWindow(c)
  BY <1>3 DEF PassWindow
<1>4. CASE Stamp(c)
  BY <1>4 DEF Stamp
<1>5. CASE Evict(c)
  BY <1>5 DEF Evict, Drop
<1>6. CASE Invalidate(c)
  BY <1>6 DEF Invalidate, Drop
<1> QED
  BY <1>1, <1>2, <1>3, <1>4, <1>5, <1>6 DEF Quiet

\* Such a step preserves the invariant.
LEMMA QuietInv ==
    ASSUME BearerInv, Inv', BearerTypeOK', NEW c \in Callers, Quiet(c),
           UNCHANGED <<requestVars, publishedAt>>
    PROVE  BearerInv'
<1>1. TypeOK
  BY DEF BearerInv, BearerTypeOK
<1>2. /\ UNCHANGED <<now, published, lastGood, fetch, answer, seen>>
      /\ UNCHANGED <<stage, request, verdict, arrived, warm, verifiedAt, publishedAt>>
      /\ \A d \in Callers : d # c => pc'[d] = pc[d] /\ leg'[d] = leg[d]
      /\ pc[c] # "idle" /\ pc'[c] \notin {"idle", "fetching", "answered", "evict"}
      /\ pc'[c] = "failed" => pc[c] = "evict" /\ leg'[c] = leg[c]
  BY <1>1, QuietStep DEF requestVars
<1>3. \/ exit' = exit /\ expiresAt' = expiresAt
      \/ exit' = NoExit /\ expiresAt' = 0
  BY <1>1, QuietStep
<1>4. \A d \in Callers : Served(d)' => Served(d)
  <2>1. Served(c)' => Served(c)
    BY <1>1, QuietStep
  <2>2. ASSUME NEW d \in Callers, d # c PROVE Served(d)' => Served(d)
    BY <1>2, <2>2 DEF Served
  <2> QED
    BY <2>1, <2>2
<1>5. StageInv'
  BY <1>2 DEF BearerInv, StageInv
<1>6. OutageInv'
  BY <1>2, <1>4 DEF BearerInv, OutageInv
<1>7. SeenInv'
  BY <1>2, <1>4 DEF BearerInv, SeenInv
<1>8. FetchAge' /\ HeldAge'
  BY <1>2 DEF BearerInv, FetchAge, HeldAge, Recent
<1>9. StoredAge'
  BY <1>1, <1>2, <1>3, TtlAssumption DEF BearerInv, StoredAge, Recent, TypeOK
<1>10. OnlyAccessTokensPass'
  BY <1>2, PassedKept
<1> QED
  BY <1>5, <1>6, <1>7, <1>8, <1>9, <1>10 DEF BearerInv

\* The caller that starts a fetch.
LEMMA StartFetchInv ==
    ASSUME BearerInv, Inv', BearerTypeOK', NEW c \in Callers, StartFetch(c),
           UNCHANGED <<requestVars, publishedAt>>
    PROVE  BearerInv'
<1>1. TypeOK
  BY DEF BearerInv, BearerTypeOK
<1>2. /\ UNCHANGED <<now, published, lastGood, leg, answer, seen, expiresAt>>
      /\ UNCHANGED <<stage, request, verdict, arrived, warm, verifiedAt, publishedAt>>
      /\ exit' = NoExit
      /\ pc[c] = "get" /\ pc' = [pc EXCEPT ![c] = "fetching"]
      /\ fetch' = [fetch EXCEPT ![c] = [since |-> published, at |-> now]]
  BY DEF StartFetch, requestVars
<1>3. \A d \in Callers : pc'[d] = IF d = c THEN "fetching" ELSE pc[d]
  BY <1>1, <1>2 DEF TypeOK
<1>4. StageInv'
  BY <1>2, <1>3 DEF BearerInv, StageInv
<1>5. OutageInv'
  BY <1>2, <1>3 DEF BearerInv, OutageInv, Served
<1>6. SeenInv'
  BY <1>2, <1>3 DEF BearerInv, SeenInv, Served
<1>7. FetchAge'
  BY <1>1, <1>2, <1>3, FetchAssumption DEF BearerInv, FetchAge, TypeOK, Docs
<1>8. StoredAge' /\ HeldAge'
  BY <1>2, <1>3 DEF BearerInv, StoredAge, HeldAge, Recent
<1>9. OnlyAccessTokensPass'
  BY <1>2, PassedKept
<1> QED
  BY <1>4, <1>5, <1>6, <1>7, <1>8, <1>9 DEF BearerInv

\* An outcome of the right age is delivered to callers that wait for one:
\* what the invariant says of the callers still holds.
LEMMA DeliveryKeeps ==
    ASSUME BearerInv, BearerTypeOK', NEW S \in SUBSET Callers, NEW o \in Outcome,
           Deliver(S, o), \A d \in S : pc[d] \in {"get", "waiting", "fetching"},
           o.doc = lastGood', lastGood # NoDoc => lastGood' # NoDoc,
           o.doc <= published, ~o.fell => Recent(o.doc, now),
           UNCHANGED <<now, published, leg, requestVars, publishedAt>>
    PROVE  StageInv' /\ OutageInv' /\ SeenInv' /\ HeldAge' /\ OnlyAccessTokensPass'
<1>1. /\ TypeOK
      /\ UNCHANGED <<now, published, leg, stage, request, verdict, arrived, warm, verifiedAt, publishedAt>>
  BY DEF BearerInv, BearerTypeOK, requestVars
<1>2. \A d \in Callers :
        /\ pc'[d] = IF d \in S THEN IF o.doc = NoDoc THEN "evict" ELSE "answered" ELSE pc[d]
        /\ answer'[d] = IF d \in S THEN o ELSE answer[d]
        /\ seen'[d] = IF d \in S /\ leg[d] = "get" THEN published ELSE seen[d]
  BY DEF Deliver
<1>3. StageInv'
  BY <1>1, <1>2 DEF BearerInv, StageInv
<1>4. OutageInv'
  BY <1>1, <1>2 DEF BearerInv, OutageInv, Served, TypeOK
<1>5. SeenInv'
  BY <1>1, <1>2 DEF BearerInv, SeenInv, Served
<1>6. HeldAge'
  BY <1>1, <1>2 DEF BearerInv, HeldAge, Recent
<1>7. OnlyAccessTokensPass'
  BY <1>1, PassedKept
<1> QED
  BY <1>3, <1>4, <1>5, <1>6, <1>7

\* A hit delivers what is stored, which has not expired.
LEMMA HitInv ==
    ASSUME BearerInv, Inv', BearerTypeOK', NEW c \in Callers, Hit(c),
           UNCHANGED <<requestVars, publishedAt>>
    PROVE  BearerInv'
<1>1. TypeOK /\ pc[c] = "get" /\ now < expiresAt /\ Deliver({c}, exit)
  BY DEF BearerInv, BearerTypeOK, Hit
<1>2. UNCHANGED <<now, published, lastGood, exit, expiresAt, leg, fetch, publishedAt>>
  BY DEF Hit, cacheVars
<1>3. exit # NoExit /\ exit \in Outcome /\ exit.doc = lastGood /\ lastGood <= published
  BY <1>1 DEF BearerInv, Inv, StoredInv, StoredIsLastGood, FreshInv, TypeOK
<1>4. ASSUME ~exit.fell PROVE Recent(exit.doc, now)
  <2>1. Recent(exit.doc, expiresAt)
    BY <1>3, <1>4 DEF BearerInv, StoredAge
  <2> QED
    BY <1>1, <2>1, TtlAssumption, FetchAssumption
       DEF Recent, TypeOK, BearerInv, BearerTypeOK
<1>5. StageInv' /\ OutageInv' /\ SeenInv' /\ HeldAge' /\ OnlyAccessTokensPass'
  BY <1>1, <1>2, <1>3, <1>4, DeliveryKeeps
<1>6. FetchAge'
  BY <1>1, <1>2 DEF BearerInv, FetchAge, Deliver
<1>7. StoredAge'
  BY <1>2 DEF BearerInv, StoredAge, Recent
<1> QED
  BY <1>5, <1>6, <1>7 DEF BearerInv

\* The end of a fetch: what it brings was served no earlier than it was asked
\* for, and that is no longer ago than a fetch may take.
LEMMA FetchEndsInv ==
    ASSUME BearerInv, Inv', BearerTypeOK', NEW c \in Callers, pc[c] = "fetching",
           NEW o \in Outcome, Settle(c, o),
           o.doc = lastGood', lastGood # NoDoc => lastGood' # NoDoc,
           o.doc <= published, ~o.fell => o.doc >= fetch[c].since,
           UNCHANGED <<requestVars, publishedAt>>
    PROVE  BearerInv'
<1>1. /\ TypeOK /\ publishedAt \in [Docs -> Nat]
      /\ UNCHANGED <<now, published, leg, publishedAt>>
      /\ exit' = o
      /\ fetch' = [fetch EXCEPT ![c] = NoFetch]
  BY DEF BearerInv, BearerTypeOK, Settle
<1>2. PICK S \in SUBSET Callers : S = {c} \cup {d \in Callers : pc[d] = "waiting"}
  OBVIOUS
<1>3. Deliver(S, o) /\ \A d \in S : pc[d] \in {"get", "waiting", "fetching"}
  BY <1>2 DEF Settle
<1>4. /\ fetch[c].at \in Nat /\ fetch[c].since \in Nat /\ o.doc \in Nat /\ published \in Nat
      /\ fetch[c].at <= now /\ now <= fetch[c].at + MaxFetch
  BY <1>1 DEF BearerInv, FetchAge, TypeOK, Outcome, Docs, NoDoc
<1>5. ASSUME ~o.fell, NEW w \in Docs, o.doc < w, w <= published
      PROVE  fetch[c].at <= publishedAt[w]
  <2>1. fetch[c].since < w
    BY <1>4, <1>5 DEF Docs
  <2> QED
    BY <1>5, <2>1 DEF BearerInv, FetchAge
<1>6. ~o.fell => Recent(o.doc, now)
  BY <1>1, <1>4, <1>5, TtlAssumption, FetchAssumption DEF Recent, TypeOK
<1>7. StageInv' /\ OutageInv' /\ SeenInv' /\ HeldAge' /\ OnlyAccessTokensPass'
  BY <1>1, <1>3, <1>6, DeliveryKeeps
<1>8. FetchAge'
  <2>1. \A d \in Callers : pc'[d] # "fetching"
    BY <1>2, <1>3 DEF Deliver, BearerInv, Inv, FlightInv, SingleFlight
  <2> QED
    BY <2>1 DEF FetchAge
<1>9. StoredAge'
  <2>1. PICK from \in {fetch[c].at, now} : expiresAt' = from + Ttl
    BY DEF Settle
  <2>2. /\ from \in Nat /\ from <= now /\ from <= fetch[c].at + MaxFetch
        /\ Ttl \in Nat /\ MaxFetch \in Nat /\ now \in Nat
    BY <1>1, <1>4, <2>1, TtlAssumption, FetchAssumption DEF TypeOK
  <2>3. expiresAt' <= now' + Ttl
    BY <1>1, <2>1, <2>2
  <2>4. ASSUME ~o.fell, NEW w \in Docs, o.doc < w, w <= published
        PROVE  expiresAt' <= publishedAt[w] + Ttl + MaxFetch
    <3>1. fetch[c].at <= publishedAt[w] /\ publishedAt[w] \in Nat
      BY <1>1, <1>5, <2>4
    <3> QED
      BY <1>4, <2>1, <2>2, <3>1
  <2> QED
    BY <1>1, <2>3, <2>4 DEF StoredAge, Recent
<1> QED
  BY <1>7, <1>8, <1>9 DEF BearerInv

\* Every step of a caller inside the cache.
LEMMA CacheStepInv ==
    ASSUME BearerInv, Inv', BearerTypeOK', NEW c \in Callers, CacheStep(c)
    PROVE  BearerInv'
<1>0. UNCHANGED <<requestVars, publishedAt>> /\ Run(c) /\ TypeOK
  BY DEF CacheStep, BearerInv, BearerTypeOK
<1>1. CASE Quiet(c)
  BY <1>0, <1>1, QuietInv
<1>2. CASE StartFetch(c)
  BY <1>0, <1>2, StartFetchInv
<1>3. CASE Hit(c)
  BY <1>0, <1>3, HitInv
<1>4. CASE FetchSucceeds(c)
  <2>1. PICK v \in fetch[c].since..published :
          lastGood' = v /\ Settle(c, [doc |-> v, fell |-> FALSE])
    BY <1>4 DEF FetchSucceeds
  <2>2. pc[c] = "fetching"
    BY <1>4 DEF FetchSucceeds
  <2>3. fetch[c].since \in Docs /\ published \in Docs
    BY <1>0, <2>2 DEF BearerInv, Inv, FreshInv, TypeOK
  <2>4. v \in Docs /\ v <= published /\ v >= fetch[c].since /\ v # NoDoc
    BY <2>3, VersionAssumption DEF Docs, NoDoc
  <2>5. [doc |-> v, fell |-> FALSE] \in Outcome
    BY <2>4 DEF Outcome
  <2> QED
    BY <1>0, <2>1, <2>2, <2>4, <2>5, FetchEndsInv
<1>5. CASE FetchFails(c)
  <2>1. /\ pc[c] = "fetching" /\ lastGood' = lastGood
        /\ Settle(c, [doc |-> lastGood, fell |-> TRUE])
    BY <1>5 DEF FetchFails
  <2>2. [doc |-> lastGood, fell |-> TRUE] \in Outcome /\ lastGood <= published
    BY <1>0 DEF Outcome, TypeOK, BearerInv, Inv, FreshInv
  <2> QED
    BY <1>0, <2>1, <2>2, FetchEndsInv
<1> QED
  BY <1>0, <1>1, <1>2, <1>3, <1>4, <1>5 DEF Run, Enter, FetchEnds, Quiet

------------------------------------------------------------------------------
(* Time and the issuer.                                                     *)

\* Time passes only while nobody is about to judge a token, and no fetch is
\* out for longer than it may.
LEMMA ElapseInv ==
    ASSUME BearerInv, Inv', BearerTypeOK', Elapse PROVE BearerInv'
<1>1. /\ TypeOK /\ now' = now + 1
      /\ UNCHANGED <<published, lastRefresh, cacheVars, callVars, requestVars, publishedAt>>
      /\ \A c \in Callers :
            /\ stage[c] = "keys" => pc[c] \notin {"answered", "failed"}
            /\ pc[c] = "fetching" => now < fetch[c].at + MaxFetch
  BY DEF BearerInv, BearerTypeOK, Elapse, Tick
<1>2. StageInv'
  BY <1>1 DEF BearerInv, StageInv, requestVars, callVars
<1>3. OutageInv'
  BY <1>1 DEF BearerInv, OutageInv, Served, requestVars, callVars, cacheVars
<1>4. SeenInv'
  BY <1>1 DEF BearerInv, SeenInv, Served, requestVars, callVars
<1>5. FetchAge'
  BY <1>1, FetchAssumption DEF BearerInv, FetchAge, TypeOK, callVars
<1>6. StoredAge'
  BY <1>1, TtlAssumption DEF BearerInv, StoredAge, Recent, TypeOK, cacheVars
<1>7. HeldAge'
  <2>1. \A c \in Callers : pc[c] # "answered"
    BY <1>1 DEF BearerInv, StageInv
  <2> QED
    BY <1>1, <2>1 DEF HeldAge, callVars
<1>8. OnlyAccessTokensPass'
  BY <1>1, PassedKept DEF requestVars
<1> QED
  BY <1>2, <1>3, <1>4, <1>5, <1>6, <1>7, <1>8 DEF BearerInv

\* A new version: whatever lacks it has lacked it for no time at all.
LEMMA PublishInv ==
    ASSUME BearerInv, Inv', BearerTypeOK', Publish PROVE BearerInv'
<1>1. /\ TypeOK /\ publishedAt \in [Docs -> Nat]
      /\ published' = published + 1 /\ published' \in Docs
      /\ publishedAt' = [publishedAt EXCEPT ![published'] = now]
      /\ UNCHANGED <<now, lastRefresh, cacheVars, callVars, requestVars>>
  BY DEF BearerInv, BearerTypeOK, TypeOK, Publish, Rotate
<1>2. \A w \in Docs : w <= published =>
        publishedAt'[w] = publishedAt[w]
  BY <1>1 DEF TypeOK, Docs
<1>3. \A w \in Docs : w <= published' /\ ~(w <= published) => publishedAt'[w] = now
  BY <1>1 DEF TypeOK, Docs
<1>4. ASSUME NEW v \in Nat, NEW t \in Nat, Recent(v, t), t <= now + Ttl + MaxFetch,
             NEW w \in Docs, v < w, w <= published'
      PROVE  t <= publishedAt'[w] + Ttl + MaxFetch
  BY <1>2, <1>3, <1>4 DEF Recent
<1>5. StageInv'
  BY <1>1 DEF BearerInv, StageInv, requestVars, callVars
<1>6. OutageInv'
  BY <1>1 DEF BearerInv, OutageInv, Served, requestVars, callVars, cacheVars
<1>7. SeenInv'
  <2>1. \A c \in Callers : arrived[c] \in Nat /\ published \in Nat
    BY <1>1 DEF BearerInv, BearerTypeOK, TypeOK, Docs, NoDoc
  <2>2. \A c \in Callers : arrived[c] <= published'
    BY <1>1, <2>1 DEF BearerInv, SeenInv
  <2> QED
    BY <1>1, <2>2 DEF BearerInv, SeenInv, Served, requestVars, callVars
<1>8. FetchAge'
  <2> SUFFICES ASSUME NEW c \in Callers, pc[c] = "fetching", NEW w \in Docs,
                      fetch[c].since < w, w <= published'
               PROVE  fetch[c].at <= publishedAt'[w]
    BY <1>1 DEF BearerInv, FetchAge, callVars
  <2> QED
    BY <1>2, <1>3 DEF BearerInv, FetchAge
<1>9. StoredAge'
  <2>1. UNCHANGED <<exit, expiresAt, now>> /\ expiresAt <= now + Ttl /\ exit.doc \in Nat
    BY <1>1 DEF cacheVars, BearerInv, StoredAge, TypeOK, Outcome, Docs, NoDoc
  <2>2. expiresAt <= now + Ttl + MaxFetch
    BY <1>1, <2>1, FetchAssumption, TtlAssumption DEF TypeOK
  <2>3. ASSUME exit # NoExit, ~exit.fell PROVE Recent(exit.doc, expiresAt)'
    <3>1. Recent(exit.doc, expiresAt)
      BY <2>3 DEF BearerInv, StoredAge
    <3>2. expiresAt \in Nat
      BY <1>1 DEF TypeOK
    <3> QED
      BY <1>4, <2>1, <2>2, <3>1, <3>2 DEF Recent
  <2> QED
    BY <2>1, <2>3 DEF StoredAge
<1>10. HeldAge'
  <2> SUFFICES ASSUME NEW c \in Callers, pc[c] = "answered"
               PROVE  /\ answer[c].doc <= published'
                      /\ ~answer[c].fell => Recent(answer[c].doc, now)'
    BY <1>1 DEF HeldAge, callVars
  <2>1. answer[c].doc <= published /\ answer[c].doc \in Nat /\ answer' = answer /\ now' = now
    BY <1>1 DEF BearerInv, HeldAge, TypeOK, Outcome, Docs, NoDoc, callVars
  <2>2. now \in Nat /\ now <= now + Ttl + MaxFetch
    BY <1>1, FetchAssumption, TtlAssumption DEF TypeOK
  <2>3. ASSUME ~answer[c].fell PROVE Recent(answer[c].doc, now)'
    <3>1. Recent(answer[c].doc, now)
      BY <2>3 DEF BearerInv, HeldAge
    <3> QED
      BY <1>4, <2>1, <2>2, <3>1 DEF Recent
  <2> QED
    BY <1>1, <2>1, <2>3 DEF TypeOK, Docs
<1>11. OnlyAccessTokensPass'
  BY <1>1, PassedKept DEF requestVars
<1> QED
  BY <1>5, <1>6, <1>7, <1>8, <1>9, <1>10, <1>11 DEF BearerInv

------------------------------------------------------------------------------
(* The steps of the middleware.                                             *)

\* The steps of the middleware start no fetch, end none and store nothing.
LEMMA AgesKept ==
    ASSUME BearerInv, NEW c \in Callers,
           UNCHANGED <<now, published, cacheVars, fetch, publishedAt>>,
           \A d \in Callers : d # c => pc'[d] = pc[d] /\ answer'[d] = answer[d],
           pc'[c] \notin {"fetching", "answered"}
    PROVE  FetchAge' /\ StoredAge' /\ HeldAge'
<1>1. FetchAge'
  BY DEF BearerInv, FetchAge
<1>2. StoredAge'
  BY DEF BearerInv, StoredAge, Recent, cacheVars
<1>3. HeldAge'
  BY DEF BearerInv, HeldAge, Recent
<1> QED
  BY <1>1, <1>2, <1>3

\* A request comes in.
LEMMA ReceiveInv ==
    ASSUME BearerInv, Inv', BearerTypeOK', NEW c \in Callers, NEW r \in Requests, Receive(c, r)
    PROVE  BearerInv'
<1>1. BearerTypeOK /\ TypeOK /\ pc[c] = "idle" /\ leg[c] = "get" /\ verdict[c] = Pending
  BY DEF BearerInv, BearerTypeOK, Receive, StageInv, Inv, ForcedInv
<1>2. /\ UNCHANGED <<now, published, cacheVars, leg, fetch, answer, seen, verifiedAt, publishedAt>>
      /\ pc' \in {pc, [pc EXCEPT ![c] = "get"]}
      /\ stage[c] = "none"
      /\ request' = [request EXCEPT ![c] = r]
      /\ arrived' = [arrived EXCEPT ![c] = published]
      /\ warm' = [warm EXCEPT ![c] = lastGood # NoDoc]
      /\ \/ /\ stage' = [stage EXCEPT ![c] = "done"] /\ pc' = pc
            /\ verdict' = [verdict EXCEPT ![c] = "Empty"]
         \/ /\ stage' = [stage EXCEPT ![c] = "keys"] /\ verdict' = verdict /\ ~r.empty
  BY DEF Receive, Get, vars, callVars
<1>3. \A d \in Callers : d # c =>
        /\ pc'[d] = pc[d] /\ stage'[d] = stage[d] /\ request'[d] = request[d]
        /\ verdict'[d] = verdict[d] /\ arrived'[d] = arrived[d] /\ warm'[d] = warm[d]
  BY <1>1, <1>2 DEF TypeOK, BearerTypeOK
<1>4. /\ pc'[c] \in {"idle", "get"} /\ request'[c] = r /\ arrived'[c] = published
      /\ warm'[c] => lastGood # NoDoc
      /\ verdict'[c] \in {"Empty", Pending}
      /\ \/ stage'[c] = "done" /\ pc'[c] = "idle"
         \/ stage'[c] = "keys" /\ verdict'[c] = Pending /\ ~r.empty
  <2>1. /\ pc'[c] \in {"idle", "get"} /\ request'[c] = r /\ arrived'[c] = published
        /\ \/ stage'[c] = "done" /\ pc'[c] = "idle" /\ verdict'[c] = "Empty"
           \/ stage'[c] = "keys" /\ verdict'[c] = Pending /\ ~r.empty
    BY <1>1, <1>2 DEF TypeOK, BearerTypeOK
  <2>2. warm'[c] => lastGood # NoDoc
    BY <1>1, <1>2 DEF BearerTypeOK
  <2> QED
    BY <2>1, <2>2
<1>5. \A d \in Callers : Served(d)' => Served(d) /\ d # c
  BY <1>1, <1>2, <1>3, <1>4 DEF Served
<1>6. StageInv'
  BY <1>3, <1>4 DEF BearerInv, StageInv
<1>7. OutageInv'
  BY <1>1, <1>2, <1>3, <1>4, <1>5 DEF BearerInv, OutageInv, cacheVars, Pending
<1>8. SeenInv'
  BY <1>1, <1>2, <1>3, <1>4, <1>5 DEF BearerInv, SeenInv, TypeOK, Docs
<1>9. FetchAge' /\ StoredAge' /\ HeldAge'
  <2>1. \A d \in Callers : d # c => pc'[d] = pc[d] /\ answer'[d] = answer[d]
    BY <1>2, <1>3
  <2> QED
    BY <1>2, <1>4, <2>1, AgesKept
<1>10. OnlyAccessTokensPass'
  BY <1>2, <1>3, <1>4, PassedKept DEF Pending, AfterVerification
<1> QED
  BY <1>6, <1>7, <1>8, <1>9, <1>10 DEF BearerInv

\* A request leaves the cache: for its answer, or for the checks that follow
\* once its token was verified.
LEMMA FinishInv ==
    ASSUME BearerInv, Inv', BearerTypeOK', NEW c \in Callers, Finish(c),
           NEW newStage \in {"revocation", "done"}, NEW why \in Refusals \cup {Pending},
           stage' = [stage EXCEPT ![c] = newStage],
           verdict' = [verdict EXCEPT ![c] = why],
           newStage = "revocation" => why = Pending,
           why \notin AfterVerification, why # "NoFreshKeys", why = "NoKeys" => pc[c] = "failed",
           IF newStage = "revocation"
           THEN /\ AccessToken(request[c], now)
                /\ verifiedAt' = [verifiedAt EXCEPT ![c] = now]
           ELSE UNCHANGED verifiedAt,
           stage[c] = "keys", UNCHANGED <<request, arrived, warm, publishedAt>>
    PROVE  BearerInv'
<1>1. BearerTypeOK /\ TypeOK
  BY DEF BearerInv, BearerTypeOK
<1>2. UNCHANGED <<now, published, cacheVars, fetch, request, arrived, warm, publishedAt>>
  BY DEF Finish
<1>3. \A d \in Callers : d # c =>
        /\ pc'[d] = pc[d] /\ stage'[d] = stage[d] /\ verdict'[d] = verdict[d]
        /\ answer'[d] = answer[d] /\ seen'[d] = seen[d] /\ leg'[d] = leg[d]
  BY <1>1 DEF TypeOK, BearerTypeOK, Finish
<1>4. /\ pc'[c] = "idle" /\ leg'[c] = "get" /\ stage'[c] = newStage /\ verdict'[c] = why
  BY <1>1 DEF TypeOK, BearerTypeOK, Finish
<1>5. \A d \in Callers : Served(d)' => Served(d) /\ d # c
  BY <1>3, <1>4 DEF Served
<1>6. StageInv'
  BY <1>2, <1>3, <1>4 DEF BearerInv, StageInv
<1>7. OutageInv'
  <2>1. why = "NoKeys" => ~warm[c]
    BY DEF BearerInv, OutageInv
  <2>2. lastGood' = lastGood
    BY <1>2 DEF cacheVars
  <2> QED
    BY <1>2, <1>3, <1>4, <1>5, <2>1, <2>2 DEF BearerInv, OutageInv
<1>8. SeenInv'
  BY <1>2, <1>3, <1>5 DEF BearerInv, SeenInv
<1>9. FetchAge' /\ StoredAge' /\ HeldAge'
  BY <1>2, <1>3, <1>4, AgesKept
<1>10. OnlyAccessTokensPass'
  <2>1. CASE newStage = "done"
    BY <1>1, <1>2, <1>3, <1>4, <2>1, PassedKept
  <2>2. CASE newStage = "revocation"
    <3>1. verifiedAt'[c] = now /\ \A d \in Callers : d # c => verifiedAt'[d] = verifiedAt[d]
      BY <1>1, <2>2 DEF BearerTypeOK
    <3>2. AccessToken(request[c], verifiedAt[c])'
      BY <1>2, <2>2, <3>1 DEF AccessToken
    <3>3. verdict'[c] \notin AfterVerification
      BY <1>4
    <3> QED
      BY <1>2, <1>3, <3>1, <3>2, <3>3 DEF BearerInv, OnlyAccessTokensPass, AccessToken
  <2> QED
    BY <2>1, <2>2
<1> QED
  BY <1>6, <1>7, <1>8, <1>9, <1>10 DEF BearerInv

\* What the cache answered is some version of the document.
LEMMA AnswerIsVersion ==
    ASSUME BearerInv, NEW c \in Callers
    PROVE  answer[c].doc \in Nat /\ published \in Nat
  BY DEF BearerInv, BearerTypeOK, TypeOK, Outcome, Docs, NoDoc

\* Every step of the middleware on a request it has received.
LEMMA HandleInv ==
    ASSUME BearerInv, Inv', BearerTypeOK', NEW c \in Callers, Handle(c)
    PROVE  BearerInv'
<1>0. BearerTypeOK /\ TypeOK
  BY DEF BearerInv, BearerTypeOK
<1>1. CASE CacheStep(c)
  BY <1>1, CacheStepInv
<1>2. CASE KeysUnavailable(c)
  <2>1. leg[c] = "get"
    BY <1>2 DEF KeysUnavailable, BearerInv, OutageInv
  <2>2. "NoKeys" \in Refusals /\ "NoKeys" \notin AfterVerification
    BY DEF Refusals, AfterVerification
  <2> QED
    BY <1>2, <2>1, <2>2, FinishInv DEF KeysUnavailable, Answer, Pending
<1>3. CASE SeekFreshKeys(c)
  <2>1. /\ UNCHANGED <<now, published, cacheVars, leg, fetch, seen, publishedAt, requestVars>>
        /\ stage[c] = "keys" /\ pc[c] = "answered"
        /\ \A d \in Callers : d # c => pc'[d] = pc[d] /\ answer'[d] = answer[d]
        /\ pc'[c] = "check"
    BY <1>0, <1>3 DEF SeekFreshKeys, Refresh, TypeOK
  <2>2. \A d \in Callers : Served(d)' => Served(d)
    BY <2>1 DEF Served
  <2>3. StageInv'
    BY <2>1 DEF BearerInv, StageInv, requestVars
  <2>4. OutageInv'
    BY <2>1, <2>2 DEF BearerInv, OutageInv, requestVars, cacheVars
  <2>5. SeenInv'
    BY <2>1, <2>2 DEF BearerInv, SeenInv, requestVars
  <2>6. FetchAge' /\ StoredAge' /\ HeldAge'
    BY <2>1, AgesKept
  <2>7. OnlyAccessTokensPass'
    BY <2>1, PassedKept DEF requestVars
  <2> QED
    BY <2>3, <2>4, <2>5, <2>6, <2>7 DEF BearerInv
<1>4. CASE Refuse(c)
  <2>1. Judged(c) \in Refusals /\ Judged(c) \notin AfterVerification \cup {"NoKeys", "NoFreshKeys"}
    BY <1>4, VerdictType DEF Judged, Refuse, Refusals, Verdicts, AfterVerification
  <2> QED
    BY <1>4, <2>1, FinishInv DEF Refuse, Answer
<1>5. CASE Verified(c)
  <2> DEFINE token == request[c].token
  <2>1. /\ token.signer \in KeysOf(answer[c].doc) /\ token.typ \in Options.types
        /\ token.iss = Options.issuer /\ Options.audience \in token.aud
        /\ token.nbf - Skew <= now /\ now <= token.exp + Skew
    BY <1>5, AnswerIsVersion, PassedIsListed DEF Verified, Judged
  <2>2. token.signer \in 1..published
    <3>1. answer[c].doc <= published
      BY <1>5 DEF Verified, BearerInv, HeldAge
    <3> QED
      BY <2>1, <3>1, AnswerIsVersion DEF KeysOf
  <2>3. CASE Answer(c, "BadClaims")
    <3>1. "BadClaims" \in Refusals /\ "BadClaims" \notin AfterVerification
      BY DEF Refusals, AfterVerification
    <3> QED
      BY <1>5, <2>3, <3>1, FinishInv DEF Verified, Answer
  <2>4. CASE /\ request[c].typed
             /\ stage' = [stage EXCEPT ![c] = "revocation"]
             /\ verifiedAt' = [verifiedAt EXCEPT ![c] = now]
             /\ UNCHANGED <<request, verdict, arrived, warm, publishedAt>>
    <3>1. verdict' = [verdict EXCEPT ![c] = Pending]
      BY <1>0, <1>5, <2>4 DEF Verified, BearerInv, StageInv, BearerTypeOK
    <3>2. AccessToken(request[c], now)
      BY <2>1, <2>2, <2>4 DEF AccessToken
    <3>3. Pending \notin AfterVerification
      BY DEF Pending, AfterVerification
    <3> QED
      BY <1>5, <2>4, <3>1, <3>2, <3>3, FinishInv DEF Verified, Pending
  <2> QED
    BY <1>5, <2>3, <2>4 DEF Verified
<1>6. CASE Decide(c)
  <2>1. PICK why \in AfterVerification :
          /\ Answer(c, why)
          /\ \/ request[c].revocation = "fails" /\ why = "NoRevocations"
             \/ request[c].revocation = "revoked" /\ why = "Revoked"
             \/ /\ request[c].revocation = "clear"
                /\ why = IF ~MayCall(request[c]) THEN "BadScope"
                         ELSE IF ~RequireScopes(request[c]) THEN "ScopeRequired" ELSE "Ok"
    BY <1>6 DEF Decide, AfterVerification
  <2>2. /\ stage[c] = "revocation"
        /\ UNCHANGED <<vars, request, arrived, warm, verifiedAt, publishedAt>>
        /\ \A d \in Callers : d # c => stage'[d] = stage[d] /\ verdict'[d] = verdict[d]
        /\ stage'[c] = "done" /\ verdict'[c] = why
    BY <1>0, <1>6, <2>1 DEF Decide, Answer, BearerTypeOK
  <2>3. StageInv'
    BY <2>2 DEF BearerInv, StageInv, vars, callVars
  <2>4. OutageInv' /\ SeenInv'
    BY <2>1, <2>2 DEF BearerInv, OutageInv, SeenInv, Served, vars, callVars, cacheVars,
       AfterVerification
  <2>5. FetchAge' /\ StoredAge' /\ HeldAge'
    BY <2>2 DEF BearerInv, FetchAge, StoredAge, HeldAge, Recent, vars, callVars, cacheVars
  <2>6. OnlyAccessTokensPass'
    <3>1. Suffices(request[c].scopes, request[c].endpoint)
             <=> MayCall(request[c]) /\ RequireScopes(request[c])
      BY DEF Suffices, MayCall, RequireScopes
    <3>2. Status(why) = Due(request[c])
      BY <2>1, <3>1 DEF Status, Due
    <3> QED
      BY <2>2, <3>2 DEF BearerInv, OnlyAccessTokensPass, AccessToken, vars
  <2> QED
    BY <2>3, <2>4, <2>5, <2>6 DEF BearerInv
<1> QED
  BY <1>1, <1>2, <1>3, <1>4, <1>5, <1>6 DEF Handle

\* The response has gone out.
LEMMA LeaveInv ==
    ASSUME BearerInv, Inv', BearerTypeOK', NEW c \in Callers, Leave(c)
    PROVE  BearerInv'
<1>1. BearerTypeOK /\ TypeOK
  BY DEF BearerInv, BearerTypeOK
<1>2. UNCHANGED <<vars, publishedAt>> /\ stage[c] = "done"
  BY DEF Leave
<1>3. \A d \in Callers :
        /\ d # c => /\ stage'[d] = stage[d] /\ request'[d] = request[d] /\ verdict'[d] = verdict[d]
                    /\ arrived'[d] = arrived[d] /\ warm'[d] = warm[d]
                    /\ verifiedAt'[d] = verifiedAt[d]
        /\ d = c => /\ stage'[d] = "none" /\ verdict'[d] = Pending
                    /\ arrived'[d] = NoDoc /\ warm'[d] = FALSE
  BY <1>1 DEF Leave, BearerTypeOK
<1>4. StageInv'
  BY <1>2, <1>3 DEF BearerInv, StageInv, vars, callVars
<1>5. OutageInv'
  BY <1>2, <1>3 DEF BearerInv, OutageInv, Served, vars, callVars, cacheVars, Pending
<1>6. SeenInv'
  BY <1>1, <1>2, <1>3 DEF BearerInv, SeenInv, Served, TypeOK, Docs, NoDoc, vars, callVars
<1>7. FetchAge' /\ StoredAge' /\ HeldAge'
  BY <1>2 DEF BearerInv, FetchAge, StoredAge, HeldAge, Recent, vars, callVars, cacheVars
<1>8. OnlyAccessTokensPass'
  BY <1>2, <1>3, PassedKept DEF vars, Pending, AfterVerification
<1> QED
  BY <1>4, <1>5, <1>6, <1>7, <1>8 DEF BearerInv

\* Every step preserves the invariant.
LEMMA BearerInvStep == ASSUME BearerInv, [BearerNext]_bearerVars PROVE BearerInv'
<1>1. Inv' /\ BearerTypeOK'
  BY CacheSteps, InvStep, BearerTypeStep DEF BearerInv
<1>2. CASE UNCHANGED bearerVars
  BY <1>1, <1>2 DEF bearerVars, requestVars, vars, cacheVars, callVars, BearerInv, StageInv,
     OutageInv, SeenInv, Served, FetchAge, StoredAge, HeldAge, Recent,
     OnlyAccessTokensPass, AccessToken
<1> QED
  BY <1>1, <1>2, ElapseInv, PublishInv, ReceiveInv, HandleInv, LeaveInv DEF BearerNext

------------------------------------------------------------------------------
(* The theorems.                                                            *)

\* The invariant holds in every behaviour.
LEMMA BearerInvariance == BearerSpec => []BearerInv
<1>1. BearerInit => BearerInv
  BY BearerInvInit
<1>2. BearerInv /\ [BearerNext]_bearerVars => BearerInv'
  BY BearerInvStep
<1> QED
  BY <1>1, <1>2, PTL DEF BearerSpec

\* Whatever the requests are, the middleware uses its cache as any callers may:
\* BearerSpec implements JwksCache's own specification, and all that is proved
\* of the cache - one fetch at a time, spaced refreshes, no lost rotation -
\* holds of the one under the middleware.
THEOREM CacheIsKept == BearerSpec => Spec
<1>1. BearerInit => Init
  BY DEF BearerInit
<1>2. [BearerNext]_bearerVars => [Next]_vars
  BY CacheSteps
<1> QED
  BY <1>1, <1>2, PTL DEF BearerSpec, Spec

\* The requests of a resource server share one view of the issuer's keys, which
\* only moves forward, and each is judged under the view of the moment its keys
\* arrived: the middleware implements KeyView.
THEOREM RequestsShareOneView == BearerSpec => ImplementsKeyView
  BY CacheIsKept, Implementation

\* A request that waits for keys waits for another whose request to the issuer
\* is out, whatever the predicates and refreshes of the others do meanwhile.
THEOREM NoRequestIsLeftWaiting == BearerSpec => []SomebodyFetches
  BY CacheIsKept, NobodyWaitsForNothing, PTL

\* The middleware's state keeps its types: whatever fails, a request is
\* answered with one of the verdicts that have a status.
THEOREM BearerTypeCorrect == BearerSpec => []BearerTypeOK
<1>1. BearerInv => BearerTypeOK
  BY DEF BearerInv
<1> QED
  BY <1>1, BearerInvariance, PTL

\* Once keys were fetched no request that comes in is refused for want of
\* keys, however many fetches fail and however they are shared; and a refresh
\* that fails never turns into a 401.
THEOREM NoFleetWideOutage == BearerSpec => []NoOutageOnceWarm
<1>1. BearerInv => NoOutageOnceWarm
  <2> SUFFICES ASSUME BearerInv, NEW c \in Callers
               PROVE  /\ warm[c] /\ Status(verdict[c]) = 500 => verdict[c] = "NoRevocations"
                      /\ verdict[c] # "NoFreshKeys"
    BY DEF NoOutageOnceWarm
  <2>1. Status(verdict[c]) = 500 => verdict[c] \in {"NoKeys", "NoRevocations"}
    BY DEF Status
  <2>2. verdict[c] = "NoKeys" => ~warm[c]
    BY DEF BearerInv, OutageInv
  <2>3. verdict[c] # "NoFreshKeys"
    BY DEF BearerInv, OutageInv
  <2> QED
    BY <2>1, <2>2, <2>3
<1> QED
  BY <1>1, BearerInvariance, PTL

\* The predicate sees access tokens of a published key, for this api, in time;
\* and whatever it answers, a handler sees those it lets through that have the
\* scopes, and nobody else is told more than that there is no entry.
THEOREM HandlersSeeAccessTokens == BearerSpec => []OnlyAccessTokensPass
<1>1. BearerInv => OnlyAccessTokensPass
  BY DEF BearerInv
<1> QED
  BY <1>1, BearerInvariance, PTL

\* A step that leaves the cache with a verdict on the token.
LEMMA OnlyRefuseJudges ==
    ASSUME BearerInv, BearerNext, NEW c \in Callers,
           verdict[c] = Pending, verdict'[c] \in {"UnknownKey", "BadSignature"}
    PROVE  Refuse(c) /\ verdict'[c] = Judged(c)
<1>1. BearerTypeOK
  BY DEF BearerInv
<1>2. \A d \in Callers : \A why :
        Answer(d, why) /\ verdict'[c] # verdict[c] => d = c /\ verdict'[c] = why
  BY <1>1 DEF Answer, BearerTypeOK
<1>3. verdict'[c] # verdict[c]
  BY DEF Pending
<1>4. ASSUME NEW d \in Callers, Handle(d) PROVE Refuse(c) /\ verdict'[c] = Judged(c)
  BY <1>1, <1>2, <1>3, <1>4 DEF Handle, CacheStep, KeysUnavailable, SeekFreshKeys, Refuse,
     Verified, Decide, requestVars
<1>5. ASSUME NEW d \in Callers, NEW r \in Requests, Receive(d, r) PROVE FALSE
  BY <1>1, <1>3, <1>5 DEF Receive, BearerTypeOK
<1>6. ASSUME NEW d \in Callers, Leave(d) PROVE FALSE
  BY <1>1, <1>3, <1>6 DEF Leave, BearerTypeOK
<1> QED
  BY <1>3, <1>4, <1>5, <1>6 DEF BearerNext, Elapse, Publish, requestVars

\* A rotation delays a genuine token at most while refreshes are rate limited
\* or the issuer is out of reach: never because a fetch was shared or late.
THEOREM RotationsOnlyDelay == BearerSpec => RotationOnlyDelays
<1> DEFINE Delayed ==
      \A c \in Callers :
        LET token == request[c].token
        IN verdict[c] = Pending /\ verdict'[c] = "UnknownKey" /\ Genuine(token)
              /\ token.signer <= arrived[c] /\ token.signer \in KeysOf(published)
            => leg[c] = "limited" \/ answer[c].fell
<1>1. BearerInv /\ [BearerNext]_bearerVars => [Delayed]_bearerVars
  <2> SUFFICES ASSUME BearerInv, BearerNext, NEW c \in Callers, verdict[c] = Pending,
                      verdict'[c] = "UnknownKey", Genuine(request[c].token),
                      request[c].token.signer <= arrived[c],
                      request[c].token.signer \in KeysOf(published),
                      leg[c] # "limited", ~answer[c].fell
               PROVE  FALSE
    OBVIOUS
  <2> DEFINE token == request[c].token
  <2>1. Refuse(c) /\ Judged(c) = "UnknownKey"
    BY OnlyRefuseJudges
  <2>2. stage[c] = "keys" /\ pc[c] = "answered" /\ leg[c] = "forced"
    BY <2>1 DEF Refuse, BearerInv, BearerTypeOK, TypeOK, Legs
  <2>3. KeyType(token.alg) = "P-256" /\ token.signer \in Docs /\ token.kid = token.signer
    BY <2>2, SignerAssumption DEF BearerInv, StageInv, Genuine
  <2>4. token.signer <= answer[c].doc /\ answer[c].doc <= published
    <3>1. arrived[c] <= seen[c] /\ seen[c] <= answer[c].doc /\ answer[c].doc <= published
      BY <2>2 DEF BearerInv, SeenInv, Served, HeldAge, Inv, ForcedInv, RefreshSeesRotation
    <3>2. arrived[c] \in Nat /\ seen[c] \in Nat /\ token.signer \in Nat
      BY <2>3 DEF BearerInv, BearerTypeOK, TypeOK, Docs, NoDoc
    <3> QED
      BY <3>1, <3>2, AnswerIsVersion
  <2>5. token.signer \in KeysOf(answer[c].doc)
    BY <2>3, <2>4, KeptAssumption, AnswerIsVersion DEF KeysOf, Docs
  <2> QED
    BY <2>1, <2>3, <2>5, AnswerIsVersion, ListedIsKnown DEF Judged
<1> QED
  BY <1>1, BearerInvariance, PTL DEF BearerSpec, RotationOnlyDelays

\* A token of a listed key is called forged only if it names no key, and then
\* only for a ttl and a fetch after its key was published, or in an outage.
THEOREM ForgeriesAreReal == BearerSpec => ForgedOnlyWhileStale
<1> DEFINE Stale ==
      \A c \in Callers :
        LET token == request[c].token
        IN verdict[c] = Pending /\ verdict'[c] = "BadSignature" /\ token.signer \in Docs
              /\ token.kid \in {token.signer, NoKid}
            => /\ token.kid = NoKid
               /\ token.signer \in KeysOf(published) =>
                    answer[c].fell \/ now <= publishedAt[token.signer] + Ttl + MaxFetch
<1>1. BearerInv /\ [BearerNext]_bearerVars => [Stale]_bearerVars
  <2> SUFFICES ASSUME BearerInv, BearerNext, NEW c \in Callers, verdict[c] = Pending,
                      verdict'[c] = "BadSignature", request[c].token.signer \in Docs,
                      request[c].token.kid \in {request[c].token.signer, NoKid}
               PROVE  /\ request[c].token.kid = NoKid
                      /\ request[c].token.signer \in KeysOf(published) /\ ~answer[c].fell
                            => now <= publishedAt[request[c].token.signer] + Ttl + MaxFetch
    OBVIOUS
  <2> DEFINE token == request[c].token
  <2>1. Refuse(c) /\ Judged(c) = "BadSignature"
    BY OnlyRefuseJudges
  <2>2. token.kid = NoKid /\ token.signer \notin KeysOf(answer[c].doc)
    BY <2>1, AnswerIsVersion, ForgedIsUnlisted DEF Judged
  <2>3. ASSUME token.signer \in KeysOf(published), ~answer[c].fell
        PROVE  now <= publishedAt[token.signer] + Ttl + MaxFetch
    <3>1. pc[c] = "answered" /\ answer[c].doc <= published
      BY <2>1 DEF Refuse, BearerInv, HeldAge
    <3>2. answer[c].doc < token.signer /\ token.signer <= published
      BY <2>2, <2>3, <3>1, KeptAssumption, AnswerIsVersion DEF KeysOf
    <3>3. Recent(answer[c].doc, now)
      BY <2>3, <3>1 DEF BearerInv, HeldAge
    <3> QED
      BY <3>2, <3>3 DEF Recent
  <2> QED
    BY <2>2, <2>3
<1> QED
  BY <1>1, BearerInvariance, PTL DEF BearerSpec, ForgedOnlyWhileStale

\* A ttl and a fetch after a key was withdrawn nothing it signed passes,
\* unless the issuer could not be reached since.
THEOREM WithdrawnKeysAreRefused == BearerSpec => WithdrawnKeysDie
<1> DEFINE Withdrawn ==
      \A c \in Callers :
        LET k == request[c].token.signer
        IN stage[c] = "keys" /\ stage'[c] = "revocation" /\ ~answer[c].fell
              /\ k + Kept <= published
            => now <= publishedAt[k + Kept] + Ttl + MaxFetch
<1>1. BearerInv /\ [BearerNext]_bearerVars => [Withdrawn]_bearerVars
  <2> SUFFICES ASSUME BearerInv, BearerNext, NEW c \in Callers,
                      stage[c] = "keys", stage'[c] = "revocation", ~answer[c].fell,
                      request[c].token.signer + Kept <= published
               PROVE  now <= publishedAt[request[c].token.signer + Kept] + Ttl + MaxFetch
    OBVIOUS
  <2> DEFINE k == request[c].token.signer
  <2>1. Verified(c)
    <3>1. BearerTypeOK
      BY DEF BearerInv
    <3>2. \A d \in Callers : (\E why : Answer(d, why)) => stage'[c] \in {stage[c], "done"}
      BY <3>1 DEF Answer, BearerTypeOK
    <3>3. ASSUME NEW d \in Callers, Handle(d) PROVE Verified(c)
      BY <3>1, <3>2, <3>3 DEF Handle, CacheStep, KeysUnavailable, SeekFreshKeys, Refuse,
         Verified, Decide, requestVars, BearerTypeOK
    <3>4. ASSUME NEW d \in Callers, NEW r \in Requests, Receive(d, r) PROVE FALSE
      BY <3>1, <3>4 DEF Receive, BearerTypeOK
    <3>5. ASSUME NEW d \in Callers, Leave(d) PROVE FALSE
      BY <3>1, <3>5 DEF Leave, BearerTypeOK
    <3> QED
      BY <3>3, <3>4, <3>5 DEF BearerNext, Elapse, Publish, requestVars
  <2>2. k \in KeysOf(answer[c].doc)
    BY <2>1, AnswerIsVersion, PassedIsListed DEF Verified, Judged
  <2>3. k \in Nat /\ answer[c].doc < k + Kept /\ k + Kept \in Docs
    <3>1. k \in 1..answer[c].doc /\ answer[c].doc < k + Kept /\ published \in Docs
      BY <2>2 DEF KeysOf, BearerInv, BearerTypeOK, TypeOK
    <3> QED
      BY <3>1, KeptAssumption, VersionAssumption, AnswerIsVersion DEF Docs
  <2>4. Recent(answer[c].doc, now)
    BY <2>1 DEF Verified, BearerInv, HeldAge
  <2> QED
    BY <2>3, <2>4 DEF Recent
<1> QED
  BY <1>1, BearerInvariance, PTL DEF BearerSpec, WithdrawnKeysDie
==============================================================================
