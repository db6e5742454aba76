----------------------- MODULE ClientRegistrationProofs -----------------------
(***************************************************************************)
(* Proofs about ClientRegistration: what an outcome tells, that held       *)
(* credentials are the registered ones, one client per software, where     *)
(* initial access tokens go and that registered flows can be completed,    *)
(* for any services, requests, documents and policies.                     *)
(***************************************************************************)
EXTENDS ClientRegistration, TLAPS

Statuses == {0, 200, 201, 400, 401, 403, 502}
Reasons == {"none", "Registered", "Rejected", "NotOffered", "Unreachable"}

\* The types of RegistrationTypeOK, and which variables are functions.
Typed ==
    /\ RegistrationTypeOK
    /\ answer \in [Services -> [status : Statuses, id : 0..MaxClients, secret : Nat]]
    /\ outcome \in [Services -> [reason : Reasons, id : 0..MaxClients, secret : Nat]]
    /\ endpoint = [s \in Services |-> endpoint[s]]
    /\ clients = [c \in Ids |-> clients[c]]

\* What the provider answers, and what it did.
Tells(reply, deed) ==
    /\ reply = NoAnswer => deed = "nothing"
    /\ reply.status = 0 => reply = NoAnswer
    /\ (reply.status \in {200, 201}) = (deed = "stored")

\* An attempt starts from nothing, and its outcome is what was done.
AttemptInv ==
    /\ \A s \in Services :
          /\ at[s] \in {"idle", "found"} => did[s] = "nothing" /\ answer[s] = NoAnswer
          /\ at[s] # "ended" => outcome[s] = NoOutcome
          /\ at[s] = "sent" => Tells(answer[s], did[s])
    /\ OutcomeTellsTheTruth

\* c is registered as s asked, with this secret, if s was the last to do it.
Current(s, c, secret) ==
    LET mine == clients[c]
        wanted == asked[s]
    IN /\ c \in Ids /\ mine # Absent
       /\ mine.by = s =>
             /\ mine.secret = secret
             /\ mine.confidential = (secret # NoSecret)
             /\ mine.redirects = wanted.redirects
             /\ Given(wanted.grants) => mine.grants = wanted.grants[1]
             /\ Given(wanted.scopes) => mine.scope = wanted.scopes[1]

\* Credentials are current from the answer on.
CredentialInv ==
    \A s \in Services :
        /\ at[s] = "sent" /\ answer[s].status \in {200, 201}
              => Current(s, answer[s].id, answer[s].secret)
        /\ outcome[s].reason = "Registered" => Current(s, outcome[s].id, outcome[s].secret)

\* Where a keyed provider has a client, it can recognize it.
SoftwareInv ==
    /\ policy.requireSoftwareId =>
          \A c \in Ids : clients[c] # Absent => Given(clients[c].software)
    /\ OneClientPerSoftware

\* An endpoint fit for an initial access token.
Trusted(url) == Origin(url) = Origin(Issuer) /\ IsSecureEndpoint(url)

EndpointInv ==
    /\ \A s \in Services : at[s] = "found" => Trusted(endpoint[s])
    /\ TokensStayAtTheIssuer

Inv ==
    /\ Typed /\ AttemptInv /\ CredentialInv
    /\ SoftwareInv /\ EndpointInv /\ RegisteredFlowsComplete

------------------------------------------------------------------------------
(* The rules.                                                               *)

\* A document that is accepted names a registration endpoint at the issuer.
LEMMA AcceptedEndpointIsTrusted ==
    ASSUME NEW d \in Documents, Given(d.registration), DiscoveryVerdict(d, Issuer) = "Ok"
    PROVE  Trusted(d.registration[1])
<1>1. d.registration[1] \in {d.registration[i] : i \in DOMAIN d.registration}
  BY DocumentAssumption
<1> QED
  BY <1>1 DEF DiscoveryVerdict, Trusted

\* A client of the registration table that can start and finish its flows.
Completes(m) ==
    /\ m.grants \subseteq GrantTypes
    /\ "authorization_code" \in m.grants
          => "code" \in m.responses /\ \A uri \in m.redirects : uri.fragment # "some"
    /\ "code" \in m.responses => "authorization_code" \in m.grants
    /\ "client_credentials" \in m.grants => m.secret # NoSecret
    /\ m.scope # {} /\ m.scope \subseteq policy.supportedScopes

\* What validateClientMetadata lets through.
LEMMA Accepted ==
    ASSUME policy \in Policies, NEW body, Refusal(body, policy) = "none"
    PROVE  LET m == Metadata(body, policy)
           IN /\ m.grants \subseteq GrantTypes
              /\ \A uri \in m.redirects : uri.fragment # "some"
              /\ ("authorization_code" \in m.grants) = ("code" \in m.responses)
              /\ m.confidential \/ "client_credentials" \notin m.grants
              /\ m.scope # {} /\ m.scope \subseteq policy.supportedScopes
              /\ policy.requireSoftwareId => Given(m.software)
<1> DEFINE m == Metadata(body, policy)
<1>1. /\ RedirectsRegistrable(m, policy) /\ Identified(body, policy) /\ Offered(m, policy)
      /\ HalvesMatch(body, policy) /\ ScopeSupported(m, policy)
      /\ m.confidential \/ "client_credentials" \notin m.grants
  BY DEF Refusal
<1>2. m.grants \subseteq GrantTypes
  BY <1>1, PolicyAssumption DEF Offered
<1>3. \A uri \in m.redirects : uri.fragment # "some"
  BY <1>1 DEF RedirectsRegistrable, IsRegistrable
<1>4. m.software = Trimmed(body.software)
  BY DEF Metadata
<1> QED
  BY <1>1, <1>2, <1>3, <1>4 DEF HalvesMatch, ScopeSupported, Identified

\* The record a registration leaves.
LEMMA RegisterEffect ==
    ASSUME Typed, NEW body, Refusal(body, policy) = "none", NEW by,
           NEW c \in Places(Metadata(body, policy)), Register(body, by, c), policy' = policy
    PROVE  LET m == Metadata(body, policy)
           IN /\ c \in Ids
              /\ clients' = [d \in Ids |-> IF d = c THEN clients'[c] ELSE clients[d]]
              /\ clients'[c] # Absent
              /\ clients'[c].by = by
              /\ clients'[c].secret = Secret(m, c)
              /\ clients'[c].confidential = (clients'[c].secret # NoSecret)
              /\ clients'[c].redirects = m.redirects
              /\ clients'[c].grants = m.grants
              /\ clients'[c].scope = m.scope
              /\ clients'[c].software = m.software
              /\ Completes(clients'[c])
              /\ secrets' \in 0..MaxSecrets /\ Secret(m, c) \in Nat
<1> DEFINE m == Metadata(body, policy)
           r == [by |-> by, software |-> m.software, grants |-> m.grants,
                 responses |-> m.responses, scope |-> m.scope, redirects |-> m.redirects,
                 confidential |-> m.confidential,
                 secret |-> IF m.confidential THEN secrets + 1 ELSE NoSecret]
<1>1. c \in Ids
  BY DEF Places
<1>2. clients' = [clients EXCEPT ![c] = r]
  BY DEF Register
<1>3. clients'[c] = r /\ clients' = [d \in Ids |-> IF d = c THEN clients'[c] ELSE clients[d]]
  BY <1>1, <1>2 DEF Typed
<1>4. r # Absent
  BY DEF Absent
<1>5. secrets \in Nat /\ secrets' \in 0..MaxSecrets
  BY BoundAssumption DEF Typed, RegistrationTypeOK, Register
<1>6. m.confidential \in BOOLEAN
  BY DEF Metadata
<1>7. r.confidential = (r.secret # NoSecret) /\ r.secret = Secret(m, c) /\ r.secret \in Nat
  BY <1>5, <1>6 DEF NoSecret, Secret
<1>8. Completes(r)
  <2>1. policy \in Policies
    BY DEF Typed, RegistrationTypeOK
  <2> QED
    BY <1>7, <2>1, Accepted DEF Completes
<1> QED
  BY <1>1, <1>3, <1>4, <1>5, <1>7, <1>8

------------------------------------------------------------------------------
(* The initial state and the steps.                                         *)

LEMMA InvInit == ASSUME Init PROVE Inv
<1> USE BoundAssumption DEF Init, NoAnswer, NoOutcome, NoSecret
<1>1. Typed
  BY DEF Typed, RegistrationTypeOK, Statuses, Reasons
<1>2. AttemptInv
  BY DEF AttemptInv, OutcomeTellsTheTruth
<1>3. CredentialInv
  BY DEF CredentialInv
<1>4. SoftwareInv
  BY DEF SoftwareInv, OneClientPerSoftware
<1>5. EndpointInv
  BY DEF EndpointInv, TokensStayAtTheIssuer
<1>6. RegisteredFlowsComplete
  BY DEF RegisteredFlowsComplete
<1> QED
  BY <1>1, <1>2, <1>3, <1>4, <1>5, <1>6 DEF Inv

\* A registration keeps the table in order, whoever made it: it replaces the
\* one client of its software, or takes a place of its own.
LEMMA RegisterKeeps ==
    ASSUME Inv, NEW body, Refusal(body, policy) = "none", NEW by,
           NEW c \in Places(Metadata(body, policy)), Register(body, by, c), policy' = policy
    PROVE  /\ SoftwareInv' /\ RegisteredFlowsComplete'
           /\ \A d \in Ids : clients'[d] # Absent => clients'[d].grants \subseteq GrantTypes
           /\ secrets' \in 0..MaxSecrets /\ clients' = [d \in Ids |-> clients'[d]]
<1> DEFINE m == Metadata(body, policy)
<1>1. /\ c \in Ids
      /\ \A d \in Ids : d # c => clients'[d] = clients[d]
      /\ clients'[c].software = m.software
      /\ Completes(clients'[c]) /\ clients'[c].grants = m.grants
      /\ clients'[c].redirects = m.redirects
      /\ secrets' \in 0..MaxSecrets /\ clients' = [d \in Ids |-> clients'[d]]
  <2>1. /\ c \in Ids
        /\ clients' = [d \in Ids |-> IF d = c THEN clients'[c] ELSE clients[d]]
    BY RegisterEffect DEF Inv
  <2> HIDE DEF m
  <2>2. \A d \in Ids : d # c => clients'[d] = clients[d]
    BY <2>1
  <2>3. clients' = [d \in Ids |-> clients'[d]]
    BY <2>1
  <2> USE DEF m
  <2> QED
    BY <2>1, <2>2, <2>3, RegisterEffect DEF Inv
<1>2. policy.requireSoftwareId => Given(m.software)
  <2>1. policy \in Policies
    BY DEF Inv, Typed, RegistrationTypeOK
  <2> QED
    BY <2>1, Accepted
<1>3. ASSUME policy.requireSoftwareId, NEW d \in Ids, clients[d] # Absent,
             clients[d].software = m.software
      PROVE  d = c
  <2>1. c \in {e \in Ids : clients[e] # Absent /\ Given(m.software) /\ clients[e].software = m.software}
    BY <1>2, <1>3 DEF Places
  <2> QED
    BY <1>3, <2>1 DEF Inv, SoftwareInv, OneClientPerSoftware
<1> HIDE DEF m
<1>4. policy.requireSoftwareId => \A d \in Ids : clients'[d] # Absent => Given(clients'[d].software)
  BY <1>1, <1>2 DEF Inv, SoftwareInv
<1>5. OneClientPerSoftware'
  BY <1>1, <1>3 DEF Inv, SoftwareInv, OneClientPerSoftware
<1>6. RegisteredFlowsComplete'
  BY <1>1 DEF Inv, RegisteredFlowsComplete, Completes
<1>7. \A d \in Ids : clients'[d] # Absent => clients'[d].grants \subseteq GrantTypes
  BY <1>1 DEF Inv, Typed, RegistrationTypeOK, Completes
<1> QED
  BY <1>1, <1>4, <1>5, <1>6, <1>7 DEF SoftwareInv

\* Steps of a service: the provider's table is as it was.
StoreUnchanged == UNCHANGED <<fixedVars, storeVars>>

\* Credentials stay current while the table does.
LEMMA CurrentStays ==
    ASSUME StoreUnchanged, NEW s, NEW c, NEW secret, Current(s, c, secret)
    PROVE  Current(s, c, secret)'
  BY DEF Current, StoreUnchanged, fixedVars, storeVars, Ids

\* What the invariant says of one service.
Attempt(s) ==
    /\ at[s] \in {"idle", "found"} => did[s] = "nothing" /\ answer[s] = NoAnswer
    /\ at[s] # "ended" => outcome[s] = NoOutcome
    /\ at[s] = "sent" => Tells(answer[s], did[s])
    /\ outcome[s].reason \in {"Rejected", "NotOffered"} => did[s] # "stored"
    /\ outcome[s].reason = "Registered" => did[s] = "stored"
    /\ at[s] = "ended" /\ did[s] = "stored" /\ answer[s] # NoAnswer
          => outcome[s].reason = "Registered"
    /\ at[s] = "found" => Trusted(endpoint[s])

Holds(s) ==
    /\ at[s] = "sent" /\ answer[s].status \in {200, 201}
          => Current(s, answer[s].id, answer[s].secret)
    /\ outcome[s].reason = "Registered" => Current(s, outcome[s].id, outcome[s].secret)

\* Nothing changes for a service.
Same(s) ==
    /\ at'[s] = at[s] /\ did'[s] = did[s] /\ answer'[s] = answer[s]
    /\ outcome'[s] = outcome[s] /\ endpoint'[s] = endpoint[s]

\* A step of one service keeps the invariant when it keeps that service's part.
LEMMA ServiceKeeps ==
    ASSUME Inv, NEW s \in Services, StoreUnchanged, Typed', Attempt(s)', Holds(s)',
           \A u \in Services \ {s} : Same(u),
           TokensStayAtTheIssuer'
    PROVE  Inv'
<1>1. ASSUME NEW u \in Services PROVE Attempt(u)' /\ Holds(u)'
  <2>1. CASE u = s
    BY <2>1
  <2>2. CASE u # s
    <3>1. Attempt(u) /\ Holds(u)
      BY DEF Inv, AttemptInv, OutcomeTellsTheTruth, EndpointInv, CredentialInv, Attempt, Holds
    <3>2. Same(u)
      BY <2>2
    <3>3. Attempt(u)'
      BY <3>1, <3>2 DEF Attempt, Same, Tells, Trusted
    <3>4. /\ Current(u, answer[u].id, answer[u].secret) => Current(u, answer[u].id, answer[u].secret)'
          /\ Current(u, outcome[u].id, outcome[u].secret) => Current(u, outcome[u].id, outcome[u].secret)'
      BY <3>2 DEF Same, Current, StoreUnchanged, fixedVars, storeVars, Ids
    <3>5. Holds(u)'
      BY <3>1, <3>2, <3>4 DEF Holds, Same
    <3> QED
      BY <3>3, <3>5
  <2> QED
    BY <2>1, <2>2
<1>2. SoftwareInv' /\ RegisteredFlowsComplete'
  BY DEF Inv, SoftwareInv, OneClientPerSoftware, RegisteredFlowsComplete, StoreUnchanged,
         fixedVars, storeVars
<1> QED
  BY <1>1, <1>2 DEF Inv, AttemptInv, OutcomeTellsTheTruth, EndpointInv, CredentialInv, Attempt, Holds

\* An attempt that ends without credentials.
LEMMA FailedHolds ==
    ASSUME NEW reason \in Reasons \ {"Registered"}
    PROVE  /\ Failed(reason).reason = reason
           /\ Failed(reason) \in [reason : Reasons, id : 0..MaxClients, secret : Nat]
  BY BoundAssumption DEF Failed, NoOutcome, NoSecret, Reasons

\* The registration endpoint of the document that was accepted is fit for a token.
LEMMA DiscoverStep ==
    ASSUME Inv, NEW s \in Services,
           Undiscovered(s) \/ \E d \in Documents : Discover(s, d)
    PROVE  Inv'
<1>1. /\ StoreUnchanged /\ UNCHANGED <<answer, did, sent>> /\ at[s] = "idle"
      /\ TokensStayAtTheIssuer'
  BY DEF Undiscovered, Discover, StoreUnchanged, Inv, EndpointInv, TokensStayAtTheIssuer
<1>2. \/ \E reason \in {"Rejected", "NotOffered", "Unreachable"} :
             End(s, Failed(reason)) /\ endpoint' = endpoint
      \/ \E d \in Documents :
             /\ DiscoveryVerdict(d, Issuer) = "Ok" /\ Given(d.registration)
             /\ at' = [at EXCEPT ![s] = "found"] /\ outcome' = outcome
             /\ endpoint' = [endpoint EXCEPT ![s] = d.registration[1]]
  BY DEF Undiscovered, Discover
<1>3. /\ did[s] = "nothing" /\ answer[s] = NoAnswer /\ outcome[s] = NoOutcome
      /\ NoOutcome.reason = "none" /\ NoAnswer.status = 0
  BY <1>1 DEF Inv, AttemptInv, NoOutcome, NoAnswer
<1>4. ASSUME NEW reason \in {"Rejected", "NotOffered", "Unreachable"},
             End(s, Failed(reason)), endpoint' = endpoint
      PROVE  Inv'
  <2>1. /\ Failed(reason).reason = reason
        /\ Failed(reason) \in [reason : Reasons, id : 0..MaxClients, secret : Nat]
    BY FailedHolds DEF Reasons
  <2>2. Typed'
    BY <1>1, <1>4, <2>1 DEF End, Inv, Typed, RegistrationTypeOK, Reasons, StoreUnchanged,
                            fixedVars, storeVars
  <2>3. at'[s] = "ended" /\ outcome'[s] = Failed(reason)
    BY <1>4 DEF End, Inv, Typed, RegistrationTypeOK
  <2>4. Attempt(s)' /\ Holds(s)'
    BY <1>1, <1>3, <2>1, <2>3 DEF Attempt, Holds
  <2>5. \A u \in Services \ {s} : Same(u)
    BY <1>1, <1>4 DEF End, Same, Inv, Typed, RegistrationTypeOK
  <2> QED
    BY <1>1, <2>2, <2>4, <2>5, ServiceKeeps
<1>5. ASSUME NEW d \in Documents, DiscoveryVerdict(d, Issuer) = "Ok", Given(d.registration),
             at' = [at EXCEPT ![s] = "found"], outcome' = outcome,
             endpoint' = [endpoint EXCEPT ![s] = d.registration[1]]
      PROVE  Inv'
  <2>1. Typed'
    <3>1. endpoint' = [u \in Services |-> endpoint'[u]]
      BY <1>5 DEF Inv, Typed
    <3> QED
      BY <1>1, <1>5, <3>1 DEF Inv, Typed, RegistrationTypeOK, StoreUnchanged, fixedVars, storeVars
  <2>2. at'[s] = "found" /\ endpoint'[s] = d.registration[1]
    BY <1>5 DEF Inv, Typed, RegistrationTypeOK
  <2>3. Trusted(endpoint'[s])
    BY <1>5, <2>2, AcceptedEndpointIsTrusted
  <2>4. Attempt(s)' /\ Holds(s)'
    BY <1>1, <1>3, <1>5, <2>2, <2>3 DEF Attempt, Holds, Trusted
  <2>5. \A u \in Services \ {s} : Same(u)
    BY <1>1, <1>5 DEF Same, Inv, Typed, RegistrationTypeOK
  <2> QED
    BY <1>1, <2>1, <2>4, <2>5, ServiceKeeps
<1> QED
  BY <1>2, <1>4, <1>5

\* The request goes out, and with it the token.
LEMMA SendStep == ASSUME Inv, NEW s \in Services, Send(s) PROVE Inv'
<1>1. /\ StoreUnchanged /\ UNCHANGED <<endpoint, answer, did, outcome>> /\ at[s] = "found"
      /\ at' = [at EXCEPT ![s] = "sent"] /\ sent' = sent \cup {<<key[s], endpoint[s]>>}
  BY DEF Send, StoreUnchanged
<1>2. Typed'
  BY <1>1 DEF Inv, Typed, RegistrationTypeOK, StoreUnchanged, fixedVars, storeVars
<1>3. Trusted(endpoint[s]) /\ did[s] = "nothing" /\ answer[s] = NoAnswer /\ outcome[s] = NoOutcome
  BY <1>1 DEF Inv, EndpointInv, AttemptInv
<1>4. TokensStayAtTheIssuer'
  BY <1>1, <1>3 DEF Trusted, Inv, EndpointInv, TokensStayAtTheIssuer
<1>5. at'[s] = "sent"
  BY <1>1 DEF Inv, Typed, RegistrationTypeOK
<1>6. Attempt(s)' /\ Holds(s)'
  BY <1>1, <1>3, <1>5 DEF Attempt, Holds, Tells, NoAnswer, NoOutcome
<1>7. \A u \in Services \ {s} : Same(u)
  BY <1>1 DEF Same, Inv, Typed, RegistrationTypeOK
<1> QED
  BY <1>1, <1>2, <1>4, <1>6, <1>7, ServiceKeeps

\* The provider, or something in its place, answers without a registration.
LEMMA RefuseStep ==
    ASSUME Inv, NEW s \in Services, Deny(s) \/ Reject(s) \/ Misroute(s)
    PROVE  Inv'
<1>1. PICK status \in {400, 401, 403, 502}, deed \in {"refused", "nothing"} :
          /\ Answer(s, Answered(status), deed) /\ storeVars' = storeVars
          /\ status \in {400, 401, 403} => deed = "refused"
  BY DEF Deny, Reject, Misroute
<1>2. /\ StoreUnchanged /\ UNCHANGED <<at, endpoint, outcome, sent>> /\ at[s] = "sent"
      /\ answer' = [answer EXCEPT ![s] = Answered(status)] /\ did' = [did EXCEPT ![s] = deed]
      /\ TokensStayAtTheIssuer'
  BY <1>1 DEF Answer, StoreUnchanged, Inv, EndpointInv, TokensStayAtTheIssuer
<1>3. /\ Answered(status).status = status
      /\ Answered(status) \in [status : Statuses, id : 0..MaxClients, secret : Nat]
  BY BoundAssumption DEF Answered, NoAnswer, NoSecret, Statuses
<1>4. Typed'
  BY <1>2, <1>3 DEF Inv, Typed, RegistrationTypeOK, Statuses, StoreUnchanged, fixedVars, storeVars
<1>5. answer'[s] = Answered(status) /\ did'[s] = deed /\ outcome[s] = NoOutcome
  BY <1>2 DEF Inv, Typed, RegistrationTypeOK, AttemptInv
<1>6. Attempt(s)' /\ Holds(s)'
  BY <1>1, <1>2, <1>3, <1>5 DEF Attempt, Holds, Tells, NoAnswer, NoOutcome
<1>7. \A u \in Services \ {s} : Same(u)
  BY <1>2 DEF Same, Inv, Typed, RegistrationTypeOK
<1> QED
  BY <1>2, <1>4, <1>6, <1>7, ServiceKeeps

\* Another's registration takes nothing from a service: where it replaces its
\* client, the client is not the service's any more.
LEMMA OthersHold ==
    ASSUME Inv, policy' = policy, asked' = asked, NEW c \in Ids, clients'[c] # Absent,
           \A d \in Ids : d # c => clients'[d] = clients[d],
           NEW u \in Services, clients'[c].by # u, Same(u)
    PROVE  Attempt(u)' /\ Holds(u)'
<1>1. Attempt(u) /\ Holds(u) /\ Same(u)
  BY DEF Inv, AttemptInv, OutcomeTellsTheTruth, EndpointInv, CredentialInv, Attempt, Holds
<1>2. Attempt(u)'
  BY <1>1 DEF Attempt, Same, Tells, Trusted
<1>3. ASSUME NEW d, NEW x, Current(u, d, x) PROVE Current(u, d, x)'
  BY <1>3 DEF Current, Ids
<1>4. Holds(u)'
  <2>1. CASE at[u] = "sent" /\ answer[u].status \in {200, 201}
    <3>1. outcome[u].reason # "Registered"
      BY <1>1, <2>1 DEF Attempt, NoOutcome
    <3>2. Current(u, answer[u].id, answer[u].secret)
      BY <1>1, <2>1 DEF Holds
    <3>3. PICK d, x : d = answer[u].id /\ x = answer[u].secret
      OBVIOUS
    <3>4. Current(u, d, x)'
      BY <1>3, <3>2, <3>3
    <3> QED
      BY <1>1, <3>1, <3>3, <3>4 DEF Holds, Same
  <2>2. CASE outcome[u].reason = "Registered"
    <3>1. at[u] = "ended" /\ Current(u, outcome[u].id, outcome[u].secret)
      BY <1>1, <2>2 DEF Attempt, Holds, NoOutcome, Inv, Typed, RegistrationTypeOK
    <3>2. PICK d, x : d = outcome[u].id /\ x = outcome[u].secret
      OBVIOUS
    <3>3. Current(u, d, x)'
      BY <1>3, <3>1, <3>2
    <3> QED
      BY <1>1, <3>1, <3>2, <3>3 DEF Holds, Same
  <2> QED
    BY <1>1, <2>1, <2>2 DEF Holds, Same
<1> QED
  BY <1>2, <1>4

\* The provider registers a client and answers with its credentials: those of
\* the table now, for whoever asked, and of nobody else.
LEMMA AcceptStep == ASSUME Inv, NEW s \in Services, Accept(s) PROVE Inv'
<1> DEFINE body == BodyOf(asked[s])
           m == Metadata(body, policy)
<1>1. PICK c \in Places(m), status \in {200, 201} :
          /\ Answer(s, [status |-> status, id |-> c, secret |-> Secret(m, c)], "stored")
          /\ Register(body, s, c)
  BY DEF Accept
<1>2. PICK secret : secret = Secret(m, c)
  OBVIOUS
<1> DEFINE reply == [status |-> status, id |-> c, secret |-> secret]
<1>3. /\ UNCHANGED <<fixedVars, at, endpoint, outcome, sent>> /\ at[s] = "sent"
      /\ policy' = policy /\ asked' = asked
      /\ answer' = [answer EXCEPT ![s] = reply] /\ did' = [did EXCEPT ![s] = "stored"]
      /\ Refusal(body, policy) = "none"
  BY <1>1, <1>2 DEF Answer, Accept, fixedVars
<1>4. /\ c \in Ids /\ clients'[c] # Absent /\ clients'[c].by = s
      /\ clients'[c].secret = secret
      /\ clients'[c].confidential = (secret # NoSecret)
      /\ clients'[c].redirects = m.redirects /\ clients'[c].grants = m.grants
      /\ clients'[c].scope = m.scope /\ secret \in Nat
      /\ \A d \in Ids : d # c => clients'[d] = clients[d]
  <2>1. clients' = [d \in Ids |-> IF d = c THEN clients'[c] ELSE clients[d]]
    BY <1>1, <1>3, RegisterEffect DEF Inv
  <2>2. \A d \in Ids : d # c => clients'[d] = clients[d]
    BY <2>1
  <2> QED
    BY <1>1, <1>3, <1>2, <2>2, RegisterEffect DEF Inv
<1>5. /\ SoftwareInv' /\ RegisteredFlowsComplete'
      /\ \A d \in Ids : clients'[d] # Absent => clients'[d].grants \subseteq GrantTypes
      /\ secrets' \in 0..MaxSecrets /\ clients' = [d \in Ids |-> clients'[d]]
  BY <1>1, <1>3, RegisterKeeps
<1>6. /\ m.redirects = asked[s].redirects
      /\ Given(asked[s].grants) => m.grants = asked[s].grants[1]
      /\ Given(asked[s].scopes) => m.scope = asked[s].scopes[1]
  BY DEF Metadata, BodyOf, Else, Given
<1>7. reply.status \in {200, 201} /\ reply.id = c /\ reply.secret = secret
  OBVIOUS
<1> HIDE DEF m, body
<1>8. reply \in [status : Statuses, id : 0..MaxClients, secret : Nat]
  BY <1>4, BoundAssumption DEF Ids, Statuses
<1>9. Typed'
  BY <1>3, <1>5, <1>8 DEF Inv, Typed, RegistrationTypeOK, Statuses, fixedVars
<1>10. /\ answer'[s] = reply /\ did'[s] = "stored" /\ at'[s] = "sent" /\ outcome'[s] = NoOutcome
      /\ \A u \in Services \ {s} : Same(u)
  BY <1>3 DEF Inv, Typed, RegistrationTypeOK, AttemptInv, Same
<1>11. ASSUME NEW u \in Services PROVE Attempt(u)' /\ Holds(u)'
  <2>1. CASE u = s
    <3>1. Attempt(u)'
      BY <1>7, <1>10, <2>1 DEF Attempt, Tells, NoAnswer, NoOutcome
    <3>2. Current(s, c, secret)'
      BY <1>3, <1>4, <1>6, <1>7 DEF Current, Ids
    <3>3. Holds(u)'
      BY <1>10, <2>1, <3>2 DEF Holds, NoOutcome
    <3> QED
      BY <3>1, <3>3
  <2>2. CASE u # s
    <3>1. Attempt(u) /\ Holds(u) /\ Same(u)
      BY <1>10, <2>2
      DEF Inv, AttemptInv, OutcomeTellsTheTruth, EndpointInv, CredentialInv, Attempt, Holds
    <3> QED
      BY <1>3, <1>4, <2>2, <3>1, OthersHold DEF fixedVars
  <2> QED
    BY <2>1, <2>2
<1>12. TokensStayAtTheIssuer'
  BY <1>3 DEF Inv, EndpointInv, TokensStayAtTheIssuer
<1> QED
  BY <1>5, <1>9, <1>11, <1>12
  DEF Inv, AttemptInv, OutcomeTellsTheTruth, EndpointInv, CredentialInv, Attempt, Holds

\* A stranger's registration touches no service but through the table.
LEMMA ForeignStep ==
    ASSUME Inv, NEW body, Foreign(body)
    PROVE  Inv'
<1>1. /\ UNCHANGED <<fixedVars, serviceVars>> /\ Refusal(body, policy) = "none"
      /\ policy' = policy /\ asked' = asked
  BY DEF Foreign, fixedVars
<1>2. PICK c \in Places(Metadata(body, policy)) : Register(body, Another, c)
  BY DEF Foreign
<1>3. /\ c \in Ids /\ clients'[c] # Absent /\ clients'[c].by = Another
      /\ \A d \in Ids : d # c => clients'[d] = clients[d]
  <2>1. clients' = [d \in Ids |-> IF d = c THEN clients'[c] ELSE clients[d]]
    BY <1>1, <1>2, RegisterEffect DEF Inv
  <2>2. \A d \in Ids : d # c => clients'[d] = clients[d]
    BY <2>1
  <2> QED
    BY <1>1, <1>2, <2>2, RegisterEffect DEF Inv
<1>4. /\ SoftwareInv' /\ RegisteredFlowsComplete'
      /\ \A d \in Ids : clients'[d] # Absent => clients'[d].grants \subseteq GrantTypes
      /\ secrets' \in 0..MaxSecrets /\ clients' = [d \in Ids |-> clients'[d]]
  BY <1>1, <1>2, RegisterKeeps
<1>5. Typed'
  BY <1>1, <1>4 DEF Inv, Typed, RegistrationTypeOK, fixedVars, serviceVars
<1>6. ASSUME NEW u \in Services PROVE Attempt(u)' /\ Holds(u)'
  <2>1. Same(u) /\ Another # u
    BY <1>1, StrangerAssumption DEF Same, serviceVars
  <2> QED
    BY <1>1, <1>3, <2>1, OthersHold
<1>7. TokensStayAtTheIssuer'
  BY <1>1 DEF Inv, EndpointInv, TokensStayAtTheIssuer, serviceVars
<1> QED
  BY <1>4, <1>5, <1>6, <1>7
  DEF Inv, AttemptInv, OutcomeTellsTheTruth, EndpointInv, CredentialInv, Attempt, Holds

\* An attempt ends as its answer says, or as lost.
LEMMA EndStep == ASSUME Inv, NEW s \in Services, Receive(s) \/ Lose(s) PROVE Inv'
<1>1. /\ StoreUnchanged /\ UNCHANGED <<endpoint, did, sent>> /\ at[s] = "sent"
      /\ TokensStayAtTheIssuer'
  BY DEF Receive, Lose, StoreUnchanged, Inv, EndpointInv, TokensStayAtTheIssuer
<1>2. /\ Attempt(s) /\ Holds(s) /\ answer[s].status \in Statuses
      /\ answer[s].id \in 0..MaxClients /\ answer[s].secret \in Nat
  BY DEF Inv, AttemptInv, OutcomeTellsTheTruth, EndpointInv, CredentialInv, Attempt, Holds, Typed
<1>3. \A reason \in Reasons \ {"Registered"} :
          /\ Failed(reason).reason = reason
          /\ Failed(reason) \in [reason : Reasons, id : 0..MaxClients, secret : Nat]
  BY FailedHolds
<1>4. CASE Receive(s)
  <2> DEFINE result == Reading(answer[s])
  <2>1. answer[s] # NoAnswer /\ answer' = answer /\ End(s, result)
    BY <1>4 DEF Receive
  <2>2. \/ answer[s].status \in {400, 401, 403} /\ result = Failed("Rejected")
        \/ /\ answer[s].status \in {200, 201}
           /\ result = [reason |-> "Registered", id |-> answer[s].id, secret |-> answer[s].secret]
        \/ answer[s].status = 502 /\ result = Failed("Unreachable")
    <3>1. answer[s].status # 0
      BY <1>1, <1>2, <2>1 DEF Attempt, Tells
    <3> QED
      BY <1>2, <3>1 DEF Reading, Statuses
  <2>3. result \in [reason : Reasons, id : 0..MaxClients, secret : Nat]
    BY <1>2, <1>3, <2>2 DEF Reasons
  <2> HIDE DEF result
  <2>4. at'[s] = "ended" /\ outcome'[s] = result /\ \A u \in Services \ {s} : Same(u)
    BY <1>1, <2>1 DEF End, Same, Inv, Typed, RegistrationTypeOK
  <2>5. Typed'
    BY <1>1, <2>1, <2>3 DEF End, Inv, Typed, RegistrationTypeOK, Reasons, StoreUnchanged,
                            fixedVars, storeVars
  <2>6. CASE answer[s].status \in {200, 201}
    <3>1. /\ result.reason = "Registered" /\ result.id = answer[s].id
          /\ result.secret = answer[s].secret /\ did[s] = "stored"
      BY <1>1, <1>2, <2>2, <2>6 DEF Attempt, Tells
    <3>2. PICK c, secret : c = answer[s].id /\ secret = answer[s].secret
      OBVIOUS
    <3>3. Current(s, c, secret)'
      BY <1>1, <1>2, <2>6, <3>2, CurrentStays DEF Holds
    <3>4. Attempt(s)' /\ Holds(s)'
      BY <1>1, <2>4, <3>1, <3>2, <3>3 DEF Attempt, Holds
    <3> QED
      BY <1>1, <2>4, <2>5, <3>4, ServiceKeeps
  <2>7. CASE answer[s].status \notin {200, 201}
    <3>1. result.reason \in {"Rejected", "Unreachable"} /\ did[s] # "stored"
      BY <1>1, <1>2, <1>3, <2>2, <2>7 DEF Attempt, Tells, Reasons
    <3>2. Attempt(s)' /\ Holds(s)'
      BY <1>1, <2>4, <3>1 DEF Attempt, Holds
    <3> QED
      BY <1>1, <2>4, <2>5, <3>2, ServiceKeeps
  <2> QED
    BY <2>6, <2>7
<1>5. CASE Lose(s)
  <2>1. End(s, Failed("Unreachable")) /\ answer' = [answer EXCEPT ![s] = NoAnswer]
    BY <1>5 DEF Lose
  <2>2. /\ Failed("Unreachable").reason = "Unreachable"
        /\ Failed("Unreachable") \in [reason : Reasons, id : 0..MaxClients, secret : Nat]
        /\ NoAnswer \in [status : Statuses, id : 0..MaxClients, secret : Nat]
    BY <1>3, BoundAssumption DEF Reasons, NoAnswer, NoSecret, Statuses
  <2>3. /\ at'[s] = "ended" /\ outcome'[s] = Failed("Unreachable") /\ answer'[s] = NoAnswer
        /\ \A u \in Services \ {s} : Same(u)
    BY <1>1, <2>1 DEF End, Same, Inv, Typed, RegistrationTypeOK
  <2>4. Typed'
    BY <1>1, <2>1, <2>2 DEF End, Inv, Typed, RegistrationTypeOK, Reasons, Statuses,
                            StoreUnchanged, fixedVars, storeVars
  <2>5. Attempt(s)' /\ Holds(s)'
    BY <2>2, <2>3 DEF Attempt, Holds
  <2> QED
    BY <1>1, <2>3, <2>4, <2>5, ServiceKeeps
<1> QED
  BY <1>4, <1>5

\* A new attempt knows nothing of the one before.
LEMMA RetryStep == ASSUME Inv, NEW s \in Services, Retry(s) PROVE Inv'
<1>1. /\ StoreUnchanged /\ UNCHANGED sent /\ TokensStayAtTheIssuer'
      /\ at' = [at EXCEPT ![s] = "idle"] /\ answer' = [answer EXCEPT ![s] = NoAnswer]
      /\ did' = [did EXCEPT ![s] = "nothing"] /\ outcome' = [outcome EXCEPT ![s] = NoOutcome]
      /\ endpoint' = [endpoint EXCEPT ![s] = NotAUrl]
  BY DEF Retry, StoreUnchanged, Inv, EndpointInv, TokensStayAtTheIssuer
<1>2. /\ NoAnswer \in [status : Statuses, id : 0..MaxClients, secret : Nat]
      /\ NoOutcome \in [reason : Reasons, id : 0..MaxClients, secret : Nat]
      /\ NoOutcome.reason = "none"
  BY BoundAssumption DEF NoAnswer, NoOutcome, NoSecret, Statuses, Reasons
<1>3. /\ at'[s] = "idle" /\ answer'[s] = NoAnswer /\ did'[s] = "nothing" /\ outcome'[s] = NoOutcome
      /\ \A u \in Services \ {s} : Same(u)
  BY <1>1 DEF Same, Inv, Typed, RegistrationTypeOK
<1>4. Typed'
  <2>1. endpoint' = [u \in Services |-> endpoint'[u]]
    BY <1>1 DEF Inv, Typed
  <2> QED
    BY <1>1, <1>2, <2>1 DEF Inv, Typed, RegistrationTypeOK, Reasons, Statuses, StoreUnchanged,
                            fixedVars, storeVars
<1>5. Attempt(s)' /\ Holds(s)'
  BY <1>2, <1>3 DEF Attempt, Holds
<1> QED
  BY <1>1, <1>3, <1>4, <1>5, ServiceKeeps

\* Every step keeps the invariant.
LEMMA InvStep == ASSUME Inv, [Next]_vars PROVE Inv'
<1>1. ASSUME NEW body \in Bodies, Foreign(body) PROVE Inv'
  BY <1>1, ForeignStep
<1>2. ASSUME NEW s \in Services, NEW document \in Documents, Discover(s, document) PROVE Inv'
  BY <1>2, DiscoverStep
<1>3. ASSUME NEW s \in Services,
             \/ Undiscovered(s) \/ Send(s)
             \/ Deny(s) \/ Reject(s) \/ Accept(s) \/ Misroute(s)
             \/ Receive(s) \/ Lose(s) \/ Retry(s)
      PROVE  Inv'
  BY <1>3, DiscoverStep, SendStep, RefuseStep, AcceptStep, EndStep, RetryStep
<1>4. CASE UNCHANGED vars
  BY <1>4 DEF vars, fixedVars, serviceVars, storeVars, Inv, Typed, RegistrationTypeOK, AttemptInv,
              OutcomeTellsTheTruth, CredentialInv, Current, SoftwareInv, OneClientPerSoftware,
              EndpointInv, TokensStayAtTheIssuer, RegisteredFlowsComplete, Ids
<1> QED
  BY <1>1, <1>2, <1>3, <1>4 DEF Next

\* The invariant holds of every behaviour.
LEMMA Invariance == Spec => []Inv
<1> QED
  BY InvInit, InvStep, PTL DEF Spec

------------------------------------------------------------------------------
(* What the invariant gives.                                                *)

\* Every variable keeps its type, and the table only holds known grants.
THEOREM RegistrationTypeCorrect == Spec => []RegistrationTypeOK
<1>1. Inv => RegistrationTypeOK
  BY DEF Inv, Typed
<1> QED
  BY <1>1, Invariance, PTL

\* register fails as "Rejected" or "NotOffered" only where nothing was
\* registered, and delivers the credentials of every answer that arrives.
THEOREM OutcomesAreTrue == Spec => []OutcomeTellsTheTruth
<1>1. Inv => OutcomeTellsTheTruth
  BY DEF Inv, AttemptInv
<1> QED
  BY <1>1, Invariance, PTL

\* What a service was handed is what the provider has on it, until another
\* copy of its software registers.
THEOREM HeldCredentialsAreCurrent == Spec => []CredentialsAreCurrent
<1>1. Inv => CredentialsAreCurrent
  BY DEF Inv, CredentialInv, Current, CredentialsAreCurrent
<1> QED
  BY <1>1, Invariance, PTL

\* A provider that asks for a software_id has one client for each, however
\* often services boot and whatever answers are lost.
THEOREM BootsAreIdempotent == Spec => []OneClientPerSoftware
<1>1. Inv => OneClientPerSoftware
  BY DEF Inv, SoftwareInv
<1> QED
  BY <1>1, Invariance, PTL

\* Initial access tokens go to the issuer alone, over a fit connection,
\* whatever its discovery address serves.
THEOREM TokensGoToTheIssuer == Spec => []TokensStayAtTheIssuer
<1>1. Inv => TokensStayAtTheIssuer
  BY DEF Inv, EndpointInv
<1> QED
  BY <1>1, Invariance, PTL

\* What validateClientMetadata lets into the table, after defaults, can be
\* started and finished, whatever the request and the policy leave out.
THEOREM RegisteredFlowsWork == Spec => []RegisteredFlowsComplete
<1>1. Inv => RegisteredFlowsComplete
  BY DEF Inv
<1> QED
  BY <1>1, Invariance, PTL
==============================================================================
