------------------------- MODULE ClientRegistration --------------------------
(***************************************************************************)
(* Registering at an issuer, src/src/DynamicClientRegistration.ts: the     *)
(* client's `register` and `registerAt`, and a provider that answers with  *)
(* `validateClientMetadata` and `clientInformationResponse`.               *)
(*                                                                         *)
(* Services share a provider.  Each step of a service is one exchange over *)
(* a network that may lose it before or after the provider has acted.      *)
(* Nothing is retried by the code; the services do it, as often as they    *)
(* like.  What the provider keeps is not in the repository: it recognizes  *)
(* clients by software_id and gives a confidential one a fresh secret each *)
(* time, as RegistrationPolicy and clientInformationResponse tell it to.   *)
(***************************************************************************)
EXTENDS RegistrationRules

CONSTANTS
    Services,    \* processes that register on boot
    Requests,    \* what a service may ask to be registered as
    Bodies,      \* requests of clients that are not of this library
    Documents,   \* what the issuer's discovery address may serve
    Policies,    \* the provider's RegistrationPolicy
    Issuer,      \* the issuer's url
    MaxClients, MaxSecrets    \* bounds

ASSUME BoundAssumption == MaxClients \in Nat /\ MaxSecrets \in Nat

\* What the types of the code say of a policy and of a discovery document.
ASSUME PolicyAssumption == \A p \in Policies : Else(p.grants, GrantTypes) \subseteq GrantTypes
ASSUME DocumentAssumption ==
    \A d \in Documents : Given(d.registration) => d.registration = <<d.registration[1]>>

VARIABLES
    policy,
    gate,      \* whether registering needs an initial access token
    asked,     \* what each service asks for
    key,       \* its initial access token: "none", "right" or "wrong"
    at,        \* where its attempt is
    endpoint,  \* the registration endpoint it found
    answer,    \* what the provider answered it
    did,       \* history: what the provider did with the attempt
    outcome,   \* what the attempt came to
    sent,      \* history: <<token, url>> pairs that went out
    clients,   \* the provider's registrations
    secrets    \* how many secrets it has issued

serviceVars == <<at, endpoint, answer, did, outcome, sent>>
storeVars == <<clients, secrets>>
fixedVars == <<policy, gate, asked, key>>
vars == <<fixedVars, serviceVars, storeVars>>

Ids == 1..MaxClients
Absent == [by |-> "nobody"]
Another == "another"    \* a client that is not of this library
ASSUME StrangerAssumption == Another \notin Services

NoSecret == 0
NoAnswer == [status |-> 0, id |-> 0, secret |-> NoSecret]
Answered(status) == [NoAnswer EXCEPT !.status = status]
NoOutcome == [reason |-> "none", id |-> 0, secret |-> NoSecret]
Failed(reason) == [NoOutcome EXCEPT !.reason = reason]

Init ==
    /\ policy \in Policies
    /\ gate \in BOOLEAN
    /\ asked \in [Services -> Requests]
    /\ key \in [Services -> {"none", "right", "wrong"}]
    /\ at = [s \in Services |-> "idle"]
    /\ endpoint = [s \in Services |-> NotAUrl]
    /\ answer = [s \in Services |-> NoAnswer]
    /\ did = [s \in Services |-> "nothing"]
    /\ outcome = [s \in Services |-> NoOutcome]
    /\ sent = {}
    /\ clients = [c \in Ids |-> Absent]
    /\ secrets = 0

------------------------------------------------------------------------------
(* The provider.                                                            *)

\* Where a registration is stored: under its software_id if there is one by
\* that name, else as a new client.
Places(m) ==
    LET known == {c \in Ids : clients[c] # Absent /\ Given(m.software)
                                 /\ clients[c].software = m.software}
        free == {c \in Ids : clients[c] = Absent}
    IN IF known # {} THEN known
       ELSE {c \in free : \A d \in free : c <= d}

\* "re-registering a confidential client should hand it a fresh one"
Secret(m, c) == IF m.confidential THEN secrets + 1 ELSE NoSecret

\* The provider stores a registration under c.
Register(body, by, c) ==
    LET m == Metadata(body, policy)
    IN /\ m.confidential => secrets < MaxSecrets
       /\ secrets' = IF m.confidential THEN secrets + 1 ELSE secrets
       /\ clients' = [clients EXCEPT ![c] =
             [by |-> by, software |-> m.software, grants |-> m.grants,
              responses |-> m.responses, scope |-> m.scope, redirects |-> m.redirects,
              confidential |-> m.confidential,
              secret |-> IF m.confidential THEN secrets + 1 ELSE NoSecret]]

Answer(s, reply, deed) ==
    /\ at[s] = "sent"
    /\ answer[s] = NoAnswer
    /\ answer' = [answer EXCEPT ![s] = reply]
    /\ did' = [did EXCEPT ![s] = deed]
    /\ UNCHANGED <<fixedVars, at, endpoint, outcome, sent>>

\* The gate before validateClientMetadata, and its refusals.
Deny(s) ==
    /\ gate /\ key[s] # "right"
    /\ \E status \in {401, 403} : Answer(s, Answered(status), "refused")
    /\ UNCHANGED storeVars

Reject(s) ==
    /\ ~gate \/ key[s] = "right"
    /\ Refusal(BodyOf(asked[s]), policy) # "none"
    /\ Answer(s, Answered(400), "refused")
    /\ UNCHANGED storeVars

\* clientInformationResponse, with the secret of this registration.
Accept(s) ==
    /\ ~gate \/ key[s] = "right"
    /\ Refusal(BodyOf(asked[s]), policy) = "none"
    /\ LET m == Metadata(BodyOf(asked[s]), policy)
       IN \E c \in Places(m), status \in {200, 201} :
             /\ Answer(s, [status |-> status, id |-> c, secret |-> Secret(m, c)], "stored")
             /\ Register(BodyOf(asked[s]), s, c)

\* Somebody else registers.
Foreign(body) ==
    /\ Refusal(body, policy) = "none"
    /\ \E c \in Places(Metadata(body, policy)) : Register(body, Another, c)
    /\ UNCHANGED <<fixedVars, serviceVars>>

------------------------------------------------------------------------------
(* A service.                                                               *)

End(s, result) ==
    /\ at' = [at EXCEPT ![s] = "ended"]
    /\ outcome' = [outcome EXCEPT ![s] = result]

\* register: the document may be unusable, or name no endpoint.
Discover(s, document) ==
    /\ at[s] = "idle"
    /\ LET verdict == DiscoveryVerdict(document, Issuer)
       IN \/ /\ verdict # "Ok"
             /\ End(s, Failed("Rejected"))
             /\ UNCHANGED endpoint
          \/ /\ verdict = "Ok" /\ ~Given(document.registration)
             /\ End(s, Failed("NotOffered"))
             /\ UNCHANGED endpoint
          \/ /\ verdict = "Ok" /\ Given(document.registration)
             /\ at' = [at EXCEPT ![s] = "found"]
             /\ endpoint' = [endpoint EXCEPT ![s] = document.registration[1]]
             /\ UNCHANGED outcome
    /\ UNCHANGED <<fixedVars, storeVars, answer, did, sent>>

Undiscovered(s) ==
    /\ at[s] = "idle"
    /\ End(s, Failed("Unreachable"))
    /\ UNCHANGED <<fixedVars, storeVars, endpoint, answer, did, sent>>

\* registerAt: the initial access token goes with the request.
Send(s) ==
    /\ at[s] = "found"
    /\ at' = [at EXCEPT ![s] = "sent"]
    /\ sent' = sent \cup {<<key[s], endpoint[s]>>}
    /\ UNCHANGED <<fixedVars, storeVars, endpoint, answer, did, outcome>>

\* Mutation of Reading: only 201 is a registration.
Reading201(reply) ==
    CASE reply.status \in {401, 403, 400, 200} -> Failed("Rejected")
      [] reply.status = 201 -> [reason |-> "Registered", id |-> reply.id, secret |-> reply.secret]
      [] OTHER -> Failed("Unreachable")

\* Mutation of Reading: an update, answered 200, brings no secret.
ReadingSecretOf201(reply) ==
    CASE reply.status \in {401, 403, 400} -> Failed("Rejected")
      [] reply.status = 200 -> [reason |-> "Registered", id |-> reply.id, secret |-> NoSecret]
      [] reply.status = 201 -> [reason |-> "Registered", id |-> reply.id, secret |-> reply.secret]
      [] OTHER -> Failed("Unreachable")

\* What registerAt makes of an answer.
Reading(reply) ==
    CASE reply.status \in {401, 403, 400} -> Failed("Rejected")
      [] reply.status \in {200, 201} ->
            [reason |-> "Registered", id |-> reply.id, secret |-> reply.secret]
      [] OTHER -> Failed("Unreachable")

Receive(s) ==
    /\ at[s] = "sent"
    /\ answer[s] # NoAnswer
    /\ End(s, Reading(answer[s]))
    /\ UNCHANGED <<fixedVars, storeVars, endpoint, answer, did, sent>>

\* Something else answers in the provider's place.
Misroute(s) ==
    /\ Answer(s, Answered(502), "nothing")
    /\ UNCHANGED storeVars

\* The connection fails, or the body of a registration does not decode.
Lose(s) ==
    /\ at[s] = "sent"
    /\ End(s, Failed("Unreachable"))
    /\ answer' = [answer EXCEPT ![s] = NoAnswer]
    /\ UNCHANGED <<fixedVars, storeVars, endpoint, did, sent>>

\* The service tries again, or boots again.
Retry(s) ==
    /\ at[s] = "ended"
    /\ at' = [at EXCEPT ![s] = "idle"]
    /\ endpoint' = [endpoint EXCEPT ![s] = NotAUrl]
    /\ answer' = [answer EXCEPT ![s] = NoAnswer]
    /\ did' = [did EXCEPT ![s] = "nothing"]
    /\ outcome' = [outcome EXCEPT ![s] = NoOutcome]
    /\ UNCHANGED <<fixedVars, storeVars, sent>>

Next ==
    \/ \E body \in Bodies : Foreign(body)
    \/ \E s \in Services :
          \/ \E document \in Documents : Discover(s, document)
          \/ Undiscovered(s) \/ Send(s)
          \/ Deny(s) \/ Reject(s) \/ Accept(s) \/ Misroute(s)
          \/ Receive(s) \/ Lose(s) \/ Retry(s)

Spec == Init /\ [][Next]_vars

------------------------------------------------------------------------------
(* Properties.                                                              *)

RegistrationTypeOK ==
    /\ policy \in Policies /\ gate \in BOOLEAN
    /\ asked \in [Services -> Requests]
    /\ at \in [Services -> {"idle", "found", "sent", "ended"}]
    /\ did \in [Services -> {"nothing", "refused", "stored"}]
    /\ \A s \in Services :
          /\ answer[s].status \in {0, 200, 201, 400, 401, 403, 502}
          /\ answer[s].id \in 0..MaxClients
          /\ outcome[s].reason \in {"none", "Registered", "Rejected", "NotOffered", "Unreachable"}
    /\ \A c \in Ids : clients[c] # Absent => clients[c].grants \subseteq GrantTypes
    /\ secrets \in 0..MaxSecrets

\* What register fails with says what happened at the provider: "Rejected" and
\* "NotOffered" that nothing was registered; and a registration whose answer
\* arrived, with whichever status, has its credentials delivered.
OutcomeTellsTheTruth ==
    \A s \in Services :
        /\ outcome[s].reason \in {"Rejected", "NotOffered"} => did[s] # "stored"
        /\ outcome[s].reason = "Registered" => did[s] = "stored"
        /\ at[s] = "ended" /\ did[s] = "stored" /\ answer[s] # NoAnswer
              => outcome[s].reason = "Registered"

\* The credentials a service holds are those of its registration, unless
\* another copy of its software has registered since: same client, same
\* secret, and registered as what it asked to be, defaults included.
CredentialsAreCurrent ==
    \A s \in Services :
        LET mine == clients[outcome[s].id]
            wanted == asked[s]
        IN outcome[s].reason = "Registered" =>
              mine # Absent /\ (mine.by = s =>
                 /\ mine.secret = outcome[s].secret
                 /\ mine.confidential = (outcome[s].secret # NoSecret)
                 /\ mine.redirects = wanted.redirects
                 /\ Given(wanted.grants) => mine.grants = wanted.grants[1]
                 /\ Given(wanted.scopes) => mine.scope = wanted.scopes[1])

\* "Safe to call on every boot": however often services retry, and whichever
\* answers are lost, a provider that asks for a software_id never has two
\* clients for one software, nor one it will not recognize.
OneClientPerSoftware ==
    policy.requireSoftwareId =>
        \A c, d \in Ids :
            clients[c] # Absent /\ clients[d] # Absent
                /\ clients[c].software = clients[d].software => c = d

\* The initial access token of a service goes to the origin of the issuer it
\* trusts, over a connection fit for it, whatever its discovery serves.
TokensStayAtTheIssuer ==
    \A pair \in sent : Origin(pair[2]) = Origin(Issuer) /\ IsSecureEndpoint(pair[2])

\* "a client never registers with a redirect uri, grant, response type or
\* scope that every later request would then be refused for": what is stored,
\* after all defaults, can be started and finished.
RegisteredFlowsComplete ==
    \A c \in Ids : clients[c] # Absent =>
        LET m == clients[c]
        IN /\ "authorization_code" \in m.grants
                 => "code" \in m.responses /\ \A uri \in m.redirects : uri.fragment # "some"
           /\ "code" \in m.responses => "authorization_code" \in m.grants
           /\ "client_credentials" \in m.grants => m.secret # NoSecret
           /\ m.scope # {} /\ m.scope \subseteq policy.supportedScopes

\* The same, of the refresh token grant: a client registered for it can be
\* issued a refresh token, which takes another grant.
RefreshTokensAreObtainable ==
    \A c \in Ids : clients[c] # Absent =>
        ("refresh_token" \in clients[c].grants
            => clients[c].grants \cap {"authorization_code", "client_credentials"} # {})
==============================================================================
