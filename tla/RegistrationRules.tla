-------------------------- MODULE RegistrationRules --------------------------
(***************************************************************************)
(* The decisions of dynamic client registration: what `fetchDiscovery` of  *)
(* src/src/Oidc.ts accepts as an issuer's document, and what               *)
(* src/src/DynamicClientRegistration.ts accepts as a redirect uri and as a *)
(* client's metadata, with the defaults it fills in.                       *)
(*                                                                         *)
(* An optional member is a sequence: <<>> when it is left out.  A url is   *)
(* its scheme, host and fragment; everything else about it, client names   *)
(* and software versions are left out, and lists whose order nothing looks *)
(* at are sets.  All refusals of metadata but that of a redirect uri have  *)
(* one error code, so the order of their checks does not show.             *)
(***************************************************************************)
EXTENDS Integers, Sequences

Given(option) == option # <<>>
Else(option, default) == IF Given(option) THEN option[1] ELSE default

------------------------------------------------------------------------------
(* Urls.                                                                    *)

\* "#" alone is an "empty" fragment: the hash of such a url is "".
Url(scheme, host) == [scheme |-> scheme, host |-> host, fragment |-> "none"]
NotAUrl == Url("none", "none")
Origin(url) == <<url.scheme, url.host>>

LoopbackHosts == {"localhost"}
LoopbackHttp(url) == url.scheme = "http" /\ url.host \in LoopbackHosts

\* Oidc.isSecureEndpoint
IsSecureEndpoint(url) == url.scheme = "https" \/ LoopbackHttp(url)

\* isRegistrableRedirectUri
IsRegistrable(uri, allowLoopbackHttp) ==
    /\ uri # NotAUrl
    /\ uri.fragment # "some"
    /\ uri.scheme = "https" \/ (allowLoopbackHttp /\ LoopbackHttp(uri))

------------------------------------------------------------------------------
(* Discovery.                                                               *)

\* Mutation of DiscoveryVerdict: the endpoint to register at is not looked at.
DiscoveryVerdictOfOthers(document, issuer) ==
    IF document.issuer # issuer THEN "IssuerMismatch"
    ELSE IF \E url \in document.endpoints :
               ~IsSecureEndpoint(url) \/ Origin(url) # Origin(issuer)
    THEN "InvalidEndpoint"
    ELSE "Ok"

\* What fetchDiscovery makes of a document that decodes: the registration
\* endpoint is checked with the other endpoints the document names.
DiscoveryVerdict(document, issuer) ==
    LET named == document.endpoints
                    \cup {document.registration[i] : i \in DOMAIN document.registration}
    IN IF document.issuer # issuer THEN "IssuerMismatch"
       ELSE IF \E url \in named : ~IsSecureEndpoint(url) \/ Origin(url) # Origin(issuer)
       THEN "InvalidEndpoint"
       ELSE "Ok"

------------------------------------------------------------------------------
(* Metadata.                                                                *)

Methods == {"none", "client_secret_basic", "client_secret_post"}
GrantTypes == {"authorization_code", "refresh_token", "client_credentials"}
ResponseTypes == {"code"}

\* What software_id is once trimmed: <<>> when nothing is left of it.
Blank == ""
Trimmed(software) == IF software = <<Blank>> THEN <<>> ELSE software

\* The request with the defaults of the RFC and of the policy filled in: the
\* ClientMetadata a successful validation returns.
Metadata(body, policy) ==
    [redirects |-> Else(body.redirects, {}),
     method |-> Else(body.method, "client_secret_basic"),
     grants |-> Else(body.grants, {"authorization_code"}),
     responses |-> Else(body.responses, {"code"}),
     scope |-> Else(body.scope, Else(policy.defaultScope, {"openid"})),
     software |-> Trimmed(body.software),
     confidential |-> Else(body.method, "client_secret_basic") # "none"]

RedirectsRegistrable(m, policy) ==
    /\ m.redirects # {}
    /\ \A uri \in m.redirects : IsRegistrable(uri, Else(policy.allowLoopbackHttp, TRUE))

\* Mutation of Identified: a software_id of blanks is one.
IdentifiedUntrimmed(body, policy) == policy.requireSoftwareId => Given(body.software)

Identified(body, policy) == policy.requireSoftwareId => Given(Trimmed(body.software))

\* Mutation of Offered: grants are not looked at.
OfferedAnyGrant(m, policy) ==
    /\ m.method \in Else(policy.methods, Methods)
    /\ m.responses \subseteq Else(policy.responses, ResponseTypes)

\* Every method, grant and response type is one the policy offers.
Offered(m, policy) ==
    /\ m.method \in Else(policy.methods, Methods)
    /\ m.responses \subseteq Else(policy.responses, ResponseTypes)
    /\ m.grants \subseteq Else(policy.grants, GrantTypes)

\* Mutation of HalvesMatch: only what is requested is compared, not what is
\* filled in.
HalvesMatchAsRequested(body, policy) ==
    Given(body.grants) /\ Given(body.responses)
        => ("authorization_code" \in body.grants[1]) = ("code" \in body.responses[1])

\* RFC 7591 Section 2.1: the code grant and the code response need each other.
HalvesMatch(body, policy) ==
    LET m == Metadata(body, policy)
    IN ("authorization_code" \in m.grants) = ("code" \in m.responses)

ScopeSupported(m, policy) == m.scope # {} /\ m.scope \subseteq policy.supportedScopes

\* validateClientMetadata: the error it answers, or "none".
Refusal(body, policy) ==
    LET m == Metadata(body, policy)
    IN IF ~RedirectsRegistrable(m, policy) THEN "invalid_redirect_uri"
       ELSE IF /\ Identified(body, policy)
               /\ Offered(m, policy)
               /\ HalvesMatch(body, policy)
               /\ m.confidential \/ "client_credentials" \notin m.grants
               /\ ScopeSupported(m, policy)
       THEN "none"
       ELSE "invalid_client_metadata"

\* The body register sends for what a service asks to be registered as.
BodyOf(request) ==
    [redirects |-> <<request.redirects>>,
     method |-> <<request.method>>,
     grants |-> <<Else(request.grants, {"authorization_code"})>>,
     responses |-> <<Else(request.responses, {"code"})>>,
     scope |-> request.scopes,
     software |-> request.software]
==============================================================================
