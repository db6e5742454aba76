---------------------------- MODULE RelyingParty -----------------------------
(***************************************************************************)
(* The sign-in of src/src/RelyingParty.ts over one browser: a login route  *)
(* that answers with transaction cookies, a callback route that checks     *)
(* them, exchanges the code and verifies the id token.  Tabs of the        *)
(* browser share its cookies; requests carry the cookies of the moment     *)
(* they leave, responses change them when they arrive, so sign-ins begun   *)
(* in several tabs interfere through the jar.                              *)
(*                                                                         *)
(* A flow is one call of beginAuthorization.  Its state, verifier, nonce   *)
(* and payload are random or its own: each is named by the flow.  The      *)
(* provider, the network and the key set answer as they like here; SignIn  *)
(* puts the provider in their place.                                       *)
(***************************************************************************)
EXTENDS Integers

CONSTANTS
    Tabs,       \* of the browser
    MaxFlows    \* bound: how many sign-ins are begun

ASSUME FlowAssumption == MaxFlows \in Nat

VARIABLES
    begun,      \* how many flows there have been
    carries,    \* the flows begun with a payload
    jar,        \* the browser's transaction cookies
    tab,        \* where each tab is
    flow,       \* the flow in its address: the `state` parameter
    sent,       \* the cookies its callback request carried
    idToken,    \* the nonce of the id token the exchange answered with
    result      \* how the callback ended

partyVars == <<begun, carries, jar, tab, flow, sent, idToken, result>>

Flows == 1..MaxFlows
NoFlow == 0
Jars == [state : Flows \cup {NoFlow}, verifier : Flows \cup {NoFlow},
         nonce : Flows \cup {NoFlow}, payload : Flows \cup {NoFlow}]
NoCookies == [state |-> NoFlow, verifier |-> NoFlow, nonce |-> NoFlow, payload |-> NoFlow]

Results ==
    {"pending", "Ok", "InvalidCallback", "AccessDenied", "ProviderError",
     "StateMismatch", "ExchangeFailed", "InvalidIdToken"}
Shapes == {"code", "access_denied", "error", "malformed"}

\* A callback handler is running.
InHandler == {"exchange", "keys", "refresh"}

PartyInit ==
    /\ begun = 0
    /\ carries = {}
    /\ jar = NoCookies
    /\ tab = [t \in Tabs |-> "idle"]
    /\ flow = [t \in Tabs |-> NoFlow]
    /\ sent = [t \in Tabs |-> NoCookies]
    /\ idToken = [t \in Tabs |-> NoFlow]
    /\ result = [t \in Tabs |-> "pending"]

------------------------------------------------------------------------------
(* beginAuthorization.                                                      *)

\* The login route: the answer is a redirect with the cookies of a new flow.
Begin(t, withPayload) ==
    /\ tab[t] = "idle"
    /\ begun < MaxFlows
    /\ begun' = begun + 1
    /\ carries' = IF withPayload THEN carries \cup {begun'} ELSE carries
    /\ tab' = [tab EXCEPT ![t] = "leaving"]
    /\ flow' = [flow EXCEPT ![t] = begun']
    /\ UNCHANGED <<jar, sent, idToken, result>>

\* Mutation of SetCookies: the payload cookie of an earlier flow wins.
SetCookiesKeepPayload(f) ==
    [state |-> f, verifier |-> f, nonce |-> f,
     payload |-> IF f \in carries /\ jar.payload = NoFlow THEN f ELSE jar.payload]

\* The payload cookie is set only by a flow that has one.
SetCookies(f) ==
    [state |-> f, verifier |-> f, nonce |-> f,
     payload |-> IF f \in carries THEN f ELSE jar.payload]

\* The redirect reaches the browser, which goes to the provider.
Redirected(t) ==
    /\ tab[t] = "leaving"
    /\ jar' = SetCookies(flow[t])
    /\ tab' = [tab EXCEPT ![t] = "away"]
    /\ UNCHANGED <<begun, carries, flow, sent, idToken, result>>

\* Cookies die of age; a payload cookie is never younger than the others.
Forget ==
    /\ jar # NoCookies
    /\ LET old == IF jar.payload # NoFlow THEN jar.payload ELSE jar.state
       IN jar' = [name \in DOMAIN jar |-> IF jar[name] = old THEN NoFlow ELSE jar[name]]
    /\ UNCHANGED <<begun, carries, tab, flow, sent, idToken, result>>

------------------------------------------------------------------------------
(* completeAuthorization.                                                   *)

\* The handler of tab t is over: its response is on the way.
Answered(t, why) ==
    /\ tab' = [tab EXCEPT ![t] = "answered"]
    /\ result' = [result EXCEPT ![t] = why]

\* Mutation of CookiesMatch: it is enough that there is a state.
CookiesPresent(f) ==
    /\ jar.state # NoFlow /\ jar.verifier # NoFlow /\ jar.nonce # NoFlow

\* All three cookies came along, and the state is the one echoed back.
CookiesMatch(f) ==
    /\ jar.state # NoFlow /\ jar.verifier # NoFlow /\ jar.nonce # NoFlow
    /\ jar.state = f

\* "Deliberately coarse": which of the two the provider's error is.
Reason(shape) == IF shape = "access_denied" THEN "AccessDenied" ELSE "ProviderError"

\* The callback request, with f as its state: an error is reported before any
\* cookie is looked at.
Callback(t, f, shape) ==
    /\ sent' = [sent EXCEPT ![t] = jar]
    /\ flow' = [flow EXCEPT ![t] = f]
    /\ \/ /\ shape = "malformed"
          /\ Answered(t, "InvalidCallback")
       \/ /\ shape \in {"access_denied", "error"}
          /\ Answered(t, Reason(shape))
       \/ /\ shape = "code"
          /\ ~CookiesMatch(f)
          /\ Answered(t, "StateMismatch")
       \/ /\ shape = "code"
          /\ CookiesMatch(f)
          /\ tab' = [tab EXCEPT ![t] = "exchange"]
          /\ UNCHANGED result
    /\ UNCHANGED <<begun, carries, jar, idToken>>

\* The provider sends the browser back.
Return(t, shape) ==
    /\ tab[t] = "away"
    /\ Callback(t, flow[t], shape)

\* The address of a callback is opened again in another tab: restored,
\* duplicated, or reloaded before the first answer came.
Reopen(t, u) ==
    /\ tab[t] = "idle"
    /\ tab[u] \in InHandler \cup {"answered", "home"}
    /\ Callback(t, flow[u], "code")

\* A callback with a state this browser was never given.
Stray(t) ==
    /\ tab[t] = "idle"
    /\ Callback(t, NoFlow, "code")

\* The token endpoint answers, with an id token of nonce n or none.
Exchanged(t, n) ==
    /\ tab[t] = "exchange"
    /\ tab' = [tab EXCEPT ![t] = "keys"]
    /\ idToken' = [idToken EXCEPT ![t] = n]
    /\ UNCHANGED <<begun, carries, jar, flow, sent, result>>

ExchangeFails(t) ==
    /\ tab[t] = "exchange"
    /\ Answered(t, "ExchangeFailed")
    /\ UNCHANGED <<begun, carries, jar, flow, sent, idToken>>

\* get or refresh fails, or the token does not verify under a known key.
NotVerified(t) ==
    /\ tab[t] \in {"keys", "refresh"}
    /\ Answered(t, "InvalidIdToken")
    /\ UNCHANGED <<begun, carries, jar, flow, sent, idToken>>

\* No key answers the id token: refresh, once.
KeyUnknown(t) ==
    /\ tab[t] = "keys"
    /\ tab' = [tab EXCEPT ![t] = "refresh"]
    /\ UNCHANGED <<begun, carries, jar, flow, sent, idToken, result>>

\* Mutation of Verified: the nonce is not compared.
VerifiedWithoutNonce(t) ==
    /\ tab[t] \in {"keys", "refresh"}
    /\ Answered(t, IF idToken[t] # NoFlow THEN "Ok" ELSE "InvalidIdToken")
    /\ UNCHANGED <<begun, carries, jar, flow, sent, idToken>>

\* The key is known and the token is of this client: the nonce decides.
Verified(t) ==
    /\ tab[t] \in {"keys", "refresh"}
    /\ Answered(t, IF idToken[t] # NoFlow /\ idToken[t] = sent[t].nonce
                   THEN "Ok" ELSE "InvalidIdToken")
    /\ UNCHANGED <<begun, carries, jar, flow, sent, idToken>>

\* The response arrives, passed through expireTransactionCookies: every
\* cookie goes, whichever flow set it.
Land(t) ==
    /\ tab[t] = "answered"
    /\ jar' = NoCookies
    /\ tab' = [tab EXCEPT ![t] = "home"]
    /\ UNCHANGED <<begun, carries, flow, sent, idToken, result>>

CloseTab(t) ==
    /\ tab[t] = "home"
    /\ tab' = [tab EXCEPT ![t] = "idle"]
    /\ flow' = [flow EXCEPT ![t] = NoFlow]
    /\ sent' = [sent EXCEPT ![t] = NoCookies]
    /\ idToken' = [idToken EXCEPT ![t] = NoFlow]
    /\ result' = [result EXCEPT ![t] = "pending"]
    /\ UNCHANGED <<begun, carries, jar>>

------------------------------------------------------------------------------
\* What the browser does, and what the key set answers.
Browse(t) ==
    \/ \E withPayload \in BOOLEAN : Begin(t, withPayload)
    \/ \E u \in Tabs : Reopen(t, u)
    \/ Redirected(t) \/ Stray(t) \/ Land(t) \/ CloseTab(t)

CheckKeys(t) == NotVerified(t) \/ KeyUnknown(t) \/ Verified(t)

PartyNext ==
    \/ Forget
    \/ \E t \in Tabs :
          \/ Browse(t)
          \/ CheckKeys(t)
          \/ \E shape \in Shapes : Return(t, shape)
          \/ \E n \in Flows \cup {NoFlow} : Exchanged(t, n)
          \/ ExchangeFails(t)

PartySpec == PartyInit /\ [][PartyNext]_partyVars

------------------------------------------------------------------------------
(* Properties.                                                              *)

PartyTypeOK ==
    /\ begun \in 0..MaxFlows
    /\ carries \subseteq Flows
    /\ jar \in Jars
    /\ tab \in [Tabs -> {"idle", "leaving", "away", "answered", "home"} \cup InHandler]
    /\ flow \in [Tabs -> Flows \cup {NoFlow}]
    /\ sent \in [Tabs -> Jars]
    /\ idToken \in [Tabs -> Flows \cup {NoFlow}]
    /\ result \in [Tabs -> Results]

\* "The nonce binds the id token to this browser session": whatever tabs
\* overlap and whatever id token the provider answers with, a sign-in that
\* succeeds used the verifier and the nonce of the flow in its address.
SignInIsOfOneFlow ==
    \A t \in Tabs : result[t] = "Ok" =>
        /\ sent[t].verifier = flow[t]
        /\ idToken[t] = flow[t]

\* A payload comes back: a sign-in begun with one never completes with
\* another's or without.
PayloadComesBack ==
    \A t \in Tabs :
        result[t] = "Ok" /\ flow[t] \in carries => sent[t].payload = flow[t]

\* completeAuthorization returns "the payload that beginAuthorization carried".
PayloadIsOfThisFlow ==
    \A t \in Tabs :
        result[t] = "Ok" => sent[t].payload = (IF flow[t] \in carries THEN flow[t] ELSE NoFlow)
==============================================================================
